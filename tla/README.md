# A verification of redesComputadores

This directory holds TLA+ models of the programs in this repository, the
configurations that model-check them with TLC, and theorems about them that the
TLA+ proof system checks. The repository is the course work of a computer
networks course: two assignments (TP1-2024, TP2-2024), an older one (`old/TP1`),
and reading material. The models are translated from the C sources; the
assignment texts (PDF) and the comments serve only as a statement of what the
programs should do.

## 1. Inventory

### 1.1 TP2-2024: the energy system (`src/TP2-2024/cod`)

Three programs, each a single thread around `select()`, that talk over TCP.

| part | source | state | operations |
| --- | --- | --- | --- |
| SE server (power station), `server_type` 1 | `server.c` | `clients[10]` (socket, id, active), `next_client_id`, `num_clients`, `active_fd_set` and its copy `read_fd_set`, the production history and its index | accept or refuse a client; answer `REQ_INFOSE`, `REQ_STATUS`, `REQ_REM`; notice end-of-file and errors |
| SCII server (street lighting), `server_type` 2 | `server.c` | the same, with the consumption history | the same, with `REQ_INFOSCII`, `REQ_UP`, `REQ_NONE`, `REQ_DOWN` |
| IC client | `client.c` | `se_client_id`, `scii_client_id`, two sockets, the set that `select()` returned | connect to both servers; `kill`, `display info se`, `display info scii`, `query condition`; react to each response |

Interaction: a client opens one connection to each server. Each server answers
`RES_ADD(id)` or `ERROR(01)` and closes. `query condition` goes to SE; its answer
makes the client send `REQ_UP`, `REQ_NONE` or `REQ_DOWN` to SCII on its own. `kill`
sends `REQ_REM(id)` to both and the client ends after the second `OK(01)`. The two
servers never talk to each other.

What is hard: a pass of the server's loop works from a copy of the descriptor
set, taken before `select()`, while its own handlers remove descriptors from the
original and close them; the table of clients is searched by socket in one place and by
identifier in another, and slots of clients gone keep socket numbers that the
kernel hands out again; clients close, reset and vanish at any time; several
messages may come out of one `recv()`, and only the first is looked at; `send()`
to a client gone may end the server; the client must agree with two servers that
admit, refuse and remove it independently.

Correct means: the table, `num_clients`, the watched descriptors and the
connections agree; nobody's departure disturbs another client; the limit of 10 is
exact; the copy of the descriptor set never names a descriptor that would block or
belongs to someone else; the values a client is told are one history; every client
is admitted by both servers or leaves both; `kill` ends a client and success means
that both servers have forgotten it.

### 1.2 TP1-2024: classroom sensors (`src/TP1-2024/tp1-cod`)

| part | source | state | operations |
| --- | --- | --- | --- |
| server | `server.c`, `common.c` | the table `classrooms` of `MAX_ROOMS` entries (number, temperature, humidity, four fans); two sockets | accept one client; `CAD_REQ` (register), `INI_REQ` (init), `ALT_REQ` (update), `DES_REQ` (shutdown), `SAL_REQ` (load info), `INF_REQ` (load rooms); end with the client |
| client | `client.c`, `common.c` | one socket, the line typed, the answer | check a line, send its request, wait, print the answer; end |

Interaction: a client sends at most one request and blocks until the answer is
there. The server calls `accept()` once, before its loop, so a second client
connects and waits in the queue of the listening socket until the server ends.

An entry is unused (every field -999), off (its six values -1) or on (readings);
no field says which: the server looks for the number of the room and for six
values of -1. Each request is legal in some of these. All checks of the
numbers typed are in the client; the server uses the room as an index and stores what
it is sent.

What is hard: the numbers that mark "unused" and "off" are numbers a user can type;
the order of the checks decides which error is sent; an answer is true of the
table only because client and server move in lockstep and nobody else is served;
listings are concatenated to memory that was never initialised, and the client prints
an array of a function that has returned; each process ends in several ways, in the
middle of an exchange too.

Correct means: the table is always in one of the phases and moves between them as
`Rooms` says; an answer is that of its own request and stays true until the next;
nothing typed ends the server; it ends with its client; nobody waits for ever.

### 1.3 Servers with sessions of their own

`old/TP1/chat` (a sequential server, one with a thread per connection, and a client),
`TP1-2024/exemplo` and `Material/Exemplos/Aula Sockets` (the course's one-message
example, twice), and of the textbook programs in `Material/CodigosEncontrados` the TCP
echo servers, `PlusOneServer.cpp` and the vote service.

| part | source | state | operations |
| --- | --- | --- | --- |
| who accepts and who serves | `TCPEchoServer.c` and `exemplo` (one client), `TCPEchoServer4.c`, `PlusOneServer.cpp`, `VoteServerTCP.c`, `chat/server.c` (one after the other), `TCPEchoServer-Fork.c`, `-ForkN.c`, `-Thread.c`, `chat/server-mt.c`, `-Select.c` | sockets held by each process, children not waited for, `running` | accept; fork, create a thread; wait for children; look at the keyboard; end |
| a session | `HandleTCPClient()`, `client_thread()`, the bodies of the loops | `clntSock`, what has been read and not answered | receive, send, close, fail |
| the votes | `VoteServerTCP.c`, `VoteEncoding*.c`, `*Framer.c` | `counts`, and a buffer that is not cleared between messages | decode, count, encode, frame |
| the clients | `TCPEchoClient*.c`, `PlusOneClient.cpp`, `VoteClientTCP.c`, `chat/client.c`, `exemplo/client.c` | what has arrived | connect, send, read until all is there |

What is hard: who holds a socket after a fork, and who closes it; one process, or all
of a service, ending for one client's failure; children that end at any time against a
counter; a word that arrives in parts; a vote counted whose answer cannot be framed.

Correct means: each client gets its own answer, whole; nothing is held that nobody
handles; a failure stays where it happened; each vote is counted once and for the
candidate it names; who waits, waits for a user.

### 1.4 UDP echo programs

`UDPEchoServer.c` blocks in `recvfrom()`; `UDPEchoServer-SIGO.c` is interrupted by SIGIO
and drains its socket in the handler. `UDPEchoClient.c` sends a word and prints the
answer if it comes from the server; `UDPEchoClient-Timeout.c` is interrupted by SIGALRM and sends
again. State: the queue of each socket, pending signals, `tries`. What is hard: signals
do not queue and come between any two steps; datagrams are lost, duplicated, late, or
somebody else's. Correct means: no datagram is left because its signal was merged with
another; nothing but one's echo is printed; who waits for good does so because of a loss.

### 1.5 Survey service

`SurveyServer.cpp` asks question by question, `SurveyServer2.cpp` sends the survey and
reads the answers through a stream, keeps a list of who has answered, and reports to
`AdminClient2.cpp`. One thread per client; `rCount` and `addrList` under one mutex.
What is hard: the mutex against exceptions, errors that a C++ stream swallows, SIGPIPE. Correct
means: a tally is the number of those who gave that answer; a report is of one moment;
a client's end does not end the server or block another.

### 1.6 The rest

`learnc.c` (a language tutorial), further programs of the textbook (multicast, broadcast,
`getaddrinfo`, sizes of types), scripts that start servers and clients, editor and container
settings. `TP1_2018072301` and `TP2_2018072301` are the submitted copies, byte for byte
the same as the files one directory up.

## 2. Modules

| module | models | extends or instantiates |
| --- | --- | --- |
| `Tcp` | a connection as the sockets API shows it (external) | |
| `EnergyProtocol` | the messages of TP2-2024 | |
| `EnergyServer` | one process of `server.c`, SE or SCII, with any clients | `EnergyProtocol`, `Tcp`, `Registry` |
| `Registry` | abstract specification: what a server promises about its clients | |
| `EnergySystem` | SE, SCII and the processes of `client.c` | two instances of `EnergyServer` |
| `Classrooms` | the server and the clients of TP1-2024 | `Tcp`, `Rooms` |
| `Rooms` | abstract specification: the life of a classroom | |
| `TcpServers` | the servers of 1.3, each an architecture with a kind of session, and their clients | `Tcp`, `Ballots` |
| `Ballots` | the messages of the vote programs, byte by byte | |
| `Datagrams` | the UDP echo programs of 1.4 and the network | |
| `Survey` | the survey service of 1.5 | `Tcp` |
| `MCEnergyServer`, `MCEnergySystem`, `MCClassrooms`, `MCTcpServers`, `MCSurvey` | instances for TLC | |
| `Tcp_proofs`, `EnergyServer_proofs` | theorems about connections and `EnergyServer` | |
| `EnergySystem_proofs` | theorems about `EnergySystem` | two instances of `EnergyServer_proofs` |
| `Classrooms_proofs`, `Exchange_proofs` | theorems about the table and about the exchanges of `Classrooms` | |
| `Datagrams_proofs` | theorems about `Datagrams` | |
| `Survey_proofs` | theorems about `Survey` | |
| `TcpServers_proofs` | theorems about `TcpServers` | |

### 2.1 `Tcp`

A connection has two ends, and each end has the messages it has sent that the
other has not read and the state of its stream. `Received` is one `recv()`: it takes
one or more whole messages, because TCP keeps no boundaries (messages are of some
tens of bytes, buffers of 500, so the model never splits one). `Closings` is `close()`:
with nothing unread the other end gets end-of-file after the data; with unread
bytes it gets a reset, which may overtake and discard what was sent last. `Sent` is
`send()`, with its silent success on a connection the peer has closed, the error
of a pending reset, and `SIGPIPE`.

### 2.2 `EnergyServer`

State: the globals of `server.c` and the locals of `main()` under their own names;
`latest` and `history_index` for the history of this server (only the value at
`index - 1` is ever read); and the kernel's part: `fds` (the open descriptors of
the process), `backlog` (connections not accepted), `conn`. A removal leaves its
descriptor in `fds`, as the code leaves it open. `told` is a history
variable: the identifier in the `RES_ADD` of each client. `running` is FALSE after
`SIGPIPE`.

Actions: `Select` is one return of `select()`, with any nonempty part of the ready
descriptors. Then the descriptors left in `read_fd_set` are served in ascending
order, one action each: `Refuse`, `Admit`, `AcceptFails` for the listener;
`Disconnect` (`recv` 0), `ReceiveError` (`recv` -1), `Remove`, `RemoveUnknown`, `Info`,
`Status`, `Up`, `None`, `Down`, `Echo` for a client. Each is the whole handler: `recv`,
the effect and the `send`. Nothing else of the process runs between them, so what
interleaves are the clients' steps and the other processes. The lowest free
descriptor is taken, as the kernel does, so that numbers are reused.

`server.c` uses the same 10 slots and the same handlers for both personalities;
`server_type` picks the requests with a branch of their own, the rest is sent
back (`Echo`).

### 2.3 `EnergySystem`

`SE` and `SCII` are instances of `EnergyServer`; the clients act through the peer
operators of these instances (`PeerConnect`, `PeerSends`, `PeerReceive`,
`PeerCloses`). State of a client: `status` (starting, running or how it ended), the
two identifiers, and `read_fds`, what is left of the set that `select()` returned; it is
gone through in the order keyboard, SE, SCII. A handler that touches both
connections (`StatusFromSE`, `Kill`, an exit) is one action. `SelectFails` is the
`select()` on a closed descriptor.

### 2.4 `Registry`

Clients arrive, are admitted under an identifier never used before, or turned away
when the registry is full, and leave. `EnergyServer` implements it: `members` are the
active slots, each with the client behind its socket.

### 2.5 `Classrooms`

State: `classrooms` and `newsockfd` under their own names; `server` says where the
server is (listening, serving, or how it ended) and `pc` where each client is
(started, at its prompt, waiting for an answer, ended); `backlog` and `conn` are the
kernel's. `sent` and `shown` are what a user remembers: the request the last line
became and what has been printed since.

A client's action is one pass of its loop up to the `send()`: `RoomLine`, `SensorsLine`,
`LoadInfo`, `LoadRooms` and `Unknown` are the commands, with the checks of
`checkInputAndCreatePayload()` in its order; `Ask` is the `send()`, `Skip` a line that sends nothing.
A line is modelled by the numbers `atoi()` makes of its words. `Receive` is the
`recv()` behind it; a missing word (`atoi(NULL)` and the like), an unknown command, the end
of the input and `kill` all end the process (`Quit`), and `Interrupt` is a client killed while
it waits.

The server's actions are its handlers under their own names, each with the `recv()`
before and the `send()` after it. `Missing`, `SensorsOff` and `SensorsOn` are the three answers of
`checkRoomsSensorsAreInstalled()`; `OutsideTable` is the fourth case, in which it reads
outside the array, and is undefined: anything may be printed, or the process
ends. `Garbled` is the undefined text of a listing. `ServerEnds` closes both sockets, so that the
connections left in the queue are reset.

### 2.6 `Rooms`

A room is created once, turned on only while off, updated and shut down only while
on, each on a request of that kind for that room, and with the readings of the
request. `Classrooms` implements it: the phase of a room is read off the sentinels
of its entry, and `request` is the request that `recv()` is about to return.

### 2.7 `TcpServers` and `Ballots`

The textbook's point is that the way to serve many clients and the way to serve one are
independent, and so does the module: `program` is chosen at the start, `Architecture` and
`Kind` say which of the actions it takes. A worker is `main()`, a process of the pool, or
the child or thread made for a client; `Process` says in which process it runs. `fds` are the
connections each process holds, `listeners` the processes that hold the listening socket;
`Descriptors` closes a connection when its last holder lets go, and `Exit` is the end of a
process with all its threads. `Accept`, `Fork`, `ChildBegins`, `ParentCloses`, `Wait`, `CreateThread`, `Start`,
`Select` and `ShutDown` are the loops that accept; `Receive`, `Send` and `Finish` the sessions,
with the errors of `recv()` and `send()` where each program takes them. `CallFails` is the failure of `accept()`, of
`fork()` or of the `malloc()` of a thread's arguments, which ends the process in every program, by
`DieWithSystemMessage()`, `logexit()`, `error()` or an exception that leaves the loop. The bytes of a word may be
cut anywhere, on both sides. `Interrupt` ends one process of the server, `Killed` a client; `stopped` remembers
the workers that a signal or a failed call has ended.

`Ballots` has both encodings and both framings as functions on sequences of bytes; a
build takes one of each. `inBuf` is the server's buffer with what earlier messages left in it, and
`stack` what a buffer holds that nothing was read into. `counted` remembers which candidate each client's vote went to.

### 2.8 `Datagrams`

`net` is a bag of datagrams under way, so that order is free; `Lose`, `Duplicate` and
`StrangerSends` are faults. `SwitchOnSignals`, `EnterHandler`, `RecvFrom`, `WouldBlock` and `SendTo` are
the steps of the servers between which signals and datagrams arrive; the handler masks
signals, so that SIGIO stays pending. `AlarmRings` is SIGALRM anywhere between `sendto()`
and the end; it interrupts only a `recvfrom()` that blocks.

### 2.9 `Survey`

`at` is where each thread is; a lock, each half of `rCount[q][response]++`, and an unlock
are steps of their own. `ReadFails` and `ReadNothing` are reads from a stream that has failed, which
leave `response` as the stack has it (`Garbage`). `Push` is `getForeignAddress()` and
`push_back()`: when the first throws, the mutex stays with a thread that ends. `Die` is the end of the process, with
every thread and connection: by SIGPIPE, or when `accept()` throws in `main()` (`AcceptThrows`, remembered in `thrown`). When it throws in
`adminServer()` that thread alone ends, and with it the service to administrators (`AdminThrows`).
`counted` remembers who was counted with what.

## 3. What is checked

Each run and its properties (the definitions' comments state them in full):

* `se_registry`: three clients of SCII for two places connect, are admitted or refused, send every kind of request, disappear, reset and ask for
  their removal: `CountMatchesWatched`,
  `SnapshotStaysValid`, and `OnlyOwnDeparture` (a client disappears from the table only if it
  asked or has closed). As long as no `recv()` has failed, the table is exactly the
  set of watched connections (`TableMatchesWatched`) although socket numbers are reused
  and stale ones stay in the slots, and the server implements `Registry`, which turns a client away
  only when it is full (`KeepsRegistry`); after that neither is true, see `se_zombie`.
* `se_live`: every connection is answered (`EveryConnectionAnswered`) and every departure noticed, with a client
  of SE that asks for the state all the time. The first is so until removals, which leave the descriptor open, have used up
  every descriptor (`LeakedAll`): then `accept()` fails for ever, and the run reaches this state, with three clients
  for two descriptors. `accept()` fails here, which it does not in `se_registry`, so that the type
  invariant of `EnergyServer` is checked by this run.
* `system_all`: users type at any time, a `kill` between the two `RES_ADD` included. `ServersKeepSpec` says that the
  real clients are within the environment that `EnergyServer` assumes, at both servers, so what
  is shown of one server holds in the system; `EveryActionHasItsStatus` relates the two
  histories by the number of their values (that a request answers the state of a production which another client
  has replaced since is what the code does, and is not judged); `ReportsTellOneHistory` says that the reports
  under way from SCII are sound whoever asks, and that those to a client alone follow one another without a gap.
  `SuccessMeansRemoved` says what success means when users do not wait: the server
  whose `RES_ADD` the client had read has removed it, and never do both list it. `ServersDieOfTheGone` says
  how far SIGPIPE reaches: only what a server sends to a client that has ended kills it. No client is refused in this run (there is a
  descriptor for one client at each server): `se_registry` and `system_live` refuse.
* `system_live`: `EveryClientSettles`, `RefusedLeavesBoth` and `KillEndsClient`, for users that wait for
  replies before they type. What the last becomes without this is `system_hasty`.
* `classrooms`: the table stays in its phases (`EntriesKeepPhase`) and implements
  `Rooms` (`KeepsRooms`) although the server checks nothing; what a user has on the
  screen stays true (`AnswersStayTrue`); no request ends the server
  (`ServerOutlivesClient`, which excepts the sentinel); the client being served always
  gets its answer or an error, the server ends with it, and the others are released when it
  does (`EveryWaitEnds`).
* `tcp_servers`: `AnswersAreRight` (also the bytes in between: an echo server never loses, doubles or
  reorders any), `HeldIsHandled`, `CountsItsChildren`, `EndsForAReason` (the list of what ends a server, with the calls of its
  own loop that may fail, and the one program that serves one client against its comment), `FailuresStayApart`,
  `VotesAreCounted` and `EndsOrWaitsForAUser`, which holds the server that could not make a thread
  (`Stranded`) and the sequential server with a silent client (`HeldUp`) as its only exceptions.
* `datagrams`: `NoneForgotten`, `PrintsItsEcho`, `NoEchoFromNothing`, and `WaitsForACause`, which
  names when a client waits for good: for the plain one a loss is enough, for the retrying one two, or one
  and an alarm that rang too early, because `alarm()` is called once (section 3.3).
* `survey`: `TalliesAreAnswers`, `ReportIsConsistent`, `EndsForAReason` (the process ends only because `accept()` has
  thrown or a client was killed), and `EndsUnlessAbandoned`:
  every client that starts ends unless its user keeps it or the mutex is abandoned.

Four runs find a violation; each is a statement of the assignment or of a
comment that the code does not keep:

* `se_zombie`: after a reset the slot stays active (`ReceiveError` lowers
  `num_clients` and leaves the slot), and a client admitted later is told an
  identifier that no slot holds. It gets `ERROR(02)` to its `REQ_REM`.
* `system_hasty`: `kill` is typed when the client knows SCII's identifier and not yet SE's, so that only SCII is asked; the
  `REQ_REM` arrives there together with the request before it, SCII looks at the first only, and `kill` never ends the
  client. (With both identifiers known one `OK(01)` is enough: the client closes that socket, and its next
  `select()` fails with EBADF and ends it.)
* `system_sigpipe`: `kill` is typed before SCII's `RES_ADD` has arrived, so that SE's `OK(01)` ends the client with
  success; the `RES_ADD` meets a closed socket, which answers with a reset, and SCII's answer to a request
  typed in between raises SIGPIPE. SCII is gone for all its clients.
* `survey_stuck`: `getForeignAddress()` throws for a respondent that has reset its connection,
  between lock and unlock: the mutex stays taken and an administrator waits for good.

### 3.1 Bounds

`Client` (2 or 3 processes) against `MAX_CLIENTS` (1 or 2 instead of 10): one more
client than places. `MaxFd` is the last descriptor, the listener's being 3: 6 in `se_registry`, which leaves three
for clients, so that with both places taken there is one to accept and refuse the third client with, and slots and descriptors
are reused; `accept()` does not fail there. 5 in `se_live` and `system_live`, two descriptors for one place: a client is refused,
and in `se_live` two removals leave `accept()` none for the third. 4 in `system_all`, where the order of
commands and answers is what matters: one descriptor for one place, no refusal, and
after a removal none.
`MaxPending`: messages of one connection that may be under way when its client
sends another: 2 in `se_zombie`, so that two are found by one `recv()`; 1 in `se_registry` and `se_live`, where a client
reads an answer before it asks again (the haste of users is in the `system` runs). `MaxCommands`: commands
typed by all users together. `HISTORY_SIZE`: 6 in `system_all`, more than two commands fill; 1 in `se_registry`
and `se_live`, where every value is written past the end of the history: the code does not check the index, and the
model goes on with any index and value. (The constraint `OneIndexOfTwo` explores one of the two indexes left, from which the server does the
same.)
`Levels`, `Production`, `Consumption`: the ends of the ranges and one value of each
state that matters. `Resets = FALSE` means that clients read everything before they
close. `Patient` users type when nothing is under way: this is what `system_live` assumes and
`client.c` does not enforce (it reads the keyboard in any pass); no other run and no theorem assumes it. Clients are symmetric in the
safety runs; no run about liveness uses symmetry. `CHECK_DEADLOCK FALSE`: the
system does stop, when all clients have gone and the servers wait.

In `classrooms` there are two rooms instead of eight: one to act on and another that must
stay as it is; the code treats all alike. One user types the rooms 0 and 1, the
number behind the last, and the sentinel, with four lines of readings: both ends of every
range, one that would look switched off and one with two fans of the same number.
The other user knows one room and no readings, which is enough to be queued, to be answered
when accepted first, and to disturb the table if the server took it in as well.
`Client` has at most `MAXPENDING + 1` members, so that the queue of `listen()` has room for
all but the one accepted: the assumption of the module. Messages are below the 499
bytes of a `recv()` and arrive whole, one at a time.

In `tcp_servers` there are two clients, enough for one to wait, fail or be counted while
another is served, and to be one more than a limit of threads; two processes in the
pool; two ports; words of two bytes and a buffer of two, so that a word comes whole or in parts;
bytes have two values (`BYTE`), so that 1 1 is the largest number. `MCCommands` has a vote, an
inquiry and a candidate whose number is a newline; `EarlierVotes` is one count short of a newline, and
`StackBytes` a digit where a request ends. One process of the server is interrupted at most.
In `datagrams` each queue holds two datagrams and there are at most two faults, with one client of each kind:
two losses are what the retrying client does not survive, and `MAXTRIES` is that of the
source. In `survey` there are two questions of two parts, two respondents (one with both
answers, one with one) and an administrator; `Killable` leaves one respondent alive; `Garbage` is a value in
range, since one outside is not counted; `ThreadLimits` turns one respondent away or none.

### 3.2 Fairness

Each process takes a step whenever it can (weak fairness of its steps: one thread,
no lock, and the operating system runs it). What was sent arrives: a descriptor that
is ready again and again is in the result of some `select()` (strong fairness of
`Select` with that descriptor, because each `select()` may return before the bytes
arrive). Users are never obliged to type.
In `Classrooms` the server's step and each client's `Receive` are weakly fair: both
processes sit in a blocking `recv()` or `accept()` that returns once there is something.
In `TcpServers` and `Survey` every worker and thread is weakly fair, and every client as far as
its user is not asked: nobody has to start a client, type, answer or hit return, and nobody has to be
killed. A mutex is taken with weak fairness only, which is enough because every holder lets go but the one that is
abandoned. In `Datagrams` the processes are weakly fair, alarms ring, and a datagram under way arrives
or is dropped at a full or closed socket; faults need not happen.
The failing calls (`CallFails`, `AcceptThrows`, `AdminThrows`) have no fairness: they may happen at any time and need not.

### 3.3 What passing properties admit

Some properties hold only because they name, as an exception, what the code does against a text of the repository. Each exception is
reached in its run and is listed among the findings:

* `EveryConnectionAnswered`: removed clients' descriptors are never closed (`server.c`, line 204), against the pool of sockets of
  the assignment (p. 8), "adicionados/descartados" as clients come and go.
* `SuccessMeansRemoved`: success after one `OK(01)` while the other identifier is unknown (`client.c`, line 191); the assignment (p. 6) has both servers
  remove the client.
* `EndsForAReason` of `TcpServers`: `TCPEchoServer.c` says "Run forever" and "NOT REACHED" (lines 17 and 25) of a loop with a `break` at its end.
* `EndsForAReason` of `Survey`: "Repeatedly accept connections and administer the survey" (`SurveyServer.cpp`, line 37), of a loop that an
  exception of `accept()` leaves and that SIGPIPE ends.
* `WaitsForACause`: "Seconds between retransmits" and "Tries before giving up" (`UDPEchoClient-Timeout.c`, lines 12 and 13), of a client that
  sends twice and then neither sends nor gives up.

## 4. What is proved

### 4.1 The servers of TP2-2024

`EnergyServer_proofs`, for every set of clients, every `MAX_CLIENTS`,
`HISTORY_SIZE`, `MaxFd`, `Levels`, `Requests` and `MaxPending`, both server types, with and
without resets; the only assumption is `ServerAssumption` (the constants have their
types, `Client` is finite):

* `TypesHold`: `Spec => []TypeOK`;
* `CountHolds`: `Spec => []CountMatchesWatched`;
* `SnapshotHolds`: `Spec => []SnapshotStaysValid`;
* `TableHolds`: `Spec => []TableMatchesWatched`;
* `OnlyOwnDepartureHolds`: `Spec => OnlyOwnDeparture`, an action property;
* `RegistryKept`: `Spec => KeepsRegistry`, the refinement of `Registry`;
* `ReportsHold`: `Spec => []EveryReportIsSound /\ ([](history_index < HISTORY_SIZE) => []ReportsTellOneHistory)`.

None of the invariants is inductive. `num_clients` goes wrong if a removal is carried out
for an identifier whose slot holds another socket: the step would take an unwatched
descriptor out of `active_fd_set`, or one that the current pass still has to serve. So
`IInv` says where that identifier can come from: the removals under way from a client
carry the identifier it was told (`OwnRemovals`), identifiers are given out once,
and an active slot with the identifier of a watched connection holds its socket
(`IdentifiersOK`); a client is behind one descriptor or once in the backlog or in
neither (`ClientsApart`), so that serving one descriptor does not disturb another's
data; watched descriptors are open and the copy is a part of the watched set
(`DescriptorsOK`). `IInv` does not say that a watched connection has a slot: after a
reset that is false (run `se_zombie`).

The proof goes by action. `ServingClient` is the common part of every step that serves
a client's descriptor; `RemoveStep` shows that the slot found by identifier
holds the socket the message came on; `AdmitStep` and `RefuseStep` treat the head of
the backlog, `PeerMoves` every step of a connected client. `Tcp_proofs` has what
`recv`, `send` and `close` leave of a connection.

`TInv` strengthens `IInv` for the table: what the process serves it has not closed, and every client it serves
has been told an identifier (`ServedOK`); no two active slots share an identifier, and an active slot with the
identifier of a client that is still there holds the client's own socket (`EntriesOK`). `TableMatchesWatched` and
the refinement claim nothing after a `recv()` has failed, because `ReceiveError` closes a descriptor and leaves its slot
active; so the proof needs that this failure is never undone (`Ages`). `OnlyOwnDeparture` has no such proviso and is proved
with resets. `XInv` says, for the composition, what the messages under way tell a client: a `RES_ADD` brings the
identifier it has (`Introduced`), an `OK(01)` comes after it has left the table (`Dismissed`).

`ReportsHold` has two parts. That each report is sound, within 0..100 and in its direction, holds whatever clients there are
and whatever the history holds, also after the write past its end. That reports tell one continuous history is claimed of a client alone,
because those to one of several skip what the others have caused (the condition is in the property), and while the history
has room (the hypothesis, which the code does not ensure: section 5). `RInv` adds to `XInv` that reports are under
way only to a client that was admitted and has not closed its connection (`ReportsTo`): so a refusal, a departure or a new
connection breaks no history, what a step does to it is that the client reads from the front, that another message follows or that no report is
left (`Goes`), or that a report is sent, which starts at `latest` and ends at what `latest` becomes (`Tells`). Since an identifier is never
taken back, a client that is alone after a step was alone before it.

### 4.2 The energy system of TP2-2024

`EnergySystem_proofs`, for every set of clients, every number of commands each may type, both
kinds of user, any values and table sizes, under `SystemAssumption`:

* `ServersKept`: `Spec => ServersKeepSpec`, the refinement: each of the two servers, among the
  clients of `client.c`, runs as `EnergyServer` says, or stutters. So what 4.1 proves of a server holds of SE and
  of SCII in the composed system;
* `OnlyTheGoneKill`: `Spec => []ServersDieOfTheGone`;
* `SuccessRemoves`: `Spec => []SuccessMeansRemoved`;
* `ActionsHaveStatuses`: `Spec /\ [](se_history_index < HISTORY_SIZE) => []EveryActionHasItsStatus`;
* `ReportsOfSCII`: `Spec => []SCII!EveryReportIsSound /\ ([](scii_history_index < HISTORY_SIZE) => []ReportsTellOneHistory)`, which is
  `ReportsHold` of SCII, by the refinement.

The refinement is a statement about the environment: `EnergyServer` lets its peers send only certain requests,
with at most `MaxPending` of them unread, and a removal only with the identifier they were told. That `client.c`
keeps to this is not a local matter. `SysInv` has that the identifiers a client holds are those it was told
(`KnowsItsIds`, which rests on `Introduced` at both servers), and it bounds the messages under way by
what caused them (`WithinBudget`): a command in hand makes at most two, every other message answers one
that the client has read, and so those under way at both servers, in both directions, and
those a command in hand may still make are at most `2 * typed + 2`.

The attempt to prove it found an error in the model that the runs had not met: `EnergyServer` did not allow a
peer to send and to end in one step, as the client does that sends `REQ_REM` to SE and then dies of SIGPIPE at
SCII, which has died before. `PeerSendsLast` is the missing action.

`OnlyTheGoneKill` and `SuccessRemoves` are about all users, also those who type `kill` between the two
`RES_ADD`. `PlaceInv` adds to `SysInv`, for each client and server, that a client that runs and has closed its socket
with a server was listed there and is out of the server's loop, so that the server never sends to it again
(nothing but an end of the client makes a server meet a closed socket); and that a client that has not heard of its place in a table
has the `RES_ADD` coming, on a socket that is open, or has no place (`SEPlace`, `SCIIPlace`). The `OK(01)` that ends a client
says that its server has removed it (`Dismissed`). The other server has done so too; or its identifier was unknown, and then
either it does not list the client, or its `RES_ADD` is still unread when the exit closes the socket, which is then not closed
cleanly (`SERemoved`, `SCIIRemoved`). Before the refinement was proved, TLC checked `SysInv` with two commands of users who
do not wait (1.6 million states).

`ActionsHaveStatuses` is about all users, too. Between the state of the production that SE has given and the action of SCII there are two
messages, which any number of clients have under way at once. `Balance` counts them: the reports from SE not
yet read, the orders to SCII not yet read, and the actions done are together at most the states given. A client turns one report into at most one order
(`StatusIsOneForOne`), SCII one order into at most one action, and no other step makes more of either. The numbers of messages
are cardinalities of the set of their places in all the connections (`Number`); `NumberShifts` says what they
become when one connection loses its first message or gets a last one and others are lost
whole, and every step of a server or a client is shown to do no more than that. `SysInv` gives each step its
connections. The hypothesis is that SE's history has room: `se_history_index` no longer counts when it is full, and
the action of SCII that answers the next report would.

### 4.3 The table of TP1-2024

`Classrooms_proofs`, for every set of clients, every `MAX_ROOMS` and whatever rooms and readings
are typed, under `ClassroomsAssumption` (types, and at most `MAXPENDING + 1` clients):

* `TypesHold`: `Spec => []TypeOK`, in which every request under way has passed the
  checks of its client;
* `PhasesHold`: `Spec => []EntriesKeepPhase`;
* `RoomsImplemented`: `Spec => KeepsRooms`, the refinement of `Rooms`.

`IInv`, the two invariants together, is inductive: the server writes the room and the values of
a request without a check, so the phases of the table rest on what the types say of
the messages in the connections, and what a handler finds (`SensorsOff`: six values of
-1) is what the phase says only while no entry is half off. Each handler is shown to
keep `IInv` and to be a step of `Rooms` or to leave the table alone (`AbstractStep`).

### 4.4 The exchanges of TP1-2024

`Exchange_proofs`, under the same assumption:

* `AnswersHold`: `Spec => []AnswersStayTrue`;
* `ServerOutlives`: `Spec => []ServerOutlivesClient`.

Neither is inductive: that the table agrees with a screen says nothing of the request
under way that will change it. `Exchange` adds the lockstep: between the server and the client
it serves there is the request or its answer while the client waits and nothing
otherwise, an answer under way is true of the table as it is now, a client that is
not served has never been answered, and the server has ended only on its client's end or
on the sentinel. `RespondExchange` is the common part of all handlers; `CodesTell` and
`ListingsTell` say what makes each answer true.

### 4.5 The UDP echo programs

`Datagrams_proofs`, for every set of clients of either kind, every queue length, `MAXTRIES` and
number of faults, under `DatagramAssumption`:

* `TypesHold`: `Spec => []DTypeOK`;
* `NothingForgotten`: `Spec => []NoneForgotten`;
* `EchoesArePrinted`: `Spec => []PrintsItsEcho`;
* `NoEchoMade`: `Spec => []NoEchoFromNothing`.

`NoneForgotten` speaks of the idle loop only; `SignalsInOrder` says what holds while the
handler runs (nothing early is left to remember: it drains the queue before it returns) and that
no SIGIO comes before it is switched on. `PrintsItsEcho` rests on `InboxesHoldAnswers`: what reaches a
client is its echo or a stranger's datagram, and the check of the address tells them
apart (`FromServerIsEcho`). `NoEchoFromNothing` counts the copies of one client's word
in the two directions, over all queues: copies in a queue are the cardinality of the set of their places, and
`OccurrencesAppend` and `OccurrencesTail` say what a datagram put in or taken out changes. A step that moves
the datagram leaves the sum alone, and the bound needs `EchoBound`, which is stronger where a `sendto()` is about to come: before the
first one, and between the alarm and the retry, there is one copy less than the tries allow. Duplicates by the network are paid from its
faults. One lemma per group of steps: the server's, a client's, the network's.

### 4.6 The survey service

`Survey_proofs`, for every set of respondents and administrators, any questions, legal responses and
limits of threads, both servers, whatever the stack holds and whoever is killed, under
`SurveyAssumption` (types, and the clients are finitely many):

* `TypesHold`: `Spec => []SurveyTypeOK`;
* `TalliesHold`: `Spec => []TalliesAreAnswers`;
* `ReportHolds`: `Spec => []ReportIsConsistent`;
* `EndHolds`: `Spec => []EndsForAReason`.

The increment `rCount[q][response]++` is a read and a write. `MutexOK` (who is between lock and
unlock is the holder) keeps a second thread from writing in between, so that what a thread
has read is still there (`CountOK`), and as nothing of its client's has been counted for that
question (`NotYet`) one more is the size of the new set (`StoreSums`). For the report,
`ReportOK` adds that the administrator's copies are made under the same mutex and that a respondent
in the list never counts again. That the answer counted is the one given to
that question needs the stream: the bytes under way are what the client has given after the
questions its thread has passed (`FlowOK`, `Follows`), through closes that lose the end of it, and a client that
is still there never has a failed stream at the other end. That, but for an `accept()` that throws, the process
ends only after a client was killed (`DInv`) counts the parts of the protocol: what its client has read and what is under
way to it are no more than what a thread has sent (`PartsOK`), so a client for which there is a question or an ending to come
has not ended on its own, and the same of an administrator and its report (`AdminsOK`). What a thread sends thus meets a closed
end only if that client was killed. One lemma per
part of the invariant and kind of step: a thread's, `adminServer()`'s, a client's.

### 4.7 The servers over TCP

`TcpServers_proofs`, for every one of the programs, any clients, pool, ports, words of two bytes, sizes of buffers and
limits of threads, under `ServersAssumption` (types, that the names of workers do not
collide, and that the votes counted before went to candidates that `counts[]` has) and, for the theorems on the end of a server and on
the votes, `FiniteClients`:

* `ConnectionsAreHandled`: `Spec => []HeldIsHandled`;
* `FailuresApart`: `Spec => FailuresStayApart`;
* `ChildrenAreCounted`: `Spec => []CountsItsChildren`;
* `AnswersAreOwn`: `Spec => []AnswersAreRight`;
* `ServersEndForAReason`: `Spec => []EndsForAReason`;
* `VotesCountedOnce`: `Spec => []VotesAreCounted`;
* `TypesHold`: `Spec => []ServerTypeOK`.

The invariants are in layers, each proved with the ones before it.

`CInv` says who is where and what it holds. A connection in a backlog is there once and is nobody's
(`QueuesOK`, `FreshOK`); a worker between `accept()` and `close()` has its connection in its process
(`WorkersOK`); and what a process holds, one of its workers handles, but for what `chat/server-mt` has
left behind (`HoldersOK`). No two workers of a process handle one client (`OneHandler`),
because a connection is accepted once and a child or thread bears its client's name. `FailuresApart` follows: with a process
for each connection a process holds one (`HoldsOne`), except the parent between
`fork()` and its own `close()`, when the child has a copy.

`CountOK` says that `childProcCount` is the number of children, and one less between
`fork()` and the increment (lines 22 to 33 of `TCPEchoServer-Fork.c`). That the children are finitely many is
part of the invariant, so that nothing need be assumed of the clients.

`HInv` adds whose the connections are: but for `fork()`, of one process, and what a worker has
accepted is in no backlog again, nor held by anybody when it is done with it.

`SInv` says what streams and buffers hold: `BufOK` for each worker, and for each client when its connection is open
at the server (`OpenOK`: exactly as long as some process holds it or will accept it), what there
is before the single answer of the servers that answer once (`OnceOK`: nothing was sent, so that a client that closes
leaves no reset behind), where the two bytes of a number are (`PlusOK`), that what a client has read, what is under way in both directions and what the
worker has in its buffer are together the word (`EchoOK`), that a client which was not killed leaves nothing behind (`EndOK`), and
that what was read is the beginning of the answer (`AnswerOK`). A `recv()` or `send()` of any length cuts the same word elsewhere
(`SameWhole`). One lemma per step of a worker, of a client and of the two signals.

`EndsInv` reads `EndsForAReason` off the steps that end `main()`: a signal and a failed call of its own loop are in
`stopped`; `waitpid()` fails only with a wrong
count (`CountOK`), a thread is refused only at the limit (the threads alive are some of the clients: here
they must be finitely many), and a `recv()` or `send()` fails in an echo server only on what a
killed client has left (`EndOK`); in the chat and in `PlusOneServer` never, because nothing was sent that a closed client could reset
(`OnceOK`); the vote server goes on after it, and `exemplo/server` ends after one client in any case.

TLC checked `CInv`, `HInv` and `SInv` on the instance `tcp_servers` before they were proved.

`VInv` is about the vote server, for any voters, commands, encodings, framings, earlier votes and bytes of the stack. Of each voter it says that a
request is under way whole or not at all, and is not counted before it is read (`AskedOK`); what every message that the voter has read
or will read says (`Heard`, `TellsOK`, `Says`: in the binary encoding its own candidate and a count that the votes
have reached); which candidate its vote went to (`ChoiceOK`); and that whoever the server has left without an answer, or
will, it could not answer (`GuessOK`). Two voters of one candidate hear different messages (`ApartOK`), which needs `Says`: the count just reached is more
than any that was told before. `TallyOK` is the sum: each count is the earlier one and the number of the voters
whose vote went there. `GoesOnOK` (nothing but a signal ends that server) is what makes an unanswered voter the framer's fault.

The step that counts (`Counting`) reads and writes bytes, so the proof begins with what `Ballots` does with them for every candidate and count:
a framed message is found again, whole (`NextIsFramed`); a message in the binary encoding is read as it
was meant, whatever was in the buffer before (`BinIsRead`); and a request in text is read as a number that begins with the digits sent
(`TextRequestIsRead`). The last is an induction over the digits that `Number` goes through, of which the buffer may add any number: the library's induction
rule takes an operator, but `WFMin` (a set of numbers that is not empty has a least member) takes a set, and the
least place where the claim fails does the same (`LeastOne`, `NumbersExist`, `NumberBegins`). That the digits `Digits` writes make the number
again is `DigitsMake`.

The attempt to prove it found the property wrong where the run did not look: a request for candidate 0 in text may be taken for any number
at all, since 0 and more digits is the number of the digits. `VotesAreCounted` now says so, and
`counted` remembers where a vote went, so that the sum is stated for both encodings and for every candidate. It
also needs earlier votes to be for candidates in range, as they are in `counts[]`.

`TypesOK` is `ServerTypeOK` and that what clients send are numbers (what servers answer may be the address of a client). It is last because the types of
the buffers rest on the rest: that a reply is made of what a worker has read (`ReplyIsTyped`), that a vote server's response decodes from the bytes it keeps
(`VInv`), and that `PlusOneServer` has two bytes when it adds (`SInv`).

### 4.8 Only model-checked

The liveness properties, because the prover does not handle fairness or `ENABLED`: `EveryConnectionAnswered`, `EveryDepartureNoticed`,
`RefusedLeavesBoth`, `KillEndsClient`, `EveryClientSettles`, `EveryWaitEnds`, `EndsOrWaitsForAUser`, `WaitsForACause`,
`EndsUnlessAbandoned`. Every invariant, and every action property, of a passing run is proved; `ReportsTellOneHistory` (its
second part) and `EveryActionHasItsStatus` as long as the history has room, which is what the code takes for granted.
The four runs that find a violation stay with TLC as well: a counterexample is their result.

## 5. Not modelled, and known limits

* Arguments, address resolution, `bind`, `listen`, printing, and the wording of
  messages.
* The write past the end of a history lands on other variables (with the usual
  layout the 101st consumption overwrites `consumption_index`); the model says that any
  stored value may be read back and does not follow the other variables. What remains true then is that each
  report is sound (4.1); no property judges the history itself.
* If a server dies the clients find end-of-file at every `select()` and spin
  (`NothingFromSE`, `NothingFromSCII`); no document says what they should do.
* `KillEndsClient` counts the `select()` that fails with EBADF on a socket closed after its `OK(01)` as an end: the code leaves
  open whether the two confirmations are read in one pass. `system_live` has patient users; nobody else's `kill` is said to end a client.
* `accept()`, `fork()`, `malloc()` and `pthread_create()` fail in the models of 1.3 and 1.5, and `accept()` for want of descriptors in that of
  1.1. Not modelled: `fdopen()` that fails in `VoteServerTCP.c` (lines 29 to 31), `accept()` in TP1-2024, which is called once at the
  start, and an `accept()` of `TP2-2024` that fails on a connection already gone, which the loop passes over. `accept()`
  fails in `Survey` at any time and once, since that ends its loop.
* TP1-2024: the splitting of a line into words (two spaces in `init  info` make an empty word,
  which `atoi()` takes for room 0), the sizes of texts in bytes, and the server's branch for
  the text `kill`: a client that types it ends without sending it.
* Three comments of `common.c` describe answers otherwise than the code sends them
  (`shutdownSensorsOfClassroom()`, lines 356 to 359, swaps `ERROR_03` and `ERROR_06`;
  `updateSensorsValues()`, lines 291 and 292, explains `ERROR_06` by a room already
  occupied; `turnOnSensorsValues()`, line 327, explains `ERROR_05` by sensors that are
  not installed, when they are). The models follow the code; the specifications state what it sends.
* Behaviour that is in the models and that no property judges, because no document says
  otherwise than the code does or the code leaves the outcome open: after the first `OK(01)` the client may pass a closed descriptor to
  `select()` and end in a failure (`SelectFails`); UDPEchoClient-Timeout.c prints what a stranger sends; `load info -999` is not refused, because the number marks the
  unused entries (`OutsideTable`).
* The text encoding of a vote: whatever follows the digits of the candidate in the buffer is read
  as more digits. `VotesAreCounted` says what remains true: the vote goes to a number that begins as the one named,
  and to any at all if that is 0.
* `TcpServers` has messages of two bytes, a number of 16 bits instead of 32, counts below 2^16, and no message as long as
  the buffer of a framer, where `DelimFramer.c` takes a full buffer for a truncated message and `LengthFramer.c` reads
  the excess into a buffer of fixed size. `TCPEchoServer-ForkN.c` with a count of 0 forks without end
  (line 20, unsigned arithmetic): the pool is a constant of the model. `TCPEchoServer.c` closes its socket twice, without effect.
* `UDPEchoServer-SIGO.c` prints in its handler what the idle loop prints as well; what the C library makes of
  that is not modelled.
* `SurveyClient.cpp` at the end of its input, or with a question without responses, prompts for ever:
  in the model a user who gives no answer.
* Not modelled at all: the rest of `PracticalSocket` (UDP, addresses, options), which no program here uses; the
  programs of 1.6, which keep no state and talk to nobody that reacts.

## 6. Plan

1. (done) `Tcp`, `EnergyServer`, `Registry`, `EnergySystem`; types, count and snapshot
   proved.
2. (done) `Classrooms`, `Rooms`; phases, the refinement, the truth of the answers and the
   survival of the server proved.
3. (done) `TcpServers` with `Ballots`, `Datagrams`, `Survey`; `Datagrams` and `Survey` proved, all
   their invariants included.
4. (done) `TableMatchesWatched`, `OnlyOwnDeparture` and the refinement of `Registry` proved of `EnergyServer`; the
   refinement of `EnergyServer` by `EnergySystem`; what success means and how far SIGPIPE reaches, for all users.
5. (done) `TcpServers` proved: `HeldIsHandled`, `FailuresStayApart`, `CountsItsChildren`, `AnswersAreRight` and `EndsForAReason`.
6. (done) `ReportsTellOneHistory` proved of `EnergyServer`, `EveryActionHasItsStatus` of `EnergySystem`, `VotesAreCounted` and
   `ServerTypeOK` of `TcpServers`: all that is left to TLC is liveness.
