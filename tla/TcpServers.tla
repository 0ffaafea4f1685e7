---------------------------- MODULE TcpServers ----------------------------
(***************************************************************************)
(* The TCP servers that serve each connection on its own, with their       *)
(* clients: the echo servers, PlusOneServer.cpp and VoteServerTCP.c of     *)
(* Material/CodigosEncontrados, old/TP1/chat and TP1-2024/exemplo. A       *)
(* server is an architecture (who accepts, and who serves what it has      *)
(* accepted) with a kind of session (what is read and answered); one       *)
(* behaviour is of one program, with clients of its own. The kernel shows  *)
(* as module Tcp has it, with descriptors: a connection is closed when the *)
(* last process that holds it lets go, and a process that ends lets go of  *)
(* everything. Clients may be killed at any time, and so may one process   *)
(* of the server; and the calls between two connections, accept(), fork()  *)
(* and malloc(), may fail, which ends the process that makes them.         *)
(***************************************************************************)
EXTENDS Tcp, Ballots, FiniteSets, Bags

CONSTANTS
  Programs,      \* the servers tried
  Client,
  Pool,          \* the processes that TCPEchoServer-ForkN forks
  Word,          \* what each client is told to send, in bytes
  BYTE,          \* how many values the bytes of Word have
  BUFSIZE,
  Ports,         \* how many ports TCPEchoServer-Select listens on
  ThreadLimits,  \* how many threads a process may have besides main()
  Builds,        \* the encodings and framings of the vote programs
  Commands,       \* the candidates and flags that the voters' command lines give
  EarlierVotes,  \* the votes counted before the behaviour begins
  StackBytes     \* what may be in a buffer that nothing has been read into

ASSUME ServersAssumption ==
  /\ Client \intersect Pool = {} /\ "main" \notin Client \union Pool /\ "nobody" \notin Client
  /\ BYTE \in Nat \ {0} /\ Word \in [Client -> [1 .. 2 -> 0 .. BYTE - 1]]
  /\ BUFSIZE \in Nat \ {0} /\ Ports \in Nat \ {0} /\ ThreadLimits \subseteq Nat
  /\ Builds \subseteq [encoding : Encodings, framing : Framings]
  /\ Commands \subseteq [candidate : 0 .. MAX_CANDIDATE, isInquiry : BOOLEAN]
  /\ IsABag(EarlierVotes) /\ DOMAIN EarlierVotes \subseteq 0 .. MAX_CANDIDATE
  /\ Builds # {} /\ Commands # {}
  /\ StackBytes # {} /\ StackBytes \subseteq Seq(0 .. 255)

\* EndsForAReason compares the limit of threads with the number of clients.
ASSUME FiniteClients == IsFiniteSet(Client)

\* Who may run the code of a session: main(), a process of the pool, or the child
\* or thread that was made for a client and is named after it.
Worker == {"main"} \union Pool \union Client

VARIABLES
  program, build, threadLimit, ballot, stack,  \* chosen at the start
  conn,            \* the connection of each client
  backlog,         \* kernel: of each port, the connections not accepted yet
  fds,             \* kernel: the connections each process holds
  listeners,       \* kernel: the processes that hold the listening sockets
  at,              \* where each worker is
  sock,            \* clntSock of each worker
  buf,             \* what a worker has read and not answered, or is about to send
  childProcCount,  \* of TCPEchoServer-Fork
  ready, running,  \* of TCPEchoServer-Select
  typed,           \* somebody has hit return at its keyboard
  counts, inBuf,   \* of VoteServerTCP
  status,          \* where each client is, or how it ended
  got,             \* what each client has received
  counted,         \* history: the candidate each client's vote went to, or -1
  stopped          \* history: the processes of the server that a signal or the
                   \* failure of accept(), fork() or malloc() has ended

chosen == <<program, build, threadLimit, ballot, stack>>
votes == <<counts, inBuf, counted>>
kernel == <<conn, backlog, fds, listeners>>
loop == <<childProcCount, ready, running>>
workers == <<at, sock, buf>>
clients == <<status, got>>
env == <<typed, stopped>>
svars == <<chosen, votes, kernel, loop, workers, clients, env>>

Architecture ==
  CASE program \in {"TCPEchoServer", "exemplo/server"} -> "once"
    [] program = "TCPEchoServer-Fork" -> "fork"
    [] program = "TCPEchoServer-ForkN" -> "pool"
    [] program \in {"TCPEchoServer-Thread", "chat/server-mt"} -> "thread"
    [] program = "TCPEchoServer-Select" -> "select"
    [] OTHER -> "iterative"  \* TCPEchoServer4, PlusOneServer, VoteServerTCP, chat/server

Kind ==
  CASE program \in {"chat/server", "chat/server-mt"} -> "endpoint"
    [] program = "exemplo/server" -> "note"
    [] program = "PlusOneServer" -> "plus one"
    [] program = "VoteServerTCP" -> "vote"
    [] OTHER -> "echo"

\* The process that runs a worker's code: a thread is of main()'s process.
Process(w) == IF Architecture = "thread" THEN "main" ELSE w

Port == IF Architecture = "select" THEN 1 .. Ports ELSE {1}

Init ==
  /\ program \in Programs
  /\ build \in IF Kind = "vote" THEN Builds ELSE {CHOOSE b \in Builds : TRUE}
  /\ threadLimit \in IF Architecture = "thread" THEN ThreadLimits ELSE {0}
  /\ ballot \in IF Kind = "vote" THEN [Client -> Commands]
                ELSE {[p \in Client |-> CHOOSE b \in Commands : TRUE]}
  /\ stack \in IF Kind = "vote" THEN StackBytes ELSE {<<>>}
  /\ conn = [p \in Client |-> Idle]
  /\ backlog = [q \in 1 .. Ports |-> <<>>]
  /\ fds = [w \in Worker |-> {}]
  /\ listeners = {"main"} \union IF Architecture = "pool" THEN Pool ELSE {}
  /\ at = [w \in Worker |-> IF w \notin listeners THEN "none"
                            ELSE IF Architecture = "select" THEN "select" ELSE "accept"]
  /\ sock = [w \in Worker |-> "nobody"]
  /\ buf = [w \in Worker |-> <<>>]
  /\ childProcCount = 0
  /\ ready = {} /\ running = TRUE /\ typed = FALSE /\ stopped = {}
  /\ counts = EarlierVotes /\ inBuf = stack /\ counted = [p \in Client |-> -1]
  /\ status = [p \in Client |-> "start"]
  /\ got = [p \in Client |-> <<>>]

-----------------------------------------------------------------------------
(* The kernel. *)

\* The descriptors become F and L: a connection of c that no process holds any more
\* is closed, and when nobody listens any more those not accepted are reset.
Descriptors(c, F, L) ==
  LET held(G) == UNION {G[w] : w \in Worker}
      queued == UNION {{backlog[q][k] : k \in DOMAIN backlog[q]} : q \in Port}
      next(p) == IF p \in held(fds) \ held(F) THEN Closings(c[p], "server")
                 ELSE IF L = {} /\ p \in queued THEN {Aborted(c[p], "server")} ELSE {c[p]}
  IN  /\ conn' \in {f \in [Client -> UNION {next(p) : p \in Client}] :
                      \A p \in Client : f[p] \in next(p)}
      /\ fds' = F
      /\ listeners' = L
      /\ backlog' = IF L = {} THEN [q \in 1 .. Ports |-> <<>>] ELSE backlog

\* The process that runs w ends: by exit(), by DieWithSystemMessage() or logexit(),
\* by an exception that leaves the loop, or by SIGPIPE; its connections are as in c.
Exit_Together(w, c) ==
  /\ Descriptors(c, [v \in Worker |-> {}], {})
  /\ at' = [v \in Worker |-> IF at[v] # "none" THEN "ended" ELSE "none"]
Exit(w, c) ==
  LET P == Process(w) IN
  /\ Descriptors(c, [fds EXCEPT ![P] = {}], listeners \ {P})
  /\ at' = [v \in Worker |-> IF Process(v) = P /\ at[v] # "none" THEN "ended" ELSE at[v]]

\* The connections that send() of the bytes s may leave, if it raises no SIGPIPE.
Sends(c, e, s) ==
  IF IsOpen(c, Peer(e)) THEN {SetData(c, e, c[e].data \o s)} ELSE Sent(c, e, s)

\* send() that left d has returned -1.
SendFailed(c, e, d) == c[Peer(e)].end = "rst" /\ d = ErrorReturned(c, e)

-----------------------------------------------------------------------------
(* The loop that accepts. *)

\* select(): the ports with connections, and the keyboard. (When it times out the
\* server only says that it is alive.)
Select ==
  /\ at["main"] = "select" /\ running
  /\ ready' = {q \in Port : backlog[q] # <<>>}
  /\ ready' # {} \/ typed
  /\ running' = ~typed
  /\ typed' = FALSE
  /\ at' = [at EXCEPT !["main"] = IF ready' = {} THEN "select" ELSE "accept"]
  /\ UNCHANGED <<chosen, votes, kernel, childProcCount, sock, buf, clients, stopped>>

\* The sockets are closed, and exit().
ShutDown ==
  /\ at["main"] = "select" /\ ~running
  /\ Exit("main", conn)
  /\ UNCHANGED <<chosen, votes, loop, sock, buf, clients, env>>

\* accept(), at the first of the ready ports in TCPEchoServer-Select.
Accept(w) ==
  /\ at[w] = "accept"
  /\ \E q \in IF Architecture = "select" THEN ready ELSE Port :
       /\ \A r \in ready : q <= r
       /\ backlog[q] # <<>>
       /\ sock' = [sock EXCEPT ![w] = Head(backlog[q])]
       /\ fds' = [fds EXCEPT ![w] = @ \union {Head(backlog[q])}]
       /\ backlog' = [backlog EXCEPT ![q] = Tail(@)]
       /\ ready' = ready \ {q}
  /\ at' = [at EXCEPT ![w] = CASE Architecture = "fork" -> "fork"
                               [] Architecture = "thread" -> "create"
                               [] OTHER -> "receive"]
  /\ UNCHANGED <<chosen, votes, conn, listeners, childProcCount, running, buf, clients, env>>

\* fork(): the child holds what the parent holds.
Fork ==
  /\ at["main"] = "fork"
  /\ LET p == sock["main"] IN
     /\ fds' = [fds EXCEPT ![p] = fds["main"]]
     /\ listeners' = listeners \union {p}
     /\ sock' = [sock EXCEPT ![p] = p]
     /\ at' = [at EXCEPT !["main"] = "parent", ![p] = "child"]
  /\ UNCHANGED <<chosen, votes, conn, backlog, loop, buf, clients, env>>

\* The child closes the listening socket.
ChildBegins(p) ==
  /\ at[p] = "child"
  /\ Descriptors(conn, fds, listeners \ {p})
  /\ at' = [at EXCEPT ![p] = "receive"]
  /\ UNCHANGED <<chosen, votes, loop, sock, buf, clients, env>>

\* The parent closes the child's socket and counts the child.
ParentCloses_KeepsSocket ==
  /\ at["main"] = "parent"
  /\ childProcCount' = childProcCount + 1
  /\ at' = [at EXCEPT !["main"] = "wait"]
  /\ UNCHANGED <<chosen, votes, kernel, ready, running, sock, buf, clients, env>>
ParentCloses ==
  /\ at["main"] = "parent"
  /\ Descriptors(conn, [fds EXCEPT !["main"] = @ \ {sock["main"]}], listeners)
  /\ childProcCount' = childProcCount + 1
  /\ at' = [at EXCEPT !["main"] = "wait"]
  /\ UNCHANGED <<chosen, votes, ready, running, sock, buf, clients, env>>

\* The children of main() that waitpid() has not returned.
Children == {p \in Client : at[p] \notin {"none", "reaped"}}
Zombies == {p \in Client : at[p] = "ended"}

\* waitpid(-1, NULL, WNOHANG), once; it fails when there is no child at all.
Wait_CountsNothing ==
  /\ at["main"] = "wait"
  /\ IF Zombies = {}
       THEN at' = [at EXCEPT !["main"] = "accept"]
       ELSE \E p \in Zombies : at' = [at EXCEPT ![p] = "reaped"]
  /\ UNCHANGED <<chosen, votes, kernel, loop, sock, buf, clients, env>>
Wait ==
  /\ at["main"] = "wait"
  /\ IF childProcCount > 0 /\ Children = {}
       THEN Exit("main", conn) /\ UNCHANGED childProcCount
       ELSE /\ IF childProcCount = 0 \/ Zombies = {}
                 THEN /\ at' = [at EXCEPT !["main"] = "accept"]
                      /\ UNCHANGED childProcCount
                 ELSE /\ \E p \in Zombies : at' = [at EXCEPT ![p] = "reaped"]
                      /\ childProcCount' = childProcCount - 1
            /\ UNCHANGED kernel
  /\ UNCHANGED <<chosen, votes, ready, running, sock, buf, clients, env>>

\* The threads that count for the limit: those of TCPEchoServer-Thread are detached
\* and gone when they have ended, those of chat/server-mt are never joined.
Threads ==
  {p \in Client : at[p] # "none" /\ (program = "TCPEchoServer-Thread" => at[p] # "ended")}

\* pthread_create(), with arguments of the thread's own. When it fails
\* TCPEchoServer-Thread dies, and chat/server-mt does not look.
CreateThread ==
  /\ at["main"] = "create"
  /\ LET p == sock["main"] IN
     IF Cardinality(Threads) < threadLimit
       THEN /\ sock' = [sock EXCEPT ![p] = p]
            /\ at' = [at EXCEPT !["main"] = "accept", ![p] = "start"]
            /\ UNCHANGED kernel
       ELSE /\ IF program = "TCPEchoServer-Thread" THEN Exit("main", conn)
               ELSE at' = [at EXCEPT !["main"] = "accept"] /\ UNCHANGED kernel
            /\ UNCHANGED sock
  /\ UNCHANGED <<chosen, votes, loop, buf, clients, env>>

\* accept(), fork(), or the malloc() of a thread's arguments fails: for want of
\* descriptors, processes or memory, or because the connection in the queue is gone. No
\* program goes on: DieWithSystemMessage(), logexit(), error(), or an exception that
\* leaves the loop of main().
CallFails(w) ==
  /\ at[w] \in {"accept", "fork", "create"}
  /\ stopped' = stopped \union {w}
  /\ Exit(w, conn)
  /\ UNCHANGED <<chosen, votes, loop, sock, buf, clients, typed>>

\* The thread takes the socket out of its arguments.
Start_SharedArguments(p) ==
  /\ at[p] = "start"
  /\ sock' = [sock EXCEPT ![p] = sock["main"]]
  /\ at' = [at EXCEPT ![p] = "receive"]
  /\ UNCHANGED <<chosen, votes, kernel, loop, buf, clients, env>>
Start(p) ==
  /\ at[p] = "start"
  /\ at' = [at EXCEPT ![p] = "receive"]
  /\ UNCHANGED <<chosen, votes, kernel, loop, sock, buf, clients, env>>

-----------------------------------------------------------------------------
(* The sessions. *)

\* val++ of a number in network byte order, of two bytes here.
PlusOne(s) == LET val == (s[1] * BYTE + s[2] + 1) % (BYTE * BYTE)
              IN  <<val \div BYTE, val % BYTE>>

\* What a worker sends: what it has read, the client's address (the client itself,
\* here), "I got your message" (its length), the number, or the framed response.
Reply(w) ==
  CASE Kind = "endpoint" -> <<sock[w]>>
    [] Kind = "note" -> <<18>>
    [] Kind = "plus one" -> PlusOne(buf[w])
    [] OTHER -> buf[w]

\* How many bytes recv() may return of those that have arrived: a word may come in
\* parts, and a buffer of an echo server may be shorter; recvFully() asks for what is
\* missing; the others read the one segment that a client has sent, which fits.
Sizes(there, had) ==
  CASE Kind = "echo" -> 1 .. Min({BUFSIZE, Len(there)})
    [] Kind = "plus one" -> 1 .. Min({2 - Len(had), Len(there)})
    [] OTHER -> {Len(there)}

\* Where end-of-file, and an error, of recv() or getc() leads: the servers of the
\* "endpoint" kind look at neither.
OnEof_Loops == CASE Kind \in {"endpoint", "note"} -> "send" [] OTHER -> "receive"
OnEof == CASE Kind \in {"endpoint", "note"} -> "send" [] OTHER -> "close"
OnError_Dies == CASE Kind = "endpoint" -> "send" [] OTHER -> "exit"
OnError == CASE Kind = "endpoint" -> "send" [] Kind = "vote" -> "close" [] OTHER -> "exit"

\* Bytes that are not a vote.
TakeBytes(w, s) ==
  /\ buf' = [buf EXCEPT ![w] = IF Kind = "plus one" THEN @ \o s ELSE s]
  /\ at' = [at EXCEPT ![w] = IF Kind = "plus one" /\ Len(buf'[w]) < 2 THEN "receive" ELSE "send"]
  /\ UNCHANGED votes

\* counts[c] of a candidate.
CountOf(c, b) == IF BagIn(c, b) THEN b[c] ELSE 0

\* A message: it is decoded and counted, and the response encoded and framed, unless
\* one of these fails, which closes the connection.
Valid(v) == ~v.isResponse /\ v.candidate <= MAX_CANDIDATE
Tallied_Swapped(v) == IF Valid(v) /\ ~v.isInquiry THEN (v.candidate :> v.count) @@ counts ELSE counts
Tallied_Inquiries(v) == IF Valid(v) THEN counts (+) SetToBag({v.candidate}) ELSE counts
Tallied(v) == IF Valid(v) /\ ~v.isInquiry THEN counts (+) SetToBag({v.candidate}) ELSE counts
Response(v) ==
  Encode(build.encoding,
         [v EXCEPT !.isResponse = TRUE,
                   !.count = IF Valid(v) THEN CountOf(v.candidate, Tallied(v)) ELSE @])
TakeVote(w, s) ==
  \E m \in {NextMsg(build.framing, s)} :
  \E v \in {Decode(build.encoding, Overwritten(inBuf, m), Len(m))} :
  \E response \in {Response(v)} :
    /\ inBuf' = Overwritten(inBuf, m)
    /\ counts' = Tallied(v)
    /\ counted' = IF Valid(v) /\ ~v.isInquiry
                    THEN [counted EXCEPT ![sock[w]] = v.candidate] ELSE counted
    /\ IF v # NotAVote /\ Framable(build.framing, response)
         THEN /\ buf' = [buf EXCEPT ![w] = Framed(build.framing, response)]
              /\ at' = [at EXCEPT ![w] = "send"]
         ELSE at' = [at EXCEPT ![w] = "close"] /\ UNCHANGED buf

\* recv(), or GetNextMsg(), and what the server does with what it returns.
Receive(w) ==
  LET p == sock[w]
      there == conn[p]["client"].data
      rest(k) == [conn EXCEPT ![p] = SetData(@, "client", SubSeq(there, k + 1, Len(there)))]
  IN
  /\ at[w] = "receive"
  /\ \/ /\ HasData(conn[p], "server")
        /\ \E k \in Sizes(there, buf[w]) :
             /\ conn' = rest(k)
             /\ IF Kind = "vote" THEN TakeVote(w, there) ELSE TakeBytes(w, SubSeq(there, 1, k))
        /\ UNCHANGED <<backlog, fds, listeners>>
     \/ /\ AtEof(conn[p], "server")
        /\ at' = [at EXCEPT ![w] = OnEof]
        /\ UNCHANGED <<votes, kernel, buf>>
     \/ /\ AtReset(conn[p], "server")
        /\ LET c == [conn EXCEPT ![p] = ErrorReturned(@, "server")] IN
           IF OnError = "exit" THEN Exit(w, c)
           ELSE /\ conn' = c
                /\ at' = [at EXCEPT ![w] = OnError]
                /\ UNCHANGED <<backlog, fds, listeners>>
        /\ UNCHANGED <<votes, buf>>
  /\ UNCHANGED <<chosen, loop, sock, clients, env>>

\* send(), or PutMsg(), which does not look whether fflush() failed. Echo servers and
\* VoteServerTCP read again.
Send(w) ==
  LET p == sock[w] IN
  /\ at[w] = "send"
  /\ \/ RaisesSigPipe(conn[p], "server") /\ Exit(w, conn) /\ UNCHANGED buf
     \/ \E d \in Sends(conn[p], "server", Reply(w)) :
          IF SendFailed(conn[p], "server", d) /\ Kind # "vote"
            THEN Exit(w, [conn EXCEPT ![p] = d]) /\ UNCHANGED buf
            ELSE /\ conn' = [conn EXCEPT ![p] = d]
                 /\ at' = [at EXCEPT ![w] = IF Kind \in {"echo", "vote"} THEN "receive" ELSE "close"]
                 /\ buf' = [buf EXCEPT ![w] = <<>>]
                 /\ UNCHANGED <<backlog, fds, listeners>>
  /\ UNCHANGED <<chosen, votes, loop, sock, clients, env>>

\* The connection is closed, and the worker goes on to what comes after it.
Finish(w) ==
  /\ at[w] = "close"
  /\ IF Architecture \in {"once", "fork"} THEN Exit(w, conn)
     ELSE /\ Descriptors(conn, [fds EXCEPT ![Process(w)] = @ \ {sock[w]}], listeners)
          /\ at' = [at EXCEPT ![w] = CASE Architecture = "thread" -> "ended"
                                       [] Architecture = "select" /\ ready = {} -> "select"
                                       [] OTHER -> "accept"]
  /\ buf' = [buf EXCEPT ![w] = <<>>]
  /\ UNCHANGED <<chosen, votes, loop, sock, clients, env>>

Serve(w) == Accept(w) \/ Receive(w) \/ Send(w) \/ Finish(w)
MainStep == Select \/ ShutDown \/ Fork \/ ParentCloses \/ Wait \/ CreateThread
ServerStep(w) ==
  Serve(w) \/ (w = "main" /\ MainStep) \/ (w \in Client /\ (ChildBegins(w) \/ Start(w)))

-----------------------------------------------------------------------------
(* The clients. *)

Outcomes == {"answered", "unanswered", "guessed", "died", "refused", "killed"}
Ended(p) == status[p] \in Outcomes

\* The client ends, and with it its end of the connection c.
End(p, how, c) ==
  /\ status' = [status EXCEPT ![p] = how]
  /\ \E d \in Closings(c, "client") : conn' = [conn EXCEPT ![p] = d]

Connect(p) ==
  /\ status[p] = "start"
  /\ IF listeners = {}
       THEN status' = [status EXCEPT ![p] = "refused"] /\ UNCHANGED <<conn, backlog>>
       ELSE \E q \in Port :
              /\ status' = [status EXCEPT ![p] = "connected"]
              /\ conn' = [conn EXCEPT ![p] = Established]
              /\ backlog' = [backlog EXCEPT ![q] = Append(@, p)]
  /\ UNCHANGED <<chosen, votes, fds, listeners, loop, workers, got, env>>

\* The request of a voter, or what the others send.
Request(p) ==
  IF Kind = "vote"
    THEN Encode(build.encoding, [isInquiry |-> ballot[p].isInquiry, isResponse |-> FALSE,
                                 candidate |-> ballot[p].candidate, count |-> 0])
    ELSE Word[p]

\* send() of a word, a line or a number, or PutMsg() of a vote, in one piece.
SendWord(p) ==
  /\ status[p] = "connected"
  /\ IF (Kind = "vote" /\ ~Framable(build.framing, Request(p))) \/ RaisesSigPipe(conn[p], "client")
       THEN End(p, "died", conn[p])
       ELSE \E d \in Sends(conn[p], "client",
                            IF Kind = "vote" THEN Framed(build.framing, Request(p)) ELSE Request(p)) :
              IF SendFailed(conn[p], "client", d) /\ Kind # "vote" THEN End(p, "died", d)
              ELSE /\ status' = [status EXCEPT ![p] = "reading"]
                   /\ conn' = [conn EXCEPT ![p] = d]
  /\ UNCHANGED <<chosen, votes, backlog, fds, listeners, loop, workers, got, env>>

\* The client has all it reads for; the chat client reads until end-of-file.
HasAll(p) ==
  CASE Kind \in {"echo", "plus one"} -> Len(got'[p]) >= Len(Word[p])
    [] Kind = "endpoint" -> FALSE
    [] OTHER -> TRUE

\* How end-of-file ends a client: VoteClientTCP decodes a buffer it has not filled.
AtEndOfFile ==
  CASE Kind = "echo" -> "died" [] Kind = "plus one" -> "unanswered"
    [] Kind = "vote" -> "guessed" [] OTHER -> "answered"

Read(p) ==
  LET c == conn[p]
      there == c["server"].data
  IN
  /\ status[p] = "reading"
  /\ \/ /\ HasData(c, "client")
        /\ \E k \in Sizes(there, got[p]) :
             LET d == SetData(c, "server", SubSeq(there, k + 1, Len(there))) IN
             /\ got' = [got EXCEPT ![p] = IF Kind = "vote" THEN NextMsg(build.framing, there)
                                           ELSE @ \o SubSeq(there, 1, k)]
             /\ IF HasAll(p) THEN End(p, "answered", d)
                ELSE conn' = [conn EXCEPT ![p] = d] /\ UNCHANGED status
     \/ /\ AtEof(c, "client")
        /\ End(p, AtEndOfFile, c)
        /\ UNCHANGED got
     \/ /\ AtReset(c, "client")
        /\ IF Kind = "endpoint"  \* total += -1, and it reads again
             THEN conn' = [conn EXCEPT ![p] = ErrorReturned(c, "client")] /\ UNCHANGED status
             ELSE End(p, IF Kind = "vote" THEN "guessed" ELSE "died", ErrorReturned(c, "client"))
        /\ UNCHANGED got
  /\ UNCHANGED <<chosen, votes, backlog, fds, listeners, loop, workers, env>>

\* Its user ends a client with a signal.
Killed(p) ==
  /\ status[p] \in {"connected", "reading"}
  /\ End(p, "killed", conn[p])
  /\ UNCHANGED <<chosen, votes, backlog, fds, listeners, loop, workers, got, env>>

\* Somebody hits return at the server's keyboard.
HitReturn ==
  /\ Architecture = "select" /\ running /\ ~typed
  /\ typed' = TRUE
  /\ UNCHANGED <<chosen, votes, kernel, loop, workers, clients, stopped>>

\* A process of the server is ended by a signal (bound: one of them).
Interrupt(w) ==
  /\ stopped = {} /\ Process(w) = w /\ at[w] \notin {"none", "ended", "reaped"}
  /\ stopped' = stopped \union {w}
  /\ Exit(w, conn)
  /\ UNCHANGED <<chosen, votes, loop, sock, buf, clients, typed>>

Next ==
  \/ \E w \in Worker : ServerStep(w) \/ CallFails(w) \/ Interrupt(w)
  \/ \E p \in Client : Connect(p) \/ SendWord(p) \/ Read(p) \/ Killed(p)
  \/ HitReturn

Spec == Init /\ [][Next]_svars

\* What the client sends is typed, not an argument.
Typed == Kind \in {"endpoint", "note"}

\* Processes and threads run. Nobody has to start a client, type, or hit return.
Fairness ==
  /\ \A w \in Worker : WF_svars(ServerStep(w))
  /\ \A p \in Client : WF_svars(Read(p) \/ (SendWord(p) /\ ~Typed))

LiveSpec == Spec /\ Fairness

-----------------------------------------------------------------------------
(* Properties. *)

ServerTypeOK ==
  /\ conn \in [Client -> [Ends -> [data : Seq(Nat \union Client), end : StreamStates]]]
  /\ fds \in [Worker -> SUBSET Client]
  /\ listeners \subseteq Worker
  /\ at \in [Worker -> {"none", "select", "accept", "fork", "parent", "wait", "create",
                        "child", "start", "receive", "send", "close", "ended", "reaped"}]
  /\ sock \in [Worker -> Client \union {"nobody"}]
  /\ buf \in [Worker -> Seq(Nat)]
  /\ childProcCount \in Nat
  /\ ready \subseteq Port
  /\ running \in BOOLEAN /\ typed \in BOOLEAN /\ stopped \subseteq Worker
  /\ IsABag(counts) /\ inBuf \in Seq(Nat) /\ counted \in [Client -> -1 .. MAX_CANDIDATE]
  /\ status \in [Client -> Outcomes \union {"start", "connected", "reading"}]
  /\ got \in [Client -> Seq(Nat \union Client)]

\* What the bytes of p's session are when nothing has been lost: read, on their way
\* back, held by a worker, on their way to the server.
Stream(p) ==
  LET handlers == {w \in Worker : sock[w] = p /\ at[w] \in {"receive", "send"}}
  IN  got[p] \o conn[p]["server"].data
        \o (IF handlers = {} THEN <<>> ELSE buf[CHOOSE w \in handlers : TRUE])
        \o conn[p]["client"].data

\* Every client is answered with what is its own, whole and in order, however the
\* bytes are cut, the sessions interleave and other clients fail: an echo server keeps
\* the whole word between the client and itself until one of the two ends.
AnswersAreRight ==
  \A p \in Client :
    /\ /\ Kind = "echo" /\ status[p] = "reading" /\ IsOpen(conn[p], "server")
       /\ \A w \in Worker : sock[w] = p => at[w] # "ended"
       => Stream(p) = Word[p]
    /\ status[p] = "answered" =>
         CASE Kind = "echo" -> got[p] = Word[p]
           [] Kind = "plus one" -> got[p] = PlusOne(Word[p])
           [] Kind = "endpoint" -> got[p] \in {<<>>, <<p>>}
           [] Kind = "note" -> got[p] \in {<<>>, <<18>>}
           [] OTHER -> TRUE

\* w is between accept() and close() of p's connection.
Handles(w, p) ==
  sock[w] = p /\ at[w] \in {"fork", "parent", "create", "child", "start", "receive", "send", "close"}

\* chat/server-mt has made no thread for p and forgotten its connection.
Stranded(p) ==
  program = "chat/server-mt" /\ at[p] = "none" /\ p \in fds["main"] /\ ~Handles("main", p)

\* Whatever a process holds, it is handling, and no two workers of one process handle
\* the same connection: nothing is kept open for ever, which would keep the other end
\* from ever seeing end-of-file, and no session is served twice.
HeldIsHandled ==
  \A P \in Worker : \A p \in fds[P] :
    \/ Cardinality({w \in Worker : Process(w) = P /\ Handles(w, p)}) = 1
    \/ Stranded(p)

\* TCPEchoServer-Fork counts the children it has not waited for, wherever it is in its
\* loop and however many have ended by then, so that waitpid() is never called without
\* a child, which would end the server.
CountsItsChildren ==
  Architecture = "fork" /\ at["main"] \notin {"parent", "ended"} =>
    childProcCount = Cardinality(Children)

\* Where each client has a process, the end of one takes no other connection along.
FailuresStayApart ==
  [][(Architecture \in {"fork", "pool"}) =>
       Cardinality((UNION {fds[w] : w \in Worker}) \ (UNION {fds'[w] : w \in Worker})) <= 1]_svars

\* The process that accepts ends only because a signal or the failure of a call of its
\* own loop ended it, because it was told to, for want of threads, or, in echo servers
\* that serve clients in the same process, because a client was killed in the middle of
\* its session: chat, PlusOne and vote servers survive all that clients do. (And the
\* two programs that serve one client only: TCPEchoServer is one of them, although its
\* loop says "Run forever".)
EndsForAReason ==
  at["main"] = "ended" =>
    \/ Architecture = "once"
    \/ ~running \/ "main" \in stopped
    \/ program = "TCPEchoServer-Thread" /\ threadLimit < Cardinality(Client)
    \/ Kind = "echo" /\ Architecture # "fork" /\ \E p \in Client : status[p] = "killed"

\* A user of the chat or the example has connected and not typed anything yet.
Silent(p) == Typed /\ status[p] = "connected"

\* The only worker waits for a silent user, and p for the worker.
HeldUp(p) ==
  /\ \E q \in Port : \E k \in DOMAIN backlog[q] : backlog[q][k] = p
  /\ at["main"] = "receive" /\ Silent(sock["main"])

\* Every client that starts ends, unless its own user or, at a server that serves one
\* client after the other, somebody else's is silent, or chat/server-mt could not make
\* a thread for it: no server loses a client or blocks while there is work. And
\* TCPEchoServer-Select ends when it is told to ("Hit return to shutdown", line 32),
\* although each client keeps it from its keyboard.
EndsOrWaitsForAUser ==
  /\ \A p \in Client :
       <>[](status[p] = "start" \/ Ended(p) \/ Silent(p) \/ HeldUp(p) \/ Stranded(p))
  /\ typed ~> at["main"] = "ended"

\* What a voter reads in the response, in a buffer that nothing was read into before.
Told(p) == Decode(build.encoding, Overwritten(stack, got[p]), Len(got[p]))

\* The clients whose votes went to candidate c.
Voters(c) == {p \in Client : counted[p] = c}

\* The number n, without any of its last three digits.
Beginnings(n) == {n \div place : place \in {1, 10, 100, 1000}}

\* Every vote is counted once, and inquiries are not. With the binary encoding it goes
\* to the candidate it names, voters of one candidate are told different counts, and who
\* is told nothing by a server that goes on has met a newline in the bytes of a count,
\* with a vote that stays counted. With the text encoding it goes to a candidate whose
\* number begins as the one it names (any number does as 0): what follows it in the
\* buffer, from an earlier message or from the stack, may be taken for more digits.
VotesAreCounted ==
  Kind = "vote" =>
    /\ \A c \in UNION {DOMAIN counts, DOMAIN EarlierVotes, {counted[p] : p \in Client} \ {-1}} :
         CountOf(c, counts) = CountOf(c, EarlierVotes) + Cardinality(Voters(c))
    /\ \A p \in Client :
         /\ counted[p] # -1 =>
              /\ ~ballot[p].isInquiry
              /\ ballot[p].candidate \in IF build.encoding = "bin" THEN {counted[p]}
                                         ELSE {0} \union Beginnings(counted[p])
         /\ build.encoding = "bin" /\ status[p] = "answered" =>
              /\ Told(p).isResponse /\ Told(p).candidate = ballot[p].candidate
              /\ \A q \in Voters(counted[p]) \ {p} :
                   counted[p] # -1 /\ status[q] = "answered" => Told(p).count # Told(q).count
         /\ status[p] = "guessed" /\ "main" \notin stopped =>
              /\ build = [encoding |-> "bin", framing |-> "delim"]
              /\ CountOf(ballot[p].candidate, counts) >= NEWLINE
=============================================================================
