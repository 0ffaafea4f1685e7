--------------------------- MODULE Exchange_proofs ---------------------------
(***************************************************************************)
(* Proofs about the exchanges of Classrooms, for any clients, rooms and    *)
(* lines typed: what a client has on its screen stays true of the table,   *)
(* and the server ends after its client only. Neither is inductive: the    *)
(* reason is that client and server move in lockstep, with at most one     *)
(* message between them, and that nobody else is answered.                 *)
(***************************************************************************)
EXTENDS Classrooms_proofs

\* What is on its way in connection d, each way, and which sockets are open.
Asked(d) == d["client"].data
Told(d)  == d["server"].data
ClientOpen(d) == d["client"].end = "open"
ServerOpen(d) == d["server"].end = "open"

\* m is an answer to q that is true of the table t, or q asked for the sentinel.
Answers(t, m, q) == Tells(t, m, q) \/ AsksSentinel(q)

\* Connection d of a client that is at p with request q: either the request or its
\* answer is under way while the client waits, and nothing otherwise.
InLockstep(t, d, p, q) ==
  /\ ServerOpen(d)
  /\ p # "started"
  /\ p # "ended" => ClientOpen(d)
  /\ p = "prompt" => Asked(d) = <<>> /\ Told(d) = <<>>
  /\ p = "waiting" =>
       \/ Asked(d) = <<q>> /\ Told(d) = <<>>
       \/ Asked(d) = <<>> /\ Len(Told(d)) = 1 /\ Answers(t, Head(Told(d)), q)

\* A client that the server has not answered.
Unanswered(d, p, q) ==
  /\ Told(d) = <<>>
  /\ p \in {"started", "prompt"} => q = NoRequest

\* The client on whose request, or with whose end, the server has ended.
Over(d, p, q) == p = "ended" \/ (p = "waiting" /\ Told(d) = <<>> /\ AsksSentinel(q))

\* At its prompt a client shows nothing, or a true answer to its last request.
ScreenTrue(t, p, q, m) == p = "prompt" /\ q # NoRequest => Answers(t, m, q)

Queued(c) == \E k \in 1 .. Len(backlog) : backlog[k] = c

Attended(c) == Queued(c) \/ (server = "serving" /\ c = newsockfd)

Exchange ==
  /\ \A c \in Client : Attended(c) => InLockstep(classrooms, conn[c], pc[c], sent[c])
  /\ \A c \in Client : c # newsockfd => Unanswered(conn[c], pc[c], sent[c])
  /\ server = "serving" =>
       ScreenTrue(classrooms, pc[newsockfd], sent[newsockfd], shown[newsockfd])
  /\ server \in {"exited", "crashed"} =>
       Over(conn[newsockfd], pc[newsockfd], sent[newsockfd])

JInv == IInv /\ Exchange

-----------------------------------------------------------------------------
(* Connections. *)

\* A connection nobody has made, and a new one.
LEMMA NewConnections ==
  /\ Told(Idle) = <<>> /\ ~ServerOpen(Idle)
  /\ Asked(Established) = <<>> /\ Told(Established) = <<>>
  /\ ServerOpen(Established) /\ ClientOpen(Established)
BY DEF Idle, Established, Asked, Told, ServerOpen, ClientOpen, Ends

\* What the two ends find with recv().
LEMMA Finds ==
  ASSUME NEW c
  PROVE  /\ HasData(c, "server") <=> Asked(c) # <<>>
         /\ HasData(c, "client") <=> Told(c) # <<>>
         /\ Incoming(c, "server") = Head(Asked(c))
         /\ Incoming(c, "client") = Head(Told(c))
         /\ AtEof(c, "server") \/ AtReset(c, "server") => ~ClientOpen(c)
BY ServerEnd, ClientEnd DEF HasData, Incoming, AtEof, AtReset, Asked, Told, ClientOpen

\* recv() in the server of the only request.
LEMMA ReceivedByServer ==
  ASSUME NEW c \in Links, NEW d \in Received(c, "server")
  PROVE  /\ Told(d) = Told(c)
         /\ ServerOpen(d) <=> ServerOpen(c)
         /\ ClientOpen(d) <=> ClientOpen(c)
         /\ Len(Asked(c)) = 1 => Asked(d) = <<>>
<1>1. c \in Connections(Messages) /\ "server" \in Ends
  BY LinkIs DEF Ends
<1>2. /\ d["server"] = c["server"]
      /\ d[Peer("server")].end = c[Peer("server")].end
      /\ \E k \in 1 .. Len(c[Peer("server")].data) :
           d[Peer("server")].data
             = SubSeq(c[Peer("server")].data, k + 1, Len(c[Peer("server")].data))
  BY <1>1, ReceivedIsConnection
<1>3. Peer("server") = "client"
  BY DEF Peer
<1>4. \E k \in 1 .. Len(Asked(c)) : Asked(d) = SubSeq(Asked(c), k + 1, Len(Asked(c)))
  BY <1>2, <1>3 DEF Asked
<1>5. Len(Asked(c)) = 1 => Asked(d) = SubSeq(Asked(c), 2, 1)
  BY <1>4
<1>6. Asked(c) \in Seq(Requests)
  BY LinkIs DEF Asked
<1>7. SubSeq(Asked(c), 2, 1) = <<>>
  BY <1>6
<1> QED
  BY <1>2, <1>3, <1>5, <1>7 DEF Told, ServerOpen, ClientOpen

\* recv() in the client of the only answer.
LEMMA ReceivedByClient ==
  ASSUME NEW c \in Links, NEW d \in Received(c, "client")
  PROVE  /\ Asked(d) = Asked(c)
         /\ ServerOpen(d) <=> ServerOpen(c)
         /\ ClientOpen(d) <=> ClientOpen(c)
         /\ Len(Told(c)) = 1 => Told(d) = <<>>
<1>1. c \in Connections(Messages) /\ "client" \in Ends
  BY LinkIs DEF Ends
<1>2. /\ d["client"] = c["client"]
      /\ d[Peer("client")].end = c[Peer("client")].end
      /\ \E k \in 1 .. Len(c[Peer("client")].data) :
           d[Peer("client")].data
             = SubSeq(c[Peer("client")].data, k + 1, Len(c[Peer("client")].data))
  BY <1>1, ReceivedIsConnection
<1>3. Peer("client") = "server"
  BY DEF Peer
<1>4. \E k \in 1 .. Len(Told(c)) : Told(d) = SubSeq(Told(c), k + 1, Len(Told(c)))
  BY <1>2, <1>3 DEF Told
<1>5. Len(Told(c)) = 1 => Told(d) = SubSeq(Told(c), 2, 1)
  BY <1>4
<1>6. Told(c) \in Seq(Replies)
  BY LinkIs DEF Told
<1>7. SubSeq(Told(c), 2, 1) = <<>>
  BY <1>6
<1> QED
  BY <1>2, <1>3, <1>5, <1>7 DEF Asked, ServerOpen, ClientOpen

\* send() in the server: the answer is on its way if the client's socket is open.
LEMMA SentByServer ==
  ASSUME NEW c \in Links, NEW m \in Replies, NEW d \in Sent(c, "server", m)
  PROVE  /\ Asked(d) = Asked(c)
         /\ ServerOpen(d) <=> ServerOpen(c)
         /\ ClientOpen(d) <=> ClientOpen(c)
         /\ ClientOpen(c) => Told(d) = Append(Told(c), m)
<1>1. c \in Connections(Messages) /\ "server" \in Ends /\ m \in Messages
      /\ Append(c["server"].data, m) \in Seq(Messages)
  BY LinkIs DEF Ends, Messages, Connections
<1>2. /\ d[Peer("server")].data = c[Peer("server")].data
      /\ d["server"].end = c["server"].end
      /\ IsOpen(d, Peer("server")) <=> IsOpen(c, Peer("server"))
  BY <1>1, SentIsConnection
<1>3. Peer("server") = "client"
  BY DEF Peer
<1> DEFINE s == Append(c["server"].data, m)
<1>4. IsOpen(c, Peer("server")) => d = SetData(c, "server", s)
  BY DEF Sent, IsOpen
<1>5. s \in Seq(Messages)
  BY <1>1
<1> HIDE DEF s
<1>6. SetData(c, "server", s)["server"].data = s
  BY <1>1, <1>5, SetDataIsConnection
<1> QED
  BY <1>2, <1>3, <1>4, <1>6 DEF Told, Asked, ServerOpen, ClientOpen, IsOpen, s

\* send() in the client: the request is on its way if the server's socket is open.
LEMMA SentByClient ==
  ASSUME NEW c \in Links, NEW m \in Requests, NEW d \in Sent(c, "client", m)
  PROVE  /\ Told(d) = Told(c)
         /\ ServerOpen(d) <=> ServerOpen(c)
         /\ ClientOpen(d) <=> ClientOpen(c)
         /\ ServerOpen(c) => Asked(d) = Append(Asked(c), m)
<1>1. c \in Connections(Messages) /\ "client" \in Ends /\ m \in Messages
      /\ Append(c["client"].data, m) \in Seq(Messages)
  BY LinkIs DEF Ends, Messages, Connections
<1>2. /\ d[Peer("client")].data = c[Peer("client")].data
      /\ d["client"].end = c["client"].end
      /\ IsOpen(d, Peer("client")) <=> IsOpen(c, Peer("client"))
  BY <1>1, SentIsConnection
<1>3. Peer("client") = "server"
  BY DEF Peer
<1> DEFINE s == Append(c["client"].data, m)
<1>4. IsOpen(c, Peer("client")) => d = SetData(c, "client", s)
  BY DEF Sent, IsOpen
<1>5. s \in Seq(Messages)
  BY <1>1
<1> HIDE DEF s
<1>6. SetData(c, "client", s)["client"].data = s
  BY <1>1, <1>5, SetDataIsConnection
<1> QED
  BY <1>2, <1>3, <1>4, <1>6 DEF Told, Asked, ServerOpen, ClientOpen, IsOpen, s

\* close() in the client: it reads nothing more, and the server's end stays.
LEMMA ClosedByClient ==
  ASSUME NEW c \in Links, NEW d \in Closings(c, "client")
  PROVE  Told(d) = <<>> /\ (ServerOpen(d) <=> ServerOpen(c))
<1>1. c \in Connections(Messages) /\ "client" \in Ends
  BY LinkIs DEF Ends
<1>2. d[Peer("client")].data = <<>> /\ d[Peer("client")].end = c[Peer("client")].end
  BY <1>1, ClosingsIsConnection
<1> QED
  BY <1>2 DEF Told, ServerOpen, Peer

\* The end of the server leaves what it has sent on its way, on the connection it
\* served (after a recv() that failed, too) and on those it never accepted.
LEMMA ClosedByServer ==
  ASSUME NEW c \in Links
  PROVE  /\ Told(Closed(c, "server", "rst")) = Told(c)
         /\ Told(Aborted(c, "server")) = Told(c)
         /\ Told(ErrorReturned(c, "server")) = Told(c)
<1>1. c \in Connections(Messages) /\ "server" \in Ends /\ "client" \in Ends
      /\ Peer("server") = "client"
  BY LinkIs DEF Ends, Peer
<1>2. "rst" \in {"rst", "finrst"} /\ "broken" \in StreamStates /\ "rst" \in StreamStates
  BY DEF StreamStates
<1>3. Told(Closed(c, "server", "rst")) = Told(c)
  BY <1>1, <1>2, ClosedIsConnection DEF Told
<1>4. Told(ErrorReturned(c, "server")) = Told(c)
  BY <1>1 DEF Told, ErrorReturned, SetEnd, Connections
<1>5. Told(Aborted(c, "server")) = Told(c)
  BY <1>1 DEF Told, Aborted, SetEnd, SetData, Connections
<1> QED
  BY <1>3, <1>4, <1>5

-----------------------------------------------------------------------------
(* The clients. *)

\* Every client but c is where it was.
Others(c) ==
  \A p \in Client \ {c} : conn'[p] = conn[p] /\ pc'[p] = pc[p] /\ sent'[p] = sent[p]
                          /\ shown'[p] = shown[p]

\* A client's step keeps the exchanges if it keeps its own.
LEMMA ClientMoves ==
  ASSUME JInv, NEW c \in Client, Others(c), UNCHANGED serverVars,
         \A p \in Client \ {c} : Queued(p)' => Queued(p),
         Attended(c)' => InLockstep(classrooms, conn'[c], pc'[c], sent'[c]),
         c # newsockfd => Unanswered(conn'[c], pc'[c], sent'[c]),
         c = newsockfd /\ server = "serving" =>
           ScreenTrue(classrooms, pc'[c], sent'[c], shown'[c]),
         c = newsockfd /\ server \in {"exited", "crashed"} =>
           Over(conn'[c], pc'[c], sent'[c])
  PROVE  Exchange'
<1>1. UNCHANGED <<classrooms, server, newsockfd>>
  BY DEF serverVars
<1>2. ASSUME NEW p \in Client, Attended(p)'
      PROVE  InLockstep(classrooms', conn'[p], pc'[p], sent'[p])
  <2>1. CASE p = c
    BY <1>1, <1>2, <2>1
  <2>2. CASE p # c
    <3>1. Attended(p)
      BY <1>1, <1>2, <2>2 DEF Attended
    <3> QED
      BY <1>1, <2>2, <3>1 DEF Others, JInv, Exchange
  <2> QED
    BY <2>1, <2>2
<1>3. ASSUME NEW p \in Client, p # newsockfd PROVE Unanswered(conn'[p], pc'[p], sent'[p])
  BY <1>3 DEF Others, JInv, Exchange
<1>4. newsockfd \in Client \/ server = "listening"
  BY DEF JInv, IInv, TypeOK
<1>5. ASSUME server = "serving"
      PROVE  ScreenTrue(classrooms, pc'[newsockfd], sent'[newsockfd], shown'[newsockfd])
  BY <1>4, <1>5 DEF Others, JInv, Exchange
<1>6. ASSUME server \in {"exited", "crashed"}
      PROVE  Over(conn'[newsockfd], pc'[newsockfd], sent'[newsockfd])
  BY <1>4, <1>6 DEF Others, JInv, Exchange
<1> QED
  BY <1>1, <1>2, <1>3, <1>5, <1>6 DEF Exchange

\* What the exchanges say of one client.
LEMMA OneClient ==
  ASSUME JInv, NEW c \in Client
  PROVE  /\ conn[c] \in Links
         /\ Attended(c) => InLockstep(classrooms, conn[c], pc[c], sent[c])
         /\ c # newsockfd => Unanswered(conn[c], pc[c], sent[c])
         /\ c = newsockfd => \/ server = "serving" /\ Attended(c)
                             \/ /\ server \in {"exited", "crashed"}
                                /\ Over(conn[c], pc[c], sent[c])
<1>1. conn[c] \in Links /\ NoClient \notin Client
  BY ClassroomsAssumption DEF JInv, IInv, TypeOK
<1>2. server \in {"listening", "serving", "exited", "crashed"}
      /\ (server = "listening" <=> newsockfd = NoClient)
  BY DEF JInv, IInv, TypeOK
<1> QED
  BY <1>1, <1>2 DEF JInv, Exchange, Attended

\* The process of a client ends, and its socket is closed.
LEMMA EndWithExchange ==
  ASSUME JInv, NEW c \in Client, NEW d \in Links, EndWith(c, d),
         Attended(c) => ServerOpen(d)
  PROVE  Exchange'
<1>1. /\ UNCHANGED serverVars /\ backlog' = backlog
      /\ pc' = [pc EXCEPT ![c] = "ended"] /\ sent' = [sent EXCEPT ![c] = NoRequest]
      /\ shown' = [shown EXCEPT ![c] = Nothing]
  BY DEF EndWith
<1>2. /\ conn \in [Client -> Links] /\ pc \in [Client -> {"started", "prompt", "waiting", "ended"}]
      /\ DOMAIN sent = Client /\ DOMAIN shown = Client
  BY DEF JInv, IInv, TypeOK
<1>3. pc'[c] = "ended"
  BY <1>1, <1>2
<1>4. \/ d = Idle /\ conn' = conn
      \/ \E x \in Closings(d, "client") : conn' = [conn EXCEPT ![c] = x]
  BY DEF EndWith
<1>5. Others(c)
  BY <1>1, <1>2, <1>4 DEF Others
<1>6. /\ Attended(c)' => Attended(c)
      /\ \A p \in Client : Queued(p)' => Queued(p)
  BY <1>1 DEF Attended, Queued, serverVars
<1>7. Attended(c) => ServerOpen(conn'[c])
  BY <1>2, <1>4, NewConnections, ClosedByClient
<1>8. c # newsockfd => Told(conn'[c]) = <<>>
  BY <1>2, <1>4, ClosedByClient, OneClient DEF Unanswered
<1>9. Attended(c)' => InLockstep(classrooms, conn'[c], pc'[c], sent'[c])
  BY <1>3, <1>6, <1>7 DEF InLockstep
<1>10. c # newsockfd => Unanswered(conn'[c], pc'[c], sent'[c])
  BY <1>3, <1>8 DEF Unanswered
<1>11. /\ ScreenTrue(classrooms, pc'[c], sent'[c], shown'[c])
       /\ Over(conn'[c], pc'[c], sent'[c])
  BY <1>3 DEF ScreenTrue, Over
<1> QED
  BY <1>1, <1>5, <1>6, <1>9, <1>10, <1>11, ClientMoves

\* The same, with nothing done to the connection before.
LEMMA EndExchange == ASSUME JInv, NEW c \in Client, End(c) PROVE Exchange'
BY OneClient, EndWithExchange DEF End, InLockstep

\* send() of a request, with nothing else under way.
LEMMA AskExchange ==
  ASSUME JInv, NEW c \in Client, pc[c] = "prompt", NEW q \in Requests, Ask(c, q)
  PROVE  Exchange'
<1>1. CASE End(c)
  BY <1>1, EndExchange
<1>2. CASE ~End(c)
  <2>1. PICK d \in Sent(conn[c], "client", q) :
          \/ EndWith(c, d)
          \/ /\ pc' = [pc EXCEPT ![c] = "waiting"]
             /\ conn' = [conn EXCEPT ![c] = d]
             /\ sent' = [sent EXCEPT ![c] = q]
             /\ shown' = [shown EXCEPT ![c] = Nothing]
             /\ UNCHANGED <<serverVars, backlog>>
    BY <1>2 DEF Ask
  <2>2. conn[c] \in Links /\ d \in Links
    BY OneClient, RequestIsLink
  <2>3. /\ Told(d) = Told(conn[c])
        /\ ServerOpen(d) <=> ServerOpen(conn[c])
        /\ ClientOpen(d) <=> ClientOpen(conn[c])
        /\ ServerOpen(conn[c]) => Asked(d) = Append(Asked(conn[c]), q)
    BY <2>2, SentByClient
  <2>4. CASE EndWith(c, d)
    BY <2>2, <2>3, <2>4, OneClient, EndWithExchange DEF InLockstep
  <2>5. CASE ~EndWith(c, d)
    <3>1. /\ conn \in [Client -> Links] /\ pc \in [Client -> {"started", "prompt", "waiting", "ended"}]
          /\ DOMAIN sent = Client /\ DOMAIN shown = Client
      BY DEF JInv, IInv, TypeOK
    <3>2. conn'[c] = d /\ pc'[c] = "waiting" /\ sent'[c] = q /\ Others(c)
          /\ UNCHANGED serverVars /\ backlog' = backlog
      BY <2>1, <2>5, <3>1 DEF Others
    <3>3. /\ Attended(c)' => Attended(c)
          /\ \A p \in Client : Queued(p)' => Queued(p)
      BY <3>2 DEF Attended, Queued, serverVars
    <3>4. Append(<<>>, q) = <<q>>
      OBVIOUS
    <3>5. Attended(c)' => InLockstep(classrooms, d, "waiting", q)
      BY <2>3, <3>3, <3>4, OneClient DEF InLockstep
    <3>6. c # newsockfd => Unanswered(d, "waiting", q)
      BY <2>3, OneClient DEF Unanswered
    <3>7. ScreenTrue(classrooms, "waiting", q, shown'[c])
      BY DEF ScreenTrue
    <3>8. c = newsockfd => server \notin {"exited", "crashed"}
      BY OneClient DEF Over
    <3> QED
      BY <3>2, <3>3, <3>5, <3>6, <3>7, <3>8, ClientMoves
  <2> QED
    BY <2>4, <2>5
<1> QED
  BY <1>1, <1>2

\* A line that becomes no request.
LEMMA SkipExchange ==
  ASSUME JInv, NEW c \in Client, pc[c] = "prompt", NEW m, Skip(c, m)
  PROVE  Exchange'
<1>1. DOMAIN sent = Client /\ DOMAIN shown = Client
  BY DEF JInv, IInv, TypeOK
<1>2. sent'[c] = NoRequest /\ Others(c) /\ UNCHANGED serverVars
      /\ UNCHANGED <<backlog, conn, pc>>
  BY <1>1 DEF Skip, Others
<1>3. /\ Attended(c)' => Attended(c)
      /\ \A p \in Client : Queued(p)' => Queued(p)
  BY <1>2 DEF Attended, Queued, serverVars
<1>4. Attended(c)' => InLockstep(classrooms, conn[c], pc[c], NoRequest)
  BY <1>3, OneClient DEF InLockstep
<1>5. c # newsockfd => Unanswered(conn[c], pc[c], NoRequest)
  BY OneClient DEF Unanswered
<1>6. ScreenTrue(classrooms, pc[c], NoRequest, shown'[c])
  BY DEF ScreenTrue
<1>7. c = newsockfd => server \notin {"exited", "crashed"}
  BY OneClient DEF Over
<1> QED
  BY <1>2, <1>3, <1>4, <1>5, <1>6, <1>7, ClientMoves

\* connect(): a new connection in the queue of accept(), or none.
LEMMA ConnectExchange == ASSUME JInv, NEW c \in Client, Connect(c) PROVE Exchange'
<1>1. /\ conn \in [Client -> Links] /\ pc \in [Client -> {"started", "prompt", "waiting", "ended"}]
      /\ backlog \in Seq(Client)
  BY DEF JInv, IInv, TypeOK
<1>2. pc[c] = "started" /\ pc'[c] = "prompt" /\ UNCHANGED serverVars /\ sent' = sent
  BY <1>1 DEF Connect
<1>3. ~Attended(c) /\ c # newsockfd /\ sent[c] = NoRequest /\ Told(conn[c]) = <<>>
  BY <1>2, OneClient DEF InLockstep, Over, Unanswered
<1>4. \/ conn'[c] = Established /\ backlog' = Append(backlog, c)
      \/ UNCHANGED <<conn, backlog>>
  BY <1>1 DEF Connect
<1>5. Others(c)
  BY <1>1 DEF Connect, Others
<1>6. \A p \in Client \ {c} : Queued(p)' => Queued(p)
  BY <1>1, <1>4 DEF Queued
<1>7. CASE conn'[c] = Established
  <2>1. InLockstep(classrooms, Established, "prompt", NoRequest)
        /\ Unanswered(Established, "prompt", NoRequest)
    BY NewConnections DEF InLockstep, Unanswered
  <2> QED
    BY <1>2, <1>3, <1>5, <1>6, <1>7, <2>1, ClientMoves
<1>8. CASE UNCHANGED <<conn, backlog>>
  <2>1. ~Attended(c)'
    BY <1>2, <1>3, <1>8 DEF Attended, Queued, serverVars
  <2>2. Unanswered(conn[c], "prompt", NoRequest)
    BY <1>3 DEF Unanswered
  <2> QED
    BY <1>2, <1>3, <1>5, <1>6, <1>8, <2>1, <2>2, ClientMoves
<1> QED
  BY <1>4, <1>7, <1>8

\* recv() of the answer, which is printed as it came or garbled.
LEMMA AnsweredExchange == ASSUME JInv, NEW c \in Client, Answered(c) PROVE Exchange'
<1>1. /\ conn \in [Client -> Links] /\ pc \in [Client -> {"started", "prompt", "waiting", "ended"}]
      /\ shown \in [Client -> Replies]
  BY DEF JInv, IInv, TypeOK
<1>2. pc[c] = "waiting" /\ Told(conn[c]) # <<>>
  BY Finds DEF Answered
<1>3. c = newsockfd /\ server = "serving" /\ Attended(c)
  BY <1>2, OneClient DEF Unanswered, Over
<1>4. /\ ServerOpen(conn[c]) /\ ClientOpen(conn[c]) /\ Asked(conn[c]) = <<>>
      /\ Len(Told(conn[c])) = 1 /\ Answers(classrooms, Head(Told(conn[c])), sent[c])
  BY <1>2, <1>3, OneClient DEF InLockstep
<1>5. PICK d \in Received(conn[c], "client") : conn' = [conn EXCEPT ![c] = d]
  BY DEF Answered
<1>6. Asked(d) = <<>> /\ Told(d) = <<>> /\ ServerOpen(d) /\ ClientOpen(d)
  BY <1>1, <1>4, ReceivedByClient
<1>7. PICK m \in Translated(Head(Told(conn[c]))) : shown' = [shown EXCEPT ![c] = m]
  BY Finds DEF Answered
<1>8. Answers(classrooms, m, sent[c])
  <2>1. CASE m = Head(Told(conn[c]))
    BY <1>4, <2>1
  <2>2. CASE m # Head(Told(conn[c]))
    <3>1. m = Garbled /\ Head(Told(conn[c])).type \in {"SAL_RES", "INF_RES"}
      BY <1>7, <2>2 DEF Translated
    <3>2. sent[c].type \in {"SAL_REQ", "INF_REQ"}
      BY <1>4, <3>1 DEF Answers, Tells, AsksSentinel
    <3> QED
      BY <3>1, <3>2 DEF Answers, Tells, Garbled, Code, Reply
  <2> QED
    BY <2>1, <2>2
<1>9. /\ conn'[c] = d /\ shown'[c] = m /\ pc'[c] = "prompt" /\ sent' = sent
      /\ UNCHANGED serverVars /\ backlog' = backlog /\ Others(c)
  BY <1>1, <1>5, <1>7 DEF Answered, Others
<1>10. InLockstep(classrooms, d, "prompt", sent[c])
  BY <1>6 DEF InLockstep
<1>11. ScreenTrue(classrooms, "prompt", sent[c], m)
  BY <1>8 DEF ScreenTrue
<1>12. \A p \in Client : Queued(p)' => Queued(p)
  BY <1>9 DEF Queued
<1> QED
  BY <1>3, <1>9, <1>10, <1>11, <1>12, ClientMoves

\* Every step of a client.
LEMMA ClientStepExchange == ASSUME JInv, NEW c \in Client, ClientStep(c) PROVE Exchange'
<1>1. CASE Line(c)
  BY <1>1, LineIs, AskExchange, SkipExchange
<1> QED
  BY <1>1, ConnectExchange, AnsweredExchange, EndExchange
  DEF ClientStep, Receive, ServerGone, ServerReset, Quit, Interrupt

-----------------------------------------------------------------------------
(* The server. *)

\* The request that the server has before it.
Pending == Incoming(Link, "server")

\* It is the last of the client it serves, if that client still waits.
LEMMA PendingIsSent ==
  ASSUME JInv, NEW t, Requested(t)
  PROVE  /\ newsockfd \in Client /\ server = "serving" /\ Link \in Links
         /\ Pending \in Requests /\ Pending.type = t
         /\ ServerOpen(Link)
         /\ \/ pc[newsockfd] = "ended"
            \/ /\ pc[newsockfd] = "waiting" /\ ClientOpen(Link) /\ Pending = sent[newsockfd]
               /\ Asked(Link) = <<Pending>> /\ Told(Link) = <<>>
<1>1. newsockfd \in Client /\ server = "serving" /\ Link \in Links
  BY OneClient DEF Requested, Link, JInv, IInv, TypeOK
<1>2. HasData(Link, "server") /\ Pending.type = t
  BY DEF Requested, Pending
<1>3. Pending \in Requests
  BY <1>1, <1>2, ReceivedIsLink DEF Pending
<1>4. Pending = Head(Asked(Link)) /\ Asked(Link) # <<>>
  BY <1>2, Finds DEF Pending
<1>5. InLockstep(classrooms, Link, pc[newsockfd], sent[newsockfd])
  BY <1>1, OneClient DEF Link
<1>6. pc[newsockfd] \in {"started", "prompt", "waiting", "ended"}
  BY <1>1 DEF JInv, IInv, TypeOK
<1>7. Head(<<sent[newsockfd]>>) = sent[newsockfd]
  OBVIOUS
<1> QED
  BY <1>1, <1>2, <1>3, <1>4, <1>5, <1>6, <1>7 DEF InLockstep

\* An answer keeps the exchanges, if it is true of the table as it is then.
LEMMA RespondExchange ==
  ASSUME JInv, NEW t, Requested(t), NEW m \in Replies, Respond(m),
         Answers(classrooms', m, Pending)
  PROVE  Exchange'
<1> DEFINE n == newsockfd
<1>1. /\ n \in Client /\ server = "serving" /\ Link \in Links /\ Link = conn[n]
      /\ ServerOpen(Link)
      /\ \/ pc[n] = "ended"
         \/ /\ pc[n] = "waiting" /\ ClientOpen(Link) /\ Pending = sent[n]
            /\ Asked(Link) = <<Pending>> /\ Told(Link) = <<>>
  BY PendingIsSent DEF Link
<1>2. UNCHANGED <<server, newsockfd, backlog, pc, sent, shown>>
  BY DEF Respond, clientVars
<1>3. PICK c \in Received(Link, "server") :
        conn' \in {[conn EXCEPT ![n] = d] : d \in Sent(c, "server", m)}
  BY DEF Respond
<1>4. PICK d \in Sent(c, "server", m) : conn' = [conn EXCEPT ![n] = d]
  BY <1>3
<1>5. c \in Links
  BY <1>1, ReceivedIsLink
<1>6. /\ ServerOpen(d)
      /\ ClientOpen(d) <=> ClientOpen(Link)
      /\ Len(Asked(Link)) = 1 => Asked(d) = <<>>
      /\ ClientOpen(Link) => Told(d) = Append(Told(Link), m)
  BY <1>1, <1>5, ReceivedByServer, SentByServer
<1>7. Len(<<Pending>>) = 1 /\ Append(<<>>, m) = <<m>> /\ Len(<<m>>) = 1 /\ Head(<<m>>) = m
  OBVIOUS
<1>8. InLockstep(classrooms', d, pc[n], sent[n])
  BY <1>1, <1>6, <1>7 DEF InLockstep
<1>9. conn'[n] = d /\ \A p \in Client : p # n => conn'[p] = conn[p]
  BY <1>1, <1>4 DEF JInv, IInv, TypeOK
<1>10. ASSUME NEW p \in Client, p # n
       PROVE  /\ Unanswered(conn[p], pc[p], sent[p])
              /\ Attended(p) => InLockstep(classrooms', conn[p], pc[p], sent[p])
  <2>1. Unanswered(conn[p], pc[p], sent[p])
    BY <1>10, OneClient
  <2>2. Len(<<>>) = 0
    OBVIOUS
  <2> QED
    BY <2>1, <2>2, OneClient DEF InLockstep, Unanswered
<1>11. \A p \in Client : Attended(p)' => Attended(p)
  BY <1>2 DEF Attended, Queued
<1>12. ScreenTrue(classrooms', pc[n], sent[n], shown[n])
  BY <1>1 DEF ScreenTrue
<1> QED
  BY <1>1, <1>2, <1>8, <1>9, <1>10, <1>11, <1>12 DEF Exchange

\* The server ends, with the end of its client or on a request for the sentinel.
LEMMA ServerEndsExchange ==
  ASSUME JInv, server = "serving", NEW how \in {"exited", "crashed"},
         NEW c \in Links, Told(c) = Told(Link), ServerEnds(how, c),
         Over(Link, pc[newsockfd], sent[newsockfd])
  PROVE  Exchange'
<1> DEFINE n == newsockfd
<1>1. n \in Client /\ conn \in [Client -> Links]
  BY DEF JInv, IInv, TypeOK
<1>2. /\ server' = how /\ backlog' = <<>> /\ UNCHANGED <<classrooms, newsockfd, pc, sent, shown>>
  BY DEF ServerEnds, clientVars
<1>3. conn'[n] = Closed(c, "server", "rst")
  BY <1>1 DEF ServerEnds
<1>4. Told(conn'[n]) = Told(Link)
  BY <1>3, ClosedByServer
<1>5. ASSUME NEW p \in Client, p # n PROVE Told(conn'[p]) = Told(conn[p])
  <2>1. conn'[p] = Aborted(conn[p], "server") \/ conn'[p] = conn[p]
    BY <1>5 DEF ServerEnds
  <2> QED
    BY <1>1, <2>1, ClosedByServer
<1>6. \A p \in Client : p # n => Unanswered(conn'[p], pc[p], sent[p])
  BY <1>5, OneClient DEF Unanswered
<1>7. \A p \in Client : ~Attended(p)'
  BY <1>2 DEF Attended, Queued
<1>8. Over(conn'[n], pc[n], sent[n])
  BY <1>4 DEF Over
<1> QED
  BY <1>2, <1>6, <1>7, <1>8 DEF Exchange

\* recv() of end-of-file or of a reset: the client has ended.
LEMMA ClientGoneExchange == ASSUME JInv, ClientGone \/ ClientReset PROVE Exchange'
<1>1. server = "serving" /\ newsockfd \in Client /\ Link \in Links /\ Link = conn[newsockfd]
  BY DEF ClientGone, ClientReset, JInv, IInv, TypeOK, Link
<1>2. ~ClientOpen(Link)
  BY Finds DEF ClientGone, ClientReset
<1>3. InLockstep(classrooms, Link, pc[newsockfd], sent[newsockfd])
  BY <1>1, OneClient
<1>4. Over(Link, pc[newsockfd], sent[newsockfd])
  BY <1>2, <1>3 DEF InLockstep, Over
<1>5. ErrorReturned(Link, "server") \in Links
  <2>1. "broken" \in StreamStates /\ Peer("server") \in Ends
    BY DEF StreamStates, Peer, Ends
  <2> QED
    BY <1>1, <2>1, SetEndIsLink DEF ErrorReturned
<1>6. Told(ErrorReturned(Link, "server")) = Told(Link)
  BY <1>1, ClosedByServer
<1> QED
  BY <1>1, <1>4, <1>5, <1>6, ServerEndsExchange DEF ClientGone, ClientReset

\* accept().
LEMMA AcceptExchange == ASSUME JInv, Accept PROVE Exchange'
<1>1. /\ server = "listening" /\ server' = "serving" /\ backlog # <<>>
      /\ newsockfd' = Head(backlog) /\ backlog' = Tail(backlog)
      /\ UNCHANGED <<classrooms, conn, pc, sent, shown>>
  BY DEF Accept, clientVars
<1>2. newsockfd = NoClient /\ NoClient \notin Client /\ backlog \in Seq(Client)
  BY <1>1, ClassroomsAssumption DEF JInv, IInv, TypeOK
<1>3. Head(backlog) \in Client /\ Queued(Head(backlog))
  BY <1>1, <1>2 DEF Queued
<1>4. \A p \in Client : Attended(p)' => Attended(p)
  <2>1. \A k \in 1 .. Len(Tail(backlog)) :
          k + 1 \in 1 .. Len(backlog) /\ Tail(backlog)[k] = backlog[k + 1]
    BY <1>1, <1>2
  <2> QED
    BY <1>1, <1>3, <2>1 DEF Attended, Queued
<1>5. \A p \in Client : Unanswered(conn[p], pc[p], sent[p])
  BY <1>2, OneClient
<1>6. ScreenTrue(classrooms, pc[newsockfd'], sent[newsockfd'], shown[newsockfd'])
  BY <1>1, <1>3, <1>5 DEF ScreenTrue, Unanswered
<1> QED
  BY <1>1, <1>4, <1>5, <1>6, OneClient DEF Exchange

-----------------------------------------------------------------------------
(* The answers of the handlers are true. *)

\* What makes each code true of a table.
LEMMA CodesTell ==
  ASSUME NEW t, NEW q
  PROVE  /\ q.type = "CAD_REQ" /\ IsOff(t, q.room) => Answers(t, Code("OK_01"), q)
         /\ q.type = "CAD_REQ" /\ Exists(t, q.room) => Answers(t, Code("ERROR_02"), q)
         /\ q.type = "INI_REQ" /\ t[q.room] = Classroom(q.room, q.data)
              => Answers(t, Code("OK_02"), q)
         /\ q.type = "ALT_REQ" /\ t[q.room] = Classroom(q.room, q.data)
              => Answers(t, Code("OK_04"), q)
         /\ q.type = "INI_REQ" /\ IsOn(t, q.room) => Answers(t, Code("ERROR_05"), q)
         /\ q.type = "DES_REQ" /\ IsOff(t, q.room) => Answers(t, Code("OK_03"), q)
         /\ q.type \in {"ALT_REQ", "DES_REQ", "SAL_REQ"} /\ IsOff(t, q.room)
              => Answers(t, Code("ERROR_06"), q)
         /\ q.type \in {"INI_REQ", "ALT_REQ", "DES_REQ", "SAL_REQ"} /\ ~Exists(t, q.room)
              => Answers(t, Code("ERROR_03"), q)
         /\ q.type = "INF_REQ" /\ (\A r \in RoomId : ~Exists(t, r))
              => Answers(t, Code("ERROR_03"), q)
BY DEF Answers, Tells, Code, Reply

\* And each listing.
LEMMA ListingsTell ==
  ASSUME NEW t, NEW q
  PROVE  /\ q.type = "SAL_REQ" /\ IsOn(t, q.room)
              => Answers(t, Reply("SAL_RES", Contents(t, {q.room})), q)
         /\ q.type = "INF_REQ"
              => Answers(t, Reply("INF_RES", Contents(t, {r \in RoomId : Exists(t, r)})), q)
         /\ q.type \in {"SAL_REQ", "INF_REQ"} => Answers(t, Garbled, q)
         /\ AsksSentinel(q) => \A m : Answers(t, m, q)
BY DEF Answers, Tells, Garbled, Code, Reply

\* What the server finds out about a room is so.
LEMMA RoomIsSo ==
  ASSUME IInv
  PROVE  /\ \A r \in Int : Missing(r) => ~Exists(classrooms, r)
         /\ \A r \in RoomId : checkRoomCreated(r) => Exists(classrooms, r)
         /\ \A r : SensorsOff(r) => r \in RoomId /\ IsOff(classrooms, r)
         /\ \A r : SensorsOn(r) => r \in RoomId /\ IsOn(classrooms, r)
         /\ \A r : OutsideTable(r) => r = NoRoom
         /\ CreatedRooms = {r \in RoomId : Exists(classrooms, r)}
<1>1. ASSUME NEW r \in RoomId
      PROVE  /\ checkRoomCreated(r) <=> classrooms[r].roomID = r
             /\ classrooms[r].roomID \in {r, NoRoom} /\ r # NoRoom
             /\ classrooms[r].roomID = NoRoom <=> classrooms[r] = AbsentEntry
             /\ classrooms[r].roomID = r /\ AllOff(classrooms[r])
                  <=> classrooms[r] = OffEntry(r)
  BY CreatedIsOwnEntry, PhaseFacts
<1>2. \A r \in Int : Missing(r) => ~Exists(classrooms, r)
  BY <1>1 DEF Missing, Exists
<1>3. \A r \in RoomId : checkRoomCreated(r) => Exists(classrooms, r)
  BY <1>1 DEF Exists
<1>4. ASSUME NEW r, SensorsOff(r) PROVE r \in RoomId /\ IsOff(classrooms, r)
  BY <1>1, <1>4 DEF SensorsOff, IsOff
<1>5. ASSUME NEW r, SensorsOn(r) PROVE r \in RoomId /\ IsOn(classrooms, r)
  BY <1>1, <1>5 DEF SensorsOn, IsOn, IsOff, Exists
<1>6. ASSUME NEW r, OutsideTable(r) PROVE r = NoRoom
  BY <1>1, <1>6 DEF OutsideTable, checkRoomCreated
<1>7. CreatedRooms = {r \in RoomId : Exists(classrooms, r)}
  BY <1>1 DEF CreatedRooms, Exists
<1> QED
  BY <1>2, <1>3, <1>4, <1>5, <1>6, <1>7

\* A code that is true of the table as it is.
LEMMA RefuseExchange ==
  ASSUME JInv, NEW t, Requested(t), NEW k \in Codes, Refuse(k),
         Answers(classrooms, Code(k), Pending)
  PROVE  Exchange'
<1>1. Respond(Code(k)) /\ classrooms' = classrooms
  BY DEF Refuse
<1>2. Code(k) \in Replies
  BY RepliesAreReplies DEF JInv
<1> QED
  BY <1>1, <1>2, RespondExchange

\* createRoomIfNotExists().
LEMMA CreateExchange == ASSUME JInv, createRoomIfNotExists PROVE Exchange'
<1> DEFINE r == RoomAsked
<1>1. /\ Requested("CAD_REQ") /\ r \in RoomId /\ IInv
      /\ Pending.type = "CAD_REQ" /\ Pending.room = r
      /\ "ERROR_02" \in Codes /\ Code("OK_01") \in Replies
  BY RequestedIsChecked, PendingIsSent, RepliesAreReplies
  DEF createRoomIfNotExists, JInv, Pending, RoomAsked, Codes
<1>2. CASE checkRoomCreated(r)
  <2>1. Refuse("ERROR_02") /\ Answers(classrooms, Code("ERROR_02"), Pending)
    BY <1>1, <1>2, RoomIsSo, CodesTell DEF createRoomIfNotExists
  <2> QED
    BY <1>1, <2>1, RefuseExchange
<1>3. CASE ~checkRoomCreated(r)
  <2>1. SetRoom(r, OffEntry(r)) /\ Respond(Code("OK_01"))
    BY <1>3 DEF createRoomIfNotExists, OffEntry
  <2>2. IsOff(classrooms', r)
    BY <1>1, <2>1 DEF SetRoom, IsOff, IInv, TypeOK
  <2>3. Answers(classrooms', Code("OK_01"), Pending)
    BY <1>1, <2>2, CodesTell
  <2> QED
    BY <1>1, <2>1, <2>3, RespondExchange
<1> QED
  BY <1>2, <1>3

\* turnOnSensorsValues() and updateSensorsValues().
LEMMA InstallExchange ==
  ASSUME JInv, NEW t \in {"INI_REQ", "ALT_REQ"}, Requested(t),
         SensorsOff(RoomAsked) \/ SensorsOn(RoomAsked), Install(RoomAsked, DataAsked)
  PROVE  classrooms'[Pending.room] = Classroom(Pending.room, Pending.data)
<1> DEFINE r == RoomAsked
<1>1. r \in RoomId /\ IInv /\ Pending.room = r /\ Pending.data = DataAsked
  BY RequestedIsChecked DEF JInv, Pending, RoomAsked, DataAsked
<1>2. classrooms[r].roomID = r
  BY <1>1, CreatedIsOwnEntry DEF SensorsOff, SensorsOn
<1> QED
  BY <1>1, <1>2 DEF Install, SetRoom, IInv, TypeOK

\* turnOnSensorsValues().
LEMMA TurnOnExchange == ASSUME JInv, turnOnSensorsValues PROVE Exchange'
<1>1. /\ Requested("INI_REQ") /\ IInv /\ RoomAsked \in Int
      /\ Pending.type = "INI_REQ" /\ Pending.room = RoomAsked
      /\ "ERROR_03" \in Codes /\ "ERROR_05" \in Codes /\ Code("OK_02") \in Replies
  BY RequestedIsChecked, PendingIsSent, RepliesAreReplies, ClassroomsAssumption
  DEF turnOnSensorsValues, JInv, Pending, RoomAsked, RoomId, Codes
<1>2. CASE Missing(RoomAsked) /\ Refuse("ERROR_03")
  BY <1>1, <1>2, RoomIsSo, CodesTell, RefuseExchange
<1>3. CASE SensorsOn(RoomAsked) /\ Refuse("ERROR_05")
  BY <1>1, <1>3, RoomIsSo, CodesTell, RefuseExchange
<1>4. CASE /\ SensorsOff(RoomAsked) /\ Install(RoomAsked, DataAsked)
           /\ Respond(Code("OK_02"))
  BY <1>1, <1>4, InstallExchange, CodesTell, RespondExchange
<1> QED
  BY <1>2, <1>3, <1>4 DEF turnOnSensorsValues

\* updateSensorsValues().
LEMMA UpdateExchange == ASSUME JInv, updateSensorsValues PROVE Exchange'
<1>1. /\ Requested("ALT_REQ") /\ IInv /\ RoomAsked \in Int
      /\ Pending.type = "ALT_REQ" /\ Pending.room = RoomAsked
      /\ "ERROR_03" \in Codes /\ "ERROR_06" \in Codes /\ Code("OK_04") \in Replies
  BY RequestedIsChecked, PendingIsSent, RepliesAreReplies, ClassroomsAssumption
  DEF updateSensorsValues, JInv, Pending, RoomAsked, RoomId, Codes
<1>2. CASE Missing(RoomAsked) /\ Refuse("ERROR_03")
  BY <1>1, <1>2, RoomIsSo, CodesTell, RefuseExchange
<1>3. CASE SensorsOff(RoomAsked) /\ Refuse("ERROR_06")
  BY <1>1, <1>3, RoomIsSo, CodesTell, RefuseExchange
<1>4. CASE /\ SensorsOn(RoomAsked) /\ Install(RoomAsked, DataAsked)
           /\ Respond(Code("OK_04"))
  BY <1>1, <1>4, InstallExchange, CodesTell, RespondExchange
<1> QED
  BY <1>2, <1>3, <1>4 DEF updateSensorsValues

\* shutdownSensorsOfClassroom().
LEMMA ShutdownExchange == ASSUME JInv, shutdownSensorsOfClassroom PROVE Exchange'
<1> DEFINE r == RoomAsked
<1>1. /\ Requested("DES_REQ") /\ IInv /\ r \in RoomId /\ r \in Int
      /\ Pending.type = "DES_REQ" /\ Pending.room = r
      /\ "ERROR_03" \in Codes /\ "ERROR_06" \in Codes /\ Code("OK_03") \in Replies
  BY RequestedIsChecked, PendingIsSent, RepliesAreReplies, ClassroomsAssumption
  DEF shutdownSensorsOfClassroom, JInv, Pending, RoomAsked, RoomId, Codes
<1>2. CASE Missing(r) /\ Refuse("ERROR_03")
  BY <1>1, <1>2, RoomIsSo, CodesTell, RefuseExchange
<1>3. CASE SensorsOff(r) /\ Refuse("ERROR_06")
  BY <1>1, <1>3, RoomIsSo, CodesTell, RefuseExchange
<1>4. CASE SensorsOn(r) /\ Install(r, Cleared(r)) /\ Respond(Code("OK_03"))
  <2>1. SetRoom(r, OffEntry(r))
    BY <1>1, <1>4, ClearedIsOff
  <2>2. IsOff(classrooms', r)
    BY <1>1, <2>1 DEF SetRoom, IsOff, IInv, TypeOK
  <2> QED
    BY <1>1, <1>4, <2>2, CodesTell, RespondExchange
<1> QED
  BY <1>2, <1>3, <1>4 DEF shutdownSensorsOfClassroom

\* A listing that is true, and what it may become.
LEMMA ShowExchange ==
  ASSUME JInv, NEW t, Requested(t), NEW k \in Codes, NEW S \in SUBSET RoomId, Show(k, S),
         Answers(classrooms, Reply(k, Contents(classrooms, S)), Pending),
         Answers(classrooms, Garbled, Pending)
  PROVE  Exchange'
<1>1. Reply(k, Contents(classrooms, S)) \in Replies /\ Garbled \in Replies
  BY RepliesAreReplies DEF JInv
<1>2. CASE Respond(Reply(k, Contents(classrooms, S))) /\ classrooms' = classrooms
  BY <1>1, <1>2, RespondExchange
<1>3. CASE Respond(Garbled) /\ classrooms' = classrooms
  BY <1>1, <1>3, RespondExchange
<1> QED
  BY <1>2, <1>3 DEF Show

\* printClassroom(): only the sentinel takes it out of the table, and then the
\* answer, or the crash, is that of AsksSentinel.
LEMMA PrintOneExchange == ASSUME JInv, printClassroom PROVE Exchange'
<1> DEFINE r == RoomAsked
<1>1. /\ Requested("SAL_REQ") /\ IInv /\ r \in Int
      /\ Pending.type = "SAL_REQ" /\ Pending.room = r
      /\ {"ERROR_03", "ERROR_06", "SAL_RES"} \subseteq Codes
  BY PendingIsSent, ClassroomsAssumption
  DEF printClassroom, JInv, Pending, RoomAsked, RoomId, Codes, Requests
<1>2. CASE Missing(r) /\ Refuse("ERROR_03")
  BY <1>1, <1>2, RoomIsSo, CodesTell, RefuseExchange
<1>3. CASE SensorsOff(r) /\ Refuse("ERROR_06")
  BY <1>1, <1>3, RoomIsSo, CodesTell, RefuseExchange
<1>4. CASE SensorsOn(r) /\ Show("SAL_RES", {r})
  <2>1. r \in RoomId /\ IsOn(classrooms, r)
    BY <1>1, <1>4, RoomIsSo
  <2>2. /\ Answers(classrooms, Reply("SAL_RES", Contents(classrooms, {r})), Pending)
        /\ Answers(classrooms, Garbled, Pending)
    BY <1>1, <2>1, ListingsTell
  <2> QED
    BY <1>1, <1>4, <2>1, <2>2, ShowExchange
<1>5. CASE /\ OutsideTable(r)
           /\ \/ Show("SAL_RES", {})
              \/ Refuse("ERROR_06")
              \/ \E c \in Received(Link, "server") : ServerEnds("crashed", c)
  <2>1. AsksSentinel(Pending)
    BY <1>1, <1>5, RoomIsSo DEF AsksSentinel
  <2>2. \A m : Answers(classrooms, m, Pending)
    BY <2>1, ListingsTell
  <2>3. CASE Show("SAL_RES", {}) \/ Refuse("ERROR_06")
    BY <1>1, <2>2, <2>3, ShowExchange, RefuseExchange
  <2>4. CASE \E c \in Received(Link, "server") : ServerEnds("crashed", c)
    <3>1. PICK c \in Received(Link, "server") : ServerEnds("crashed", c)
      BY <2>4
    <3>2. server = "serving" /\ Link \in Links /\ Over(Link, pc[newsockfd], sent[newsockfd])
      BY <1>1, <2>1, PendingIsSent DEF Over
    <3>3. c \in Links /\ Told(c) = Told(Link)
      BY <3>2, ReceivedIsLink, ReceivedByServer
    <3> QED
      BY <3>1, <3>2, <3>3, ServerEndsExchange
  <2> QED
    BY <1>5, <2>3, <2>4
<1> QED
  BY <1>2, <1>3, <1>4, <1>5 DEF printClassroom

\* printClassrooms().
LEMMA PrintAllExchange == ASSUME JInv, printClassrooms PROVE Exchange'
<1>1. /\ Requested("INF_REQ") /\ IInv /\ Pending.type = "INF_REQ"
      /\ "ERROR_03" \in Codes /\ "INF_RES" \in Codes
      /\ CreatedRooms = {r \in RoomId : Exists(classrooms, r)}
  BY PendingIsSent, RoomIsSo DEF printClassrooms, JInv, Codes
<1>2. CASE CreatedRooms = {} /\ Refuse("ERROR_03")
  BY <1>1, <1>2, CodesTell, RefuseExchange
<1>3. CASE Show("INF_RES", CreatedRooms)
  <2>1. CreatedRooms \in SUBSET RoomId
    BY DEF CreatedRooms
  <2>2. /\ Answers(classrooms, Reply("INF_RES", Contents(classrooms, CreatedRooms)), Pending)
        /\ Answers(classrooms, Garbled, Pending)
    BY <1>1, ListingsTell
  <2> QED
    BY <1>1, <1>3, <2>1, <2>2, ShowExchange
<1> QED
  BY <1>2, <1>3 DEF printClassrooms

\* Every step of the server.
LEMMA ServerStepExchange == ASSUME JInv, ServerStep PROVE Exchange'
BY CreateExchange, TurnOnExchange, UpdateExchange, ShutdownExchange, PrintOneExchange,
   PrintAllExchange, AcceptExchange, ClientGoneExchange DEF ServerStep, executeCommand

-----------------------------------------------------------------------------
(* The theorems. *)

\* Nothing is under way when the server starts.
LEMMA InitJInv == ASSUME Init PROVE JInv
<1>1. Exchange
  <2>1. \A c \in Client : ~Attended(c)
    BY DEF Init, Attended, Queued
  <2>2. \A c \in Client : Unanswered(conn[c], pc[c], sent[c])
    BY NewConnections DEF Init, Unanswered
  <2> QED
    BY <2>1, <2>2 DEF Init, Exchange
<1> QED
  BY <1>1, InitIInv DEF JInv

\* Every step keeps the exchanges.
LEMMA NextJInv == ASSUME JInv, [Next]_vars PROVE JInv'
<1>1. IInv'
  BY NextIInv DEF JInv
<1>2. CASE Next
  BY <1>1, <1>2, ServerStepExchange, ClientStepExchange DEF Next, JInv
<1>3. CASE UNCHANGED vars
  <2>1. UNCHANGED <<classrooms, server, newsockfd, backlog, conn, pc, sent, shown>>
    BY <1>3 DEF vars, serverVars, clientVars
  <2>2. Exchange'
    BY <2>1 DEF JInv, Exchange, Attended, Queued
  <2> QED
    BY <1>1, <2>2 DEF JInv
<1> QED
  BY <1>2, <1>3

\* Client and server move in lockstep in every state of the program.
THEOREM ExchangeHolds == Spec => []JInv
BY InitJInv, NextJInv, PTL DEF Spec

\* What a client has on its screen is true of the server's table until its next
\* request.
THEOREM AnswersHold == Spec => []AnswersStayTrue
<1>1. ASSUME JInv, NEW c \in Client, pc[c] = "prompt", sent[c] # NoRequest,
             ~AsksSentinel(sent[c])
      PROVE  Tells(classrooms, shown[c], sent[c])
  <2>1. c = newsockfd /\ server = "serving"
    BY <1>1, OneClient DEF Unanswered, Over
  <2> QED
    BY <1>1, <2>1 DEF JInv, Exchange, ScreenTrue, Answers
<1>2. JInv => AnswersStayTrue
  BY <1>1 DEF AnswersStayTrue
<1> QED
  BY <1>2, ExchangeHolds, PTL

\* The server ends after its client, or on a request for the sentinel; no other
\* request ends it.
THEOREM ServerOutlives == Spec => []ServerOutlivesClient
<1>1. JInv => ServerOutlivesClient
  BY DEF JInv, Exchange, Over, ServerOutlivesClient
<1> QED
  BY <1>1, ExchangeHolds, PTL
=============================================================================
