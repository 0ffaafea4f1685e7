------------------------- MODULE EnergyServer_proofs -------------------------
(***************************************************************************)
(* Safety of EnergyServer for every number of clients, slots, descriptors  *)
(* and values: the types, the count of the watched connections, the copy   *)
(* of active_fd_set that the loop goes through while its own handlers      *)
(* change active_fd_set and close descriptors; then the table, whose slot  *)
(* a departure frees, and the abstract registry.                           *)
(*                                                                         *)
(* None of them is inductive. Whether num_clients and read_fd_set survive  *)
(* a removal depends on the identifier in the message, on the slot where   *)
(* the table holds it and on the socket of that slot: IInv relates the     *)
(* four. It does not say that a watched connection has a slot, because a   *)
(* reset may leave one without (AdmittedIsRegistered is false): TInv says  *)
(* it for as long as no recv() has failed.                                 *)
(*                                                                         *)
(* The rest is what a composition of the server with its clients needs:    *)
(* what the messages under way mean to those who will read them (XInv),    *)
(* and what a step of the server or of a client does to one connection     *)
(* (ServerMoves, ClientMoves) or to the number of messages of some types   *)
(* in all of them (Number). The last theorem is about the reports of SCII: *)
(* each is sound and, as long as the history is not full, those of a       *)
(* client alone tell one history (RInv).                                   *)
(***************************************************************************)
EXTENDS EnergyServer, Tcp_proofs, FiniteSetTheorems

\* The listener is always watched, a watched descriptor is open, and the loop
\* has nothing left to serve but watched descriptors.
DescriptorsOK ==
  /\ server_socket \in active_fd_set
  /\ Watched \subseteq DOMAIN fds
  /\ read_fd_set \subseteq active_fd_set

\* The removals under way from client p carry the identifier it was told, alone.
OwnRemovals(p, c) ==
  \A k \in 1 .. Len(c["client"].data) :
    c["client"].data[k].type = "REQ_REM" =>
      told[p] # NoId /\ c["client"].data[k] = REQ_REM(told[p])

\* A client is in one place: behind one descriptor, or once in the backlog, or
\* in neither; it has connected in the first two cases, and has an identifier of
\* its own in the first.
ClientsApart ==
  /\ \A i, k \in DOMAIN fds : fds[i] = fds[k] => i = k
  /\ \A k, l \in 1 .. Len(backlog) : backlog[k] = backlog[l] => k = l
  /\ \A k \in 1 .. Len(backlog) : \A i \in DOMAIN fds : fds[i] # backlog[k]
  /\ \A k \in 1 .. Len(backlog) : /\ told[backlog[k]] = NoId
                                  /\ conn[backlog[k]]["client"].end # "idle"
  /\ \A i \in DOMAIN fds : conn[fds[i]]["client"].end # "idle"
  /\ \A p \in Client : conn[p]["client"].end = "idle" => told[p] = NoId

\* Identifiers are given out once, from 1 on, and an active slot that holds the identifier
\* of a watched connection holds its socket.
IdentifiersOK ==
  /\ next_client_id > 0
  /\ \A p \in Client : told[p] < next_client_id
  /\ \A p, q \in Client : told[p] = told[q] => p = q \/ told[p] = NoId
  /\ \A j \in Slot : clients[j].id < next_client_id
  /\ \A i \in Watched : \A j \in Slot :
       clients[j].active /\ clients[j].id = told[fds[i]] => clients[j].socket = i
  /\ \A p \in Client : OwnRemovals(p, conn[p])

IInv ==
  /\ TypeOK
  /\ DescriptorsOK
  /\ ClientsApart
  /\ IdentifiersOK
  /\ CountMatchesWatched
  /\ SnapshotStaysValid

-----------------------------------------------------------------------------
(* What the steps of a connection preserve. *)

\* The client's end of d has still connected, if it had in c, and no message is
\* under way from it in d but those of c.
Keeps(c, d) ==
  /\ d \in Connections(Messages)
  /\ c["client"].end # "idle" => d["client"].end # "idle"
  /\ \A k \in 1 .. Len(d["client"].data) : \E l \in 1 .. Len(c["client"].data) :
       d["client"].data[k] = c["client"].data[l]

\* A connection nothing happened to keeps all that Keeps asks for.
LEMMA KeepsReflexive ==
  ASSUME NEW c \in Connections(Messages)
  PROVE  Keeps(c, c)
BY DEF Keeps

\* Two steps of a connection make one.
LEMMA KeepsTransitive ==
  ASSUME NEW b, NEW c, NEW d, Keeps(b, c), Keeps(c, d)
  PROVE  Keeps(b, d)
BY DEF Keeps

\* Removals under way stay the client's own.
LEMMA KeepsOwnRemovals ==
  ASSUME NEW p, NEW c, NEW d, Keeps(c, d), OwnRemovals(p, c)
  PROVE  OwnRemovals(p, d)
BY DEF Keeps, OwnRemovals

\* The server is an end, and the client its peer.
LEMMA ServerEnd == "server" \in Ends /\ "client" = Peer("server")
BY DEF Peer, Ends

\* The same for the client.
LEMMA ClientEnd == "client" \in Ends /\ "server" = Peer("client")
BY DEF Peer, Ends

\* The tail of a sequence is what followed.
LEMMA TailIsPart ==
  ASSUME NEW S, NEW s \in Seq(S), NEW k \in 1 .. Len(s)
  PROVE  \A x \in 1 .. Len(SubSeq(s, k + 1, Len(s))) :
           x + k \in 1 .. Len(s) /\ SubSeq(s, k + 1, Len(s))[x] = s[x + k]
<1> DEFINE n == Len(s)
<1>1. n \in Nat /\ k \in 1 .. n
  OBVIOUS
<1>2. Len(SubSeq(s, k + 1, n)) = n - k
  BY <1>1
<1>3. ASSUME NEW x \in 1 .. n - k
      PROVE  x + k \in 1 .. n /\ SubSeq(s, k + 1, n)[x] = s[x + k]
  BY <1>1, <1>3
<1> QED
  BY <1>2, <1>3

\* What recv() at the server leaves: the tail of what was under way.
LEMMA ServerReceives ==
  ASSUME NEW c \in Connections(Messages), NEW d \in Received(c, "server")
  PROVE  Keeps(c, d)
<1> DEFINE s == c["client"].data
<1>1. /\ d \in Connections(Messages) /\ d["client"].end = c["client"].end
      /\ \E k \in 1 .. Len(s) : d["client"].data = SubSeq(s, k + 1, Len(s))
  <2>1. "server" \in Ends
    BY DEF Ends
  <2>2. /\ d \in Connections(Messages)
        /\ d[Peer("server")].end = c[Peer("server")].end
        /\ \E k \in 1 .. Len(c[Peer("server")].data) :
             d[Peer("server")].data
               = SubSeq(c[Peer("server")].data, k + 1, Len(c[Peer("server")].data))
    BY <2>1, ReceivedIsConnection
  <2>3. Peer("server") = "client"
    BY DEF Peer
  <2> QED
    BY <2>2, <2>3
<1>2. s \in Seq(Messages)
  BY ClientEnd DEF Connections
<1>3. PICK k \in 1 .. Len(s) : d["client"].data = SubSeq(s, k + 1, Len(s))
  BY <1>1
<1>4. \A x \in 1 .. Len(SubSeq(s, k + 1, Len(s))) :
        x + k \in 1 .. Len(s) /\ SubSeq(s, k + 1, Len(s))[x] = s[x + k]
  BY <1>2, TailIsPart
<1> QED
  BY <1>1, <1>3, <1>4 DEF Keeps

\* What send() at the server leaves.
LEMMA ServerSends ==
  ASSUME NEW c \in Connections(Messages), NEW m \in Messages,
         NEW d \in Sent(c, "server", m)
  PROVE  Keeps(c, d)
<1>1. /\ d \in Connections(Messages) /\ d["client"].data = c["client"].data
      /\ d["client"].end # "idle"
  BY SentIsConnection, ServerEnd
<1> QED
  BY <1>1 DEF Keeps

\* What close(), or the end of the process, leaves.
LEMMA ServerCloses ==
  ASSUME NEW c \in Connections(Messages)
  PROVE  /\ \A d \in Closings(c, "server") : Keeps(c, d)
         /\ \A how \in {"rst", "finrst"} : Keeps(c, Closed(c, "server", how))
<1>1. ASSUME NEW d \in Closings(c, "server")
      PROVE  Keeps(c, d)
  <2>1. /\ d \in Connections(Messages) /\ d["client"].data = <<>>
        /\ d["client"].end = c["client"].end
    BY ClosingsIsConnection, ServerEnd
  <2> QED
    BY <2>1 DEF Keeps
<1>2. ASSUME NEW how \in {"rst", "finrst"}, NEW d, d = Closed(c, "server", how)
      PROVE  Keeps(c, d)
  <2>1. /\ d \in Connections(Messages) /\ d["client"].data = <<>>
        /\ d["client"].end = c["client"].end
    BY <1>2, ClosedIsConnection, ServerEnd
  <2> QED
    BY <2>1 DEF Keeps
<1> QED
  BY <1>1, <1>2

\* What recv() leaves when it returns a reset: no message is lost.
LEMMA ErrorIsReturned ==
  ASSUME NEW c \in Connections(Messages), NEW e \in Ends
  PROVE  /\ ErrorReturned(c, e) \in Connections(Messages)
         /\ ErrorReturned(c, e)[e] = c[e]
         /\ ErrorReturned(c, e)[Peer(e)].data = c[Peer(e)].data
         /\ ErrorReturned(c, e)[Peer(e)].end = "broken"
<1> DEFINE p == Peer(e)
           x == "broken"
<1>1. p \in Ends /\ Peer(p) = e /\ x \in StreamStates
  BY PeerIsOther DEF StreamStates
<1>2. ErrorReturned(c, e) = SetEnd(c, p, x)
  BY DEF ErrorReturned
<1> HIDE DEF p, x
<1>3. /\ SetEnd(c, p, x) \in Connections(Messages)
      /\ SetEnd(c, p, x)[Peer(p)] = c[Peer(p)]
      /\ SetEnd(c, p, x)[p].data = c[p].data
      /\ SetEnd(c, p, x)[p].end = x
  BY <1>1, SetEndIsConnection
<1> QED
  BY <1>1, <1>2, <1>3 DEF p, x

\* send() at the server keeps every connection, and when it does not end the
\* process it touches no connection but the one it is for.
LEMMA SendKeeps ==
  ASSUME TypeOK, NEW p \in Client, NEW c, Keeps(conn[p], c), NEW m \in Messages,
         Send(p, c, m)
  PROVE  /\ conn' \in [Client -> Connections(Messages)]
         /\ \A q \in Client : Keeps(conn[q], conn'[q])
         /\ \/ running' = FALSE
            \/ UNCHANGED running /\ \A q \in Client \ {p} : conn'[q] = conn[q]
<1>1. c \in Connections(Messages) /\ conn \in [Client -> Connections(Messages)]
  BY DEF Keeps, TypeOK
<1>2. CASE conn' \in {[conn EXCEPT ![p] = d] : d \in Sent(c, "server", m)}
           /\ UNCHANGED running
  <2>1. PICK d \in Sent(c, "server", m) : conn' = [conn EXCEPT ![p] = d]
    BY <1>2
  <2>2. Keeps(conn[p], d) /\ d \in Connections(Messages)
    <3>1. Keeps(c, d)
      BY <1>1, ServerSends
    <3>2. Keeps(conn[p], d)
      BY <3>1, KeepsTransitive
    <3> QED
      BY <3>2 DEF Keeps
  <2>3. \A q \in Client : conn'[q] = IF q = p THEN d ELSE conn[q]
    BY <1>1, <2>1
  <2>4. \A q \in Client : Keeps(conn[q], conn[q])
    BY <1>1, KeepsReflexive
  <2> QED
    BY <1>1, <1>2, <2>1, <2>2, <2>3, <2>4
<1>3. CASE /\ RaisesSigPipe(c, "server")
           /\ running' = FALSE
           /\ \E how \in [Client -> {"rst", "finrst"}] :
                conn' = [q \in Client |->
                     IF conn[q] = Idle THEN Idle
                     ELSE Closed(IF q = p THEN c ELSE conn[q], "server", how[q])]
  <2>1. PICK how \in [Client -> {"rst", "finrst"}] :
          conn' = [q \in Client |->
                     IF conn[q] = Idle THEN Idle
                     ELSE Closed(IF q = p THEN c ELSE conn[q], "server", how[q])]
    BY <1>3
  <2>2. ASSUME NEW q \in Client
        PROVE  Keeps(conn[q], conn'[q])
    <3> DEFINE b == IF q = p THEN c ELSE conn[q]
               d == Closed(b, "server", how[q])
    <3>1. b \in Connections(Messages) /\ Keeps(conn[q], b)
      BY <1>1, KeepsReflexive
    <3>2. Keeps(b, d)
      BY <3>1, ServerCloses
    <3>3. Keeps(conn[q], d)
      BY <3>1, <3>2, KeepsTransitive
    <3>4. conn[q] = Idle => Keeps(conn[q], Idle)
      BY <1>1, KeepsReflexive
    <3>5. conn'[q] = IF conn[q] = Idle THEN Idle ELSE d
      BY <2>1
    <3> QED
      BY <3>3, <3>4, <3>5
  <2>3. conn' \in [Client -> Connections(Messages)]
    BY <2>1, <2>2 DEF Keeps
  <2> QED
    BY <1>3, <2>2, <2>3
<1> QED
  BY <1>2, <1>3 DEF Send

-----------------------------------------------------------------------------
(* The steps of the server that serve a client. *)

\* The finite sets the count is about.
LEMMA WatchedIsFinite ==
  ASSUME TypeOK
  PROVE  IsFiniteSet(Watched) /\ Cardinality(Watched) \in Nat
<1>1. IsFiniteSet(Fd)
  BY ServerAssumption, FS_Interval DEF Fd, server_socket
<1>2. Watched \subseteq Fd
  BY DEF TypeOK, Watched
<1> QED
  BY <1>1, <1>2, FS_Subset, FS_CardinalityType

\* A descriptor the loop serves is open, watched and no other client's.
LEMMA ServedDescriptor ==
  ASSUME IInv, NEW i \in Fd, Serving(i)
  PROVE  /\ i \in Watched /\ i \in DOMAIN fds /\ i # server_socket
         /\ fds[i] \in Client /\ Link(i) \in Connections(Messages)
         /\ \A k \in DOMAIN fds \ {i} : fds[k] # fds[i]
         /\ Readable(Link(i), "server")
<1>1. i # server_socket
  BY DEF Fd, server_socket
<1>2. i \in Watched /\ i \in DOMAIN fds
  BY <1>1 DEF IInv, DescriptorsOK, Watched, Serving, IsFirst
<1>3. fds[i] \in Client /\ Link(i) \in Connections(Messages)
  BY <1>2 DEF IInv, TypeOK, Link
<1>4. Readable(Link(i), "server")
  BY <1>1 DEF IInv, SnapshotStaysValid, Serving, IsFirst, Ready
<1> QED
  BY <1>1, <1>2, <1>3, <1>4 DEF IInv, ClientsApart

\* What every step that serves a client's descriptor has in common: it gives no
\* slot, identifier or descriptor away, disturbs no other connection (unless the
\* process ends) and counts the descriptor out exactly when it stops watching it.
LEMMA ServingClient ==
  ASSUME IInv, NEW i \in Fd, Serving(i),
         clients' \in [Slot -> [socket : Fd \union {-1}, id : Nat \union {NoId},
                                active : BOOLEAN]],
         \A j \in Slot : /\ clients'[j].id = clients[j].id
                         /\ clients'[j].socket = clients[j].socket
                         /\ clients'[j].active => clients[j].active,
         conn' \in [Client -> Connections(Messages)],
         \A q \in Client : Keeps(conn[q], conn'[q]),
         \/ running' = FALSE
         \/ UNCHANGED running /\ \A q \in Client \ {fds[i]} : conn'[q] = conn[q],
         \/ UNCHANGED fds
         \/ fds' = [k \in DOMAIN fds \ {i} |-> fds[k]] /\ i \notin active_fd_set',
         \/ UNCHANGED <<active_fd_set, num_clients>>
         \/ active_fd_set' = active_fd_set \ {i} /\ num_clients' = num_clients - 1,
         UNCHANGED <<next_client_id, told, backlog>>,
         latest' \in Levels, history_index' \in 1 .. HISTORY_SIZE + 1
  PROVE  IInv'
<1>1. /\ i \in Watched /\ i \in DOMAIN fds /\ i # server_socket
      /\ \A k \in DOMAIN fds \ {i} : fds[k] # fds[i]
  BY ServedDescriptor
<1>2. /\ read_fd_set' = read_fd_set \ {i}
      /\ active_fd_set' \subseteq active_fd_set
      /\ active_fd_set \ {i} \subseteq active_fd_set'
      /\ DOMAIN fds' \subseteq DOMAIN fds
      /\ DOMAIN fds \ {i} \subseteq DOMAIN fds'
      /\ \A k \in DOMAIN fds' : fds'[k] = fds[k]
  BY DEF Serving
<1>3. running' \in BOOLEAN /\ (running' => running)
  <2>1. CASE running' = FALSE
    BY <2>1
  <2>2. CASE UNCHANGED running
    BY <2>2 DEF IInv, TypeOK
  <2> QED
    BY <2>1, <2>2
<1>4. TypeOK'
  <2>1. fds' \in [DOMAIN fds' -> Client] /\ DOMAIN fds' \subseteq Fd
    BY <1>2 DEF IInv, TypeOK
  <2> QED
    BY <1>2, <1>3, <2>1 DEF IInv, TypeOK
<1>5. DescriptorsOK'
  BY <1>1, <1>2 DEF IInv, DescriptorsOK, Watched
<1>6. ClientsApart'
  <2>1. \A q \in Client : conn'[q]["client"].end = "idle" => conn[q]["client"].end = "idle"
    BY DEF Keeps
  <2>2. \A k \in 1 .. Len(backlog) : backlog[k] \in Client
    BY DEF IInv, TypeOK
  <2>3. \A k \in DOMAIN fds : fds[k] \in Client
    BY DEF IInv, TypeOK
  <2> QED
    BY <1>2, <2>1, <2>2, <2>3 DEF IInv, ClientsApart
<1>7. IdentifiersOK'
  <2>1. ASSUME NEW p \in Client
        PROVE  OwnRemovals(p, conn[p])'
    <3>1. OwnRemovals(p, conn[p])
      BY DEF IInv, IdentifiersOK
    <3>2. OwnRemovals(p, conn'[p])
      BY <3>1, KeepsOwnRemovals
    <3> QED
      BY <3>2 DEF OwnRemovals
  <2>2. \A k \in Watched' : k \in Watched /\ fds'[k] = fds[k]
    BY <1>2, <1>5 DEF Watched, DescriptorsOK
  <2> QED
    BY <2>1, <2>2 DEF IInv, IdentifiersOK
<1>8. CountMatchesWatched'
  <2>1. CASE active_fd_set' = active_fd_set \ {i} /\ num_clients' = num_clients - 1
    <3>1. Watched' = Watched \ {i}
      BY <2>1 DEF Watched
    <3>2. Cardinality(Watched \ {i}) = Cardinality(Watched) - 1
      BY <1>1, WatchedIsFinite, FS_RemoveElement DEF IInv
    <3> QED
      BY <2>1, <3>1, <3>2, ServerAssumption, WatchedIsFinite
         DEF IInv, CountMatchesWatched, TypeOK
  <2> QED
    BY <2>1 DEF IInv, CountMatchesWatched, Watched
<1>9. SnapshotStaysValid'
  <2> SUFFICES ASSUME running', NEW k \in read_fd_set'
               PROVE  /\ k \in active_fd_set'
                      /\ k = server_socket \/ k \in DOMAIN fds'
                      /\ Ready(k)'
    BY DEF SnapshotStaysValid
  <2>1. /\ running /\ k \in read_fd_set /\ k # i /\ k \in active_fd_set'
        /\ \A q \in Client \ {fds[i]} : conn'[q] = conn[q]
    BY <1>2, <1>5 DEF DescriptorsOK
  <2>2. /\ k = server_socket \/ k \in DOMAIN fds
        /\ Ready(k)
    BY <2>1 DEF IInv, SnapshotStaysValid
  <2>3. k # server_socket => Link(k)' = Link(k)
    BY <1>1, <1>2, <2>1, <2>2 DEF Link, IInv, TypeOK
  <2> QED
    BY <1>2, <2>1, <2>2, <2>3 DEF Ready
<1> QED
  BY <1>4, <1>5, <1>6, <1>7, <1>8, <1>9 DEF IInv

\* A response, or a request sent back, is a message.
LEMMA MessageTypes ==
  /\ \A t \in ResponseTypes : Msg(t, <<>>) \in Messages
  /\ \A t \in ResponseTypes : \A v \in Int : Msg(t, <<v>>) \in Messages
  /\ \A t \in ResponseTypes : \A v, w \in Int : Msg(t, <<v, w>>) \in Messages
  /\ \A m \in Messages : m = Msg(m.type, m.args)
<1> DEFINE Types == RequestTypes \union ResponseTypes \union {"REQ_REM"}
<1>1. \A t \in Types : \A s \in Seq(Int) : Msg(t, s) \in Messages
  BY DEF Msg, Messages
<1>2. \A t \in ResponseTypes : t \in Types
  OBVIOUS
<1> HIDE DEF Types
<1>3. /\ <<>> \in Seq(Int)
      /\ \A v \in Int : <<v>> \in Seq(Int)
      /\ \A v, w \in Int : <<v, w>> \in Seq(Int)
  OBVIOUS
<1>4. \A m \in Messages : m = Msg(m.type, m.args)
  BY DEF Msg, Messages
<1> QED
  BY <1>1, <1>2, <1>3, <1>4

\* The values the servers generate are numbers.
LEMMA LevelsAreNumbers == Levels \subseteq Int
BY ServerAssumption

\* The first message of a descriptor that has data is a message.
LEMMA IncomingIsMessage ==
  ASSUME NEW c \in Connections(Messages), HasData(c, "server")
  PROVE  Incoming(c, "server") \in Messages
<1> DEFINE s == c["client"].data
<1>1. s \in Seq(Messages)
  BY ClientEnd DEF Connections
<1>2. s # <<>> /\ Incoming(c, "server") = Head(s)
  BY ServerEnd DEF HasData, Incoming
<1> HIDE DEF s
<1> QED
  BY <1>1, <1>2

\* An answer that changes nothing of the registry.
LEMMA AnswerStep ==
  ASSUME IInv, NEW i \in Fd, NEW t, NEW m \in Messages, Answer(i, t, m),
         UNCHANGED registry,
         latest' \in Levels, history_index' \in 1 .. HISTORY_SIZE + 1
  PROVE  IInv'
<1>1. Serving(i) /\ UNCHANGED <<fds, backlog>>
  BY DEF Answer, sockets
<1>2. fds[i] \in Client /\ Link(i) \in Connections(Messages) /\ Link(i) = conn[fds[i]]
  BY <1>1, ServedDescriptor DEF Link
<1>3. PICK c \in Received(Link(i), "server") : Send(fds[i], c, m)
  BY DEF Answer
<1>4. Keeps(conn[fds[i]], c)
  BY <1>2, ServerReceives
<1>5. /\ conn' \in [Client -> Connections(Messages)]
      /\ \A q \in Client : Keeps(conn[q], conn'[q])
      /\ \/ running' = FALSE
         \/ UNCHANGED running /\ \A q \in Client \ {fds[i]} : conn'[q] = conn[q]
  BY <1>2, <1>3, <1>4, SendKeeps DEF IInv
<1>6. /\ clients' \in [Slot -> [socket : Fd \union {-1}, id : Nat \union {NoId},
                                active : BOOLEAN]]
      /\ \A j \in Slot : /\ clients'[j].id = clients[j].id
                         /\ clients'[j].socket = clients[j].socket
                         /\ clients'[j].active => clients[j].active
  BY DEF IInv, TypeOK, registry
<1>7. UNCHANGED <<next_client_id, num_clients, active_fd_set, told>>
  BY DEF registry
<1> QED
  BY <1>1, <1>5, <1>6, <1>7, ServingClient

\* A connection that is gone.
LEMMA DropStep ==
  ASSUME IInv, NEW i \in Fd, Serving(i), DropConnection(i),
         clients' \in [Slot -> [socket : Fd \union {-1}, id : Nat \union {NoId},
                                active : BOOLEAN]],
         \A j \in Slot : /\ clients'[j].id = clients[j].id
                         /\ clients'[j].socket = clients[j].socket
                         /\ clients'[j].active => clients[j].active
  PROVE  IInv'
<1>1. fds[i] \in Client /\ Link(i) \in Connections(Messages) /\ Link(i) = conn[fds[i]]
  BY ServedDescriptor DEF Link
<1>2. PICK d \in Closings(Link(i), "server") : conn' = [conn EXCEPT ![fds[i]] = d]
  BY DEF DropConnection, CloseFd
<1>3. Keeps(conn[fds[i]], d)
  BY <1>1, ServerCloses
<1>4. conn \in [Client -> Connections(Messages)] /\ d \in Connections(Messages)
  BY <1>3 DEF IInv, TypeOK, Keeps
<1>5. conn' \in [Client -> Connections(Messages)]
      /\ \A q \in Client : conn'[q] = IF q = fds[i] THEN d ELSE conn[q]
  BY <1>1, <1>2, <1>4
<1>6. \A q \in Client : Keeps(conn[q], conn'[q])
  BY <1>3, <1>4, <1>5, KeepsReflexive
<1>7. /\ fds' = [k \in DOMAIN fds \ {i} |-> fds[k]] /\ i \notin active_fd_set'
      /\ active_fd_set' = active_fd_set \ {i} /\ num_clients' = num_clients - 1
      /\ UNCHANGED <<next_client_id, told, backlog, running, latest, history_index>>
  BY DEF DropConnection, CloseFd, history
<1>8. latest' \in Levels /\ history_index' \in 1 .. HISTORY_SIZE + 1
  BY <1>7 DEF IInv, TypeOK
<1> QED
  BY <1>5, <1>6, <1>7, <1>8, ServingClient

\* The client has closed its socket: its slot becomes free.
LEMMA DisconnectStep == ASSUME IInv, Disconnect PROVE IInv'
<1>1. PICK i \in Fd :
        /\ Serving(i) /\ DropConnection(i)
        /\ \/ \E j \in Slot : clients' = [clients EXCEPT ![j].active = FALSE]
           \/ UNCHANGED clients
  BY DEF Disconnect
<1>2. /\ clients' \in [Slot -> [socket : Fd \union {-1}, id : Nat \union {NoId},
                                active : BOOLEAN]]
      /\ \A j \in Slot : /\ clients'[j].id = clients[j].id
                         /\ clients'[j].socket = clients[j].socket
                         /\ clients'[j].active => clients[j].active
  <2>1. CASE UNCHANGED clients
    BY <2>1 DEF IInv, TypeOK
  <2>2. ASSUME NEW j \in Slot, clients' = [clients EXCEPT ![j].active = FALSE]
        PROVE  <1>2!1 /\ <1>2!2
    BY <2>2 DEF IInv, TypeOK
  <2> QED
    BY <1>1, <2>1, <2>2
<1> QED
  BY <1>1, <1>2, DropStep

\* The client has reset the connection: its slot stays taken.
LEMMA ReceiveErrorStep == ASSUME IInv, ReceiveError PROVE IInv'
<1>1. PICK i \in Fd : Serving(i) /\ DropConnection(i) /\ UNCHANGED clients
  BY DEF ReceiveError
<1>2. clients' \in [Slot -> [socket : Fd \union {-1}, id : Nat \union {NoId},
                             active : BOOLEAN]]
  BY <1>1 DEF IInv, TypeOK
<1> QED
  BY <1>1, <1>2, DropStep

\* A removal: the slot with the identifier in the message holds the very socket
\* the message came on, so that socket is the one that leaves active_fd_set.
LEMMA RemoveStep == ASSUME IInv, Remove PROVE IInv'
<1> DEFINE m == Msg("OK(01)", <<>>)
<1>1. PICK i \in Fd, j \in Slot :
        /\ Answer(i, "REQ_REM", m)
        /\ Entry(j, Incoming(Link(i), "server").args[1])
        /\ active_fd_set' = active_fd_set \ {clients[j].socket}
        /\ clients' = [clients EXCEPT ![j].active = FALSE]
        /\ num_clients' = num_clients - 1
        /\ UNCHANGED <<next_client_id, told, history>>
  BY DEF Remove
<1>2. Serving(i) /\ UNCHANGED <<fds, backlog>>
  BY <1>1 DEF Answer, sockets
<1>3. /\ fds[i] \in Client /\ Link(i) \in Connections(Messages) /\ Link(i) = conn[fds[i]]
      /\ i \in Watched
  BY <1>2, ServedDescriptor DEF Link
<1>4. PICK c \in Received(Link(i), "server") : Send(fds[i], c, m)
  BY <1>1 DEF Answer
<1>5. m \in Messages
  BY MessageTypes DEF ResponseTypes
<1> HIDE DEF m
<1>6. /\ conn' \in [Client -> Connections(Messages)]
      /\ \A q \in Client : Keeps(conn[q], conn'[q])
      /\ \/ running' = FALSE
         \/ UNCHANGED running /\ \A q \in Client \ {fds[i]} : conn'[q] = conn[q]
  BY <1>3, <1>4, <1>5, ServerReceives, SendKeeps DEF IInv
<1>7. clients[j].socket = i
  <2> DEFINE s == conn[fds[i]]["client"].data
  <2>1. s \in Seq(Messages) /\ OwnRemovals(fds[i], conn[fds[i]])
    BY <1>3, ClientEnd DEF IInv, IdentifiersOK, Connections
  <2>2. s # <<>> /\ Incoming(Link(i), "server") = Head(s) /\ Head(s).type = "REQ_REM"
    BY <1>1, <1>3, ServerEnd DEF Answer, HasData, Incoming
  <2>3. 1 \in 1 .. Len(s) /\ Head(s) = s[1]
    BY <2>1, <2>2
  <2>4. Head(s).args[1] = told[fds[i]]
    BY <2>1, <2>2, <2>3 DEF OwnRemovals, REQ_REM, Msg
  <2>5. clients[j].active /\ clients[j].id = told[fds[i]]
    BY <1>1, <2>2, <2>4 DEF Entry, IsFirst
  <2> QED
    BY <1>3, <2>5 DEF IInv, IdentifiersOK
<1>8. /\ clients' \in [Slot -> [socket : Fd \union {-1}, id : Nat \union {NoId},
                                active : BOOLEAN]]
      /\ \A l \in Slot : /\ clients'[l].id = clients[l].id
                         /\ clients'[l].socket = clients[l].socket
                         /\ clients'[l].active => clients[l].active
  BY <1>1 DEF IInv, TypeOK
<1>9. latest' \in Levels /\ history_index' \in 1 .. HISTORY_SIZE + 1
  BY <1>1 DEF IInv, TypeOK, history
<1> QED
  BY <1>1, <1>2, <1>6, <1>7, <1>8, <1>9, ServingClient

\* The actions that answer and leave the registry alone.
LEMMA AnswersStep ==
  ASSUME IInv, RemoveUnknown \/ Info \/ Status \/ Up \/ None \/ Down \/ Echo
  PROVE  IInv'
<1>1. latest \in Int /\ latest \in Levels /\ history_index \in 1 .. HISTORY_SIZE + 1
  BY LevelsAreNumbers DEF IInv, TypeOK
<1>2. ASSUME NEW v \in Levels, AddValue(v)
      PROVE  latest' \in Levels /\ history_index' \in 1 .. HISTORY_SIZE + 1
  BY <1>1, <1>2, ServerAssumption DEF AddValue
<1>3. UNCHANGED history => latest' \in Levels /\ history_index' \in 1 .. HISTORY_SIZE + 1
  BY <1>1 DEF history
<1>4. CASE RemoveUnknown
  <2>1. Msg("ERROR(02)", <<>>) \in Messages
    BY MessageTypes DEF ResponseTypes
  <2> QED
    BY <1>3, <1>4, <2>1, AnswerStep DEF RemoveUnknown
<1>5. CASE Info
  <2>1. Msg("RES_INFOSE", <<latest>>) \in Messages
        /\ Msg("RES_INFOSCII", <<latest>>) \in Messages
    BY <1>1, MessageTypes DEF ResponseTypes
  <2> QED
    BY <1>3, <1>5, <2>1, AnswerStep DEF Info
<1>6. CASE Status
  <2>1. RES_STATUS(latest) \in Messages
    BY MessageTypes DEF ResponseTypes, StatusTypes, RES_STATUS
  <2> QED
    BY <1>2, <1>6, <2>1, AnswerStep DEF Status
<1>7. CASE Up
  <2>1. PICK i \in Fd, v \in (latest .. 100) \intersect Levels :
          /\ Answer(i, "REQ_UP", Msg("RES_UP", <<latest, v>>))
          /\ AddValue(v)
          /\ UNCHANGED registry
    BY <1>7 DEF Up
  <2>2. Msg("RES_UP", <<latest, v>>) \in Messages
    BY <1>1, MessageTypes DEF ResponseTypes
  <2> QED
    BY <1>2, <2>1, <2>2, AnswerStep
<1>8. CASE None
  <2>1. Msg("RES_NONE", <<latest>>) \in Messages
    BY <1>1, MessageTypes DEF ResponseTypes
  <2> QED
    BY <1>3, <1>8, <2>1, AnswerStep DEF None
<1>9. CASE Down
  <2>1. PICK i \in Fd, v \in (0 .. latest) \intersect Levels :
          /\ Answer(i, "REQ_DOWN", Msg("RES_DOWN", <<latest, v>>))
          /\ AddValue(v)
          /\ UNCHANGED registry
    BY <1>9 DEF Down
  <2>2. Msg("RES_DOWN", <<latest, v>>) \in Messages
    BY <1>1, MessageTypes DEF ResponseTypes
  <2> QED
    BY <1>2, <2>1, <2>2, AnswerStep
<1>10. CASE Echo
  <2>1. PICK i \in Fd :
          /\ i \in read_fd_set /\ HasData(Link(i), "server")
          /\ Answer(i, Incoming(Link(i), "server").type, Incoming(Link(i), "server"))
          /\ UNCHANGED <<registry, history>>
    BY <1>10 DEF Echo
  <2>2. Link(i) \in Connections(Messages)
    BY <2>1, ServedDescriptor DEF Answer
  <2>3. Incoming(Link(i), "server") \in Messages
    BY <2>1, <2>2, IncomingIsMessage
  <2> QED
    BY <1>3, <2>1, <2>3, AnswerStep
<1> QED
  BY <1>4, <1>5, <1>6, <1>7, <1>8, <1>9, <1>10

-----------------------------------------------------------------------------
(* The steps of the loop. *)

\* The copy that select() leaves is of watched descriptors that are ready.
LEMMA SelectStep == ASSUME IInv, Select PROVE IInv'
<1>1. /\ read_fd_set' \subseteq {i \in active_fd_set : Ready(i)}
      /\ UNCHANGED <<registry, history, sockets, conn, running>>
  BY DEF Select
<1>2. TypeOK' /\ DescriptorsOK' /\ ClientsApart' /\ IdentifiersOK' /\ CountMatchesWatched'
  BY <1>1 DEF IInv, TypeOK, DescriptorsOK, ClientsApart, IdentifiersOK, OwnRemovals,
              CountMatchesWatched, Watched, registry, history, sockets
<1>3. SnapshotStaysValid'
  <2>1. \A i \in active_fd_set : i = server_socket \/ i \in DOMAIN fds
    BY DEF IInv, DescriptorsOK, Watched
  <2> QED
    BY <1>1, <2>1 DEF SnapshotStaysValid, Ready, Link, registry, sockets
<1> QED
  BY <1>2, <1>3 DEF IInv

\* accept() fails: the listener only leaves the copy.
LEMMA AcceptFailsStep == ASSUME IInv, AcceptFails PROVE IInv'
<1>1. /\ read_fd_set' = read_fd_set \ {server_socket}
      /\ UNCHANGED <<registry, history, sockets, conn, running>>
  BY DEF AcceptFails, Serving
<1>2. TypeOK' /\ DescriptorsOK' /\ ClientsApart' /\ IdentifiersOK' /\ CountMatchesWatched'
  BY <1>1 DEF IInv, TypeOK, DescriptorsOK, ClientsApart, IdentifiersOK, OwnRemovals,
              CountMatchesWatched, Watched, registry, history, sockets
<1>3. SnapshotStaysValid'
  BY <1>1 DEF IInv, SnapshotStaysValid, Ready, Link, registry, sockets
<1> QED
  BY <1>2, <1>3 DEF IInv

\* accept() returns the head of the backlog: a client that has connected, is
\* behind no descriptor and has no identifier.
LEMMA HeadOfBacklog ==
  ASSUME IInv, Serving(server_socket), NEW p, p = Head(backlog)
  PROVE  /\ p \in Client /\ told[p] = NoId /\ conn[p] \in Connections(Messages)
         /\ conn[p]["client"].end # "idle"
         /\ \A k \in DOMAIN fds : fds[k] # p
         /\ Tail(backlog) \in Seq(Client)
         /\ \A k \in 1 .. Len(Tail(backlog)) :
              k + 1 \in 1 .. Len(backlog) /\ Tail(backlog)[k] = backlog[k + 1]
                                          /\ Tail(backlog)[k] # p
<1>1. backlog # <<>>
  BY DEF IInv, SnapshotStaysValid, Serving, IsFirst, Ready
<1>2. backlog \in Seq(Client)
  BY DEF IInv, TypeOK
<1>3. 1 \in 1 .. Len(backlog) /\ p = backlog[1] /\ p \in Client
  BY <1>1, <1>2
<1>4. /\ Tail(backlog) \in Seq(Client)
      /\ \A k \in 1 .. Len(Tail(backlog)) :
           k + 1 \in 1 .. Len(backlog) /\ Tail(backlog)[k] = backlog[k + 1]
  BY <1>1, <1>2
<1>5. \A k \in 1 .. Len(backlog) : backlog[k] = p => k = 1
  BY <1>3 DEF IInv, ClientsApart
<1>6. \A k \in 1 .. Len(Tail(backlog)) : Tail(backlog)[k] # p
  BY <1>4, <1>5
<1>7. conn[p] \in Connections(Messages)
  BY <1>3 DEF IInv, TypeOK
<1> QED
  BY <1>3, <1>4, <1>6, <1>7 DEF IInv, ClientsApart

\* A client that is turned away leaves the backlog, and nothing else changes.
LEMMA RefuseStep == ASSUME IInv, Refuse PROVE IInv'
<1> DEFINE p == Head(backlog)
           m == Msg("ERROR(01)", <<>>)
<1>1. PICK c \in Sent(conn[p], "server", m) :
        conn' \in {[conn EXCEPT ![p] = d] : d \in Closings(c, "server")}
  BY DEF Refuse
<1>2. m \in Messages
  BY MessageTypes DEF ResponseTypes
<1> HIDE DEF p, m
<1>3. PICK d \in Closings(c, "server") : conn' = [conn EXCEPT ![p] = d]
  BY <1>1
<1>4. /\ Serving(server_socket)
      /\ read_fd_set' = read_fd_set \ {server_socket}
      /\ backlog' = Tail(backlog)
      /\ UNCHANGED <<registry, history, fds, running>>
  BY DEF Refuse, Serving
<1>5. /\ p \in Client /\ told[p] = NoId /\ conn[p] \in Connections(Messages)
      /\ conn[p]["client"].end # "idle"
      /\ \A k \in DOMAIN fds : fds[k] # p
      /\ backlog' \in Seq(Client)
      /\ \A k \in 1 .. Len(backlog') :
           k + 1 \in 1 .. Len(backlog) /\ backlog'[k] = backlog[k + 1] /\ backlog'[k] # p
  BY <1>4, HeadOfBacklog DEF p
<1>6. Keeps(conn[p], d)
  <2>1. Keeps(conn[p], c)
    BY <1>1, <1>2, <1>5, ServerSends
  <2>2. Keeps(c, d)
    BY <1>3, <2>1, ServerCloses DEF Keeps
  <2> QED
    BY <2>1, <2>2, KeepsTransitive
<1>7. conn \in [Client -> Connections(Messages)] /\ d \in Connections(Messages)
  BY <1>6 DEF IInv, TypeOK, Keeps
<1>8. /\ conn' \in [Client -> Connections(Messages)]
      /\ \A q \in Client : conn'[q] = IF q = p THEN d ELSE conn[q]
  BY <1>3, <1>5, <1>7
<1>9. \A q \in Client : Keeps(conn[q], conn'[q])
  BY <1>6, <1>7, <1>8, KeepsReflexive
<1>10. TypeOK'
  BY <1>4, <1>5, <1>8 DEF IInv, TypeOK, registry, history
<1>11. DescriptorsOK' /\ CountMatchesWatched'
  BY <1>4 DEF IInv, DescriptorsOK, CountMatchesWatched, Watched, registry
<1>12. ClientsApart'
  <2>1. \A q \in Client : /\ conn'[q]["client"].end = "idle" => conn[q]["client"].end = "idle"
                          /\ told'[q] = told[q]
    BY <1>4, <1>9 DEF Keeps, registry
  <2>2. \A k \in 1 .. Len(backlog) : backlog[k] \in Client
    BY DEF IInv, TypeOK
  <2>3. \A k \in DOMAIN fds : fds[k] \in Client
    BY DEF IInv, TypeOK
  <2>4. Len(backlog') \in Nat /\ Len(backlog) \in Nat
    BY <1>5 DEF IInv, TypeOK
  <2> QED
    BY <1>4, <1>5, <2>1, <2>2, <2>3, <2>4 DEF IInv, ClientsApart
<1>13. IdentifiersOK'
  <2>1. ASSUME NEW q \in Client
        PROVE  OwnRemovals(q, conn[q])'
    <3>1. OwnRemovals(q, conn'[q])
      BY <1>9, KeepsOwnRemovals DEF IInv, IdentifiersOK
    <3> QED
      BY <1>4, <3>1 DEF OwnRemovals, registry
  <2> QED
    BY <1>4, <2>1 DEF IInv, IdentifiersOK, Watched, registry
<1>14. SnapshotStaysValid'
  <2>1. \A k \in read_fd_set' : k # server_socket /\ k \in read_fd_set
    BY <1>4
  <2>2. \A k \in DOMAIN fds : conn'[fds[k]] = conn[fds[k]]
    BY <1>5, <1>8 DEF IInv, TypeOK
  <2> QED
    BY <1>4, <2>1, <2>2 DEF IInv, SnapshotStaysValid, Ready, Link, registry
<1> QED
  BY <1>10, <1>11, <1>12, <1>13, <1>14 DEF IInv

\* A client that is admitted takes a descriptor that is not open, hence not
\* watched, and an identifier that no slot and no client has.
LEMMA AdmitStep == ASSUME IInv, Admit PROVE IInv'
<1> DEFINE p == Head(backlog)
           n == next_client_id
           m == Msg("RES_ADD", <<n>>)
<1>1. PICK d \in Sent(conn[p], "server", m) : conn' = [conn EXCEPT ![p] = d]
  BY DEF Admit
<1>2. n \in Nat /\ n \in Int
  BY DEF IInv, TypeOK
<1>3. m \in Messages
  BY <1>2, MessageTypes DEF ResponseTypes
<1>4. PICK i \in Fd :
        /\ i \notin DOMAIN fds
        /\ fds' = [k \in DOMAIN fds \union {i} |-> IF k = i THEN p ELSE fds[k]]
        /\ active_fd_set' = active_fd_set \union {i}
        /\ \/ \E j \in Slot :
                clients' = [clients EXCEPT ![j] = [socket |-> i, id |-> n, active |-> TRUE]]
           \/ UNCHANGED clients
  BY DEF Admit, IsFirst
<1> HIDE DEF p, n, m
<1>5. /\ Serving(server_socket)
      /\ read_fd_set' = read_fd_set \ {server_socket}
      /\ backlog' = Tail(backlog)
      /\ num_clients' = num_clients + 1
      /\ num_clients < MAX_CLIENTS
      /\ next_client_id' = n + 1
      /\ told' = [told EXCEPT ![p] = n]
      /\ UNCHANGED <<latest, history_index, running>>
  BY ServerAssumption DEF Admit, Serving, AtLimit, IInv, TypeOK, history, p, n
<1>6. /\ p \in Client /\ told[p] = NoId /\ conn[p] \in Connections(Messages)
      /\ conn[p]["client"].end # "idle"
      /\ \A k \in DOMAIN fds : fds[k] # p
      /\ backlog' \in Seq(Client)
      /\ \A k \in 1 .. Len(backlog') :
           k + 1 \in 1 .. Len(backlog) /\ backlog'[k] = backlog[k + 1] /\ backlog'[k] # p
  BY <1>5, HeadOfBacklog DEF p
<1>7. Keeps(conn[p], d)
  BY <1>1, <1>3, <1>6, ServerSends
<1>8. conn \in [Client -> Connections(Messages)] /\ d \in Connections(Messages)
  BY <1>7 DEF IInv, TypeOK, Keeps
<1>9. /\ conn' \in [Client -> Connections(Messages)]
      /\ \A q \in Client : conn'[q] = IF q = p THEN d ELSE conn[q]
  BY <1>1, <1>6, <1>8
<1>10. \A q \in Client : Keeps(conn[q], conn'[q])
  BY <1>7, <1>8, <1>9, KeepsReflexive
<1>11. /\ told' \in [Client -> Nat \union {NoId}]
       /\ \A q \in Client : told'[q] = IF q = p THEN n ELSE told[q]
  BY <1>2, <1>5, <1>6 DEF IInv, TypeOK
<1>12. /\ DOMAIN fds' = DOMAIN fds \union {i}
       /\ \A k \in DOMAIN fds : k # i /\ fds'[k] = fds[k] /\ fds[k] \in Client
       /\ fds'[i] = p
       /\ i # server_socket
  BY <1>4 DEF IInv, TypeOK, Fd, server_socket
<1>13. /\ clients' \in [Slot -> [socket : Fd \union {-1}, id : Nat \union {NoId},
                                 active : BOOLEAN]]
       /\ \A j \in Slot : \/ clients'[j] = clients[j]
                          \/ clients'[j].id = n /\ clients'[j].socket = i
  <2>1. CASE UNCHANGED clients
    BY <2>1 DEF IInv, TypeOK
  <2>2. ASSUME NEW j \in Slot,
               clients' = [clients EXCEPT ![j] = [socket |-> i, id |-> n, active |-> TRUE]]
        PROVE  <1>13!1 /\ <1>13!2
    BY <1>2, <2>2 DEF IInv, TypeOK
  <2> QED
    BY <1>4, <2>1, <2>2
<1>14. TypeOK'
  <2>1. fds' \in [DOMAIN fds' -> Client] /\ DOMAIN fds' \subseteq Fd
    BY <1>4, <1>6, <1>12 DEF IInv, TypeOK
  <2> QED
    BY <1>2, <1>4, <1>5, <1>6, <1>9, <1>11, <1>13, <2>1 DEF IInv, TypeOK
<1>15. DescriptorsOK' /\ Watched' = Watched \union {i} /\ i \notin Watched
  BY <1>4, <1>5, <1>12 DEF IInv, DescriptorsOK, Watched
<1>16. CountMatchesWatched'
  <2>1. Cardinality(Watched \union {i}) = Cardinality(Watched) + 1
    BY <1>15, WatchedIsFinite, FS_AddElement DEF IInv
  <2> QED
    BY <1>5, <1>15, <2>1, ServerAssumption, WatchedIsFinite
       DEF IInv, CountMatchesWatched, TypeOK
<1>17. ClientsApart'
  <2>1. \A q \in Client : conn'[q]["client"].end = "idle" => conn[q]["client"].end = "idle"
    BY <1>10 DEF Keeps
  <2>2. \A k \in 1 .. Len(backlog) : backlog[k] \in Client
    BY DEF IInv, TypeOK
  <2>3. Len(backlog') \in Nat /\ Len(backlog) \in Nat
    BY <1>6 DEF IInv, TypeOK
  <2>4. \A k, l \in 1 .. Len(backlog') : backlog'[k] = backlog'[l] => k = l
    BY <1>6, <2>3 DEF IInv, ClientsApart
  <2>5. ASSUME NEW k \in 1 .. Len(backlog')
        PROVE  /\ told'[backlog'[k]] = NoId
               /\ conn'[backlog'[k]]["client"].end # "idle"
    <3>1. k + 1 \in 1 .. Len(backlog) /\ backlog'[k] = backlog[k + 1] /\ backlog'[k] # p
      BY <1>6
    <3>2. /\ backlog'[k] \in Client /\ told[backlog'[k]] = NoId
          /\ conn[backlog'[k]]["client"].end # "idle"
      BY <2>2, <3>1 DEF IInv, ClientsApart
    <3> QED
      BY <1>11, <2>1, <3>1, <3>2
  <2>6. \A k \in 1 .. Len(backlog') : \A l \in DOMAIN fds' : fds'[l] # backlog'[k]
    BY <1>6, <1>12 DEF IInv, ClientsApart
  <2>7. \A k, l \in DOMAIN fds' : fds'[k] = fds'[l] => k = l
    BY <1>6, <1>12 DEF IInv, ClientsApart
  <2>8. \A k \in DOMAIN fds' : conn'[fds'[k]]["client"].end # "idle"
    BY <1>6, <1>12, <2>1 DEF IInv, ClientsApart
  <2>9. \A q \in Client : conn'[q]["client"].end = "idle" => told'[q] = NoId
    BY <1>6, <1>11, <2>1 DEF IInv, ClientsApart
  <2> QED
    BY <2>4, <2>5, <2>6, <2>7, <2>8, <2>9 DEF ClientsApart
<1>18. IdentifiersOK'
  <2>1. ASSUME NEW q \in Client
        PROVE  OwnRemovals(q, conn[q])'
    <3>1. OwnRemovals(q, conn'[q])
      BY <1>10, KeepsOwnRemovals DEF IInv, IdentifiersOK
    <3> QED
      BY <1>6, <1>11, <3>1 DEF OwnRemovals
  <2>2. /\ \A q \in Client : told[q] \in Int /\ told[q] < n
        /\ \A q, r \in Client : told[q] = told[r] => q = r \/ told[q] = NoId
        /\ \A j \in Slot : clients[j].id \in Int /\ clients[j].id < n
    BY <1>2 DEF IInv, IdentifiersOK, TypeOK, NoId, n
  <2>3. /\ \A q \in Client : told'[q] < n + 1
        /\ \A q, r \in Client : told'[q] = told'[r] => q = r \/ told'[q] = NoId
        /\ \A j \in Slot : clients'[j].id < n + 1
    BY <1>2, <1>11, <1>13, <2>2
  <2>4. ASSUME NEW k \in Watched', NEW j \in Slot,
               clients'[j].active, clients'[j].id = told'[fds'[k]]
        PROVE  clients'[j].socket = k
    <3>1. CASE k = i
      <4>1. clients'[j].id = n
        BY <1>6, <1>11, <1>12, <2>4, <3>1
      <4> QED
        BY <1>2, <1>13, <2>2, <3>1, <4>1
    <3>2. CASE k # i
      <4>1. k \in Watched /\ k \in DOMAIN fds
        BY <1>15, <3>2 DEF IInv, DescriptorsOK
      <4>2. told'[fds'[k]] = told[fds[k]] /\ told[fds[k]] < n
        BY <1>6, <1>11, <1>12, <2>2, <4>1
      <4>3. clients'[j] = clients[j]
        BY <1>2, <1>13, <2>2, <2>4, <4>2
      <4> QED
        BY <2>4, <4>1, <4>2, <4>3 DEF IInv, IdentifiersOK
    <3> QED
      BY <3>1, <3>2
  <2>5. next_client_id' > 0
    BY <1>2, <1>5
  <2> QED
    BY <1>5, <2>1, <2>3, <2>4, <2>5 DEF IdentifiersOK
<1>19. SnapshotStaysValid'
  <2>1. \A k \in read_fd_set' : k # server_socket /\ k \in read_fd_set
    BY <1>5
  <2>2. \A k \in DOMAIN fds : conn'[fds'[k]] = conn[fds[k]] /\ k \in DOMAIN fds'
    BY <1>6, <1>9, <1>12
  <2> QED
    BY <1>4, <1>5, <2>1, <2>2 DEF IInv, SnapshotStaysValid, Ready, Link
<1> QED
  BY <1>14, <1>15, <1>16, <1>17, <1>18, <1>19 DEF IInv

-----------------------------------------------------------------------------
(* The steps of the clients. *)

\* What every step of a connected client has in common: it changes its own
\* connection, leaves what the server could read there readable, and adds no
\* removal under way but its own.
LEMMA PeerMoves ==
  ASSUME IInv, NEW p \in Client, NEW d \in Connections(Messages),
         conn' = [conn EXCEPT ![p] = d],
         conn[p]["client"].end # "idle", d["client"].end # "idle",
         OwnRemovals(p, d),
         Readable(conn[p], "server") => Readable(d, "server"),
         UNCHANGED <<registry, read_fd_set, history, sockets, running>>
  PROVE  IInv'
<1>1. /\ conn' \in [Client -> Connections(Messages)]
      /\ \A q \in Client : conn'[q] = IF q = p THEN d ELSE conn[q]
  BY DEF IInv, TypeOK
<1>2. UNCHANGED <<clients, next_client_id, num_clients, active_fd_set, told, read_fd_set,
                  latest, history_index, fds, backlog, running>>
  BY DEF registry, history, sockets
<1>3. TypeOK'
  BY <1>1, <1>2 DEF IInv, TypeOK
<1>4. DescriptorsOK' /\ CountMatchesWatched'
  BY <1>2 DEF IInv, DescriptorsOK, CountMatchesWatched, Watched
<1>5. \A q \in Client : conn'[q]["client"].end = "idle" <=> conn[q]["client"].end = "idle"
  BY <1>1
<1>6. ClientsApart'
  <2>1. \A k \in 1 .. Len(backlog) : backlog[k] \in Client
    BY DEF IInv, TypeOK
  <2>2. \A k \in DOMAIN fds : fds[k] \in Client
    BY DEF IInv, TypeOK
  <2> QED
    BY <1>2, <1>5, <2>1, <2>2 DEF IInv, ClientsApart
<1>7. IdentifiersOK'
  <2>1. ASSUME NEW q \in Client
        PROVE  OwnRemovals(q, conn[q])'
    <3>1. OwnRemovals(q, conn'[q])
      BY <1>1 DEF IInv, IdentifiersOK
    <3> QED
      BY <1>2, <3>1 DEF OwnRemovals
  <2> QED
    BY <1>2, <2>1 DEF IInv, IdentifiersOK, Watched
<1>8. SnapshotStaysValid'
  <2>1. \A k \in DOMAIN fds : fds[k] \in Client
    BY DEF IInv, TypeOK
  <2>2. \A k \in DOMAIN fds :
          Readable(conn[fds[k]], "server") => Readable(conn'[fds[k]], "server")
    BY <1>1, <2>1
  <2> QED
    BY <1>2, <2>2 DEF IInv, SnapshotStaysValid, Ready, Link
<1> QED
  BY <1>3, <1>4, <1>6, <1>7, <1>8 DEF IInv

\* connect().
LEMMA PeerConnectStep ==
  ASSUME IInv, NEW p \in Client, PeerConnect(p)
  PROVE  IInv'
<1> DEFINE d == Established
<1>1. /\ d \in Connections(Messages) /\ Len(d["client"].data) = 0
      /\ d["client"].end = "open" /\ conn[p]["client"].end = "idle"
      /\ conn' = [conn EXCEPT ![p] = d]
      /\ backlog' = Append(backlog, p)
      /\ UNCHANGED <<clients, next_client_id, num_clients, active_fd_set, told, read_fd_set,
                     latest, history_index, fds, running>>
  BY ClientEnd DEF PeerConnect, Established, Idle, Connections, StreamStates,
                   registry, history
<1> HIDE DEF d
<1>2. /\ conn' \in [Client -> Connections(Messages)]
      /\ \A q \in Client : conn'[q] = IF q = p THEN d ELSE conn[q]
  BY <1>1 DEF IInv, TypeOK
<1>3. /\ backlog' \in Seq(Client) /\ Len(backlog') = Len(backlog) + 1
      /\ Len(backlog) \in Nat
      /\ \A k \in 1 .. Len(backlog) : backlog'[k] = backlog[k] /\ backlog[k] \in Client
      /\ backlog'[Len(backlog) + 1] = p
  BY <1>1 DEF IInv, TypeOK
<1>4. TypeOK'
  BY <1>1, <1>2, <1>3 DEF IInv, TypeOK
<1>5. DescriptorsOK' /\ CountMatchesWatched'
  BY <1>1 DEF IInv, DescriptorsOK, CountMatchesWatched, Watched
<1>6. /\ told[p] = NoId
      /\ \A k \in 1 .. Len(backlog) : backlog[k] # p
      /\ \A k \in DOMAIN fds : fds[k] # p /\ fds[k] \in Client
  BY <1>1 DEF IInv, ClientsApart, TypeOK
<1>7. ClientsApart'
  <2>1. ASSUME NEW k \in 1 .. Len(backlog')
        PROVE  \/ k \in 1 .. Len(backlog) /\ backlog'[k] = backlog[k]
               \/ k = Len(backlog) + 1 /\ backlog'[k] = p
    <3>1. k \in 1 .. Len(backlog) \/ k = Len(backlog) + 1
      BY <1>3
    <3> QED
      BY <1>3, <3>1
  <2>2. \A q \in Client : conn'[q]["client"].end = "idle" => conn[q]["client"].end = "idle"
    BY <1>1, <1>2
  <2>3. \A k, l \in 1 .. Len(backlog') : backlog'[k] = backlog'[l] => k = l
    BY <1>3, <1>6, <2>1 DEF IInv, ClientsApart
  <2>4. \A k \in 1 .. Len(backlog') : \A l \in DOMAIN fds : fds[l] # backlog'[k]
    BY <1>6, <2>1 DEF IInv, ClientsApart
  <2>5. ASSUME NEW k \in 1 .. Len(backlog')
        PROVE  told[backlog'[k]] = NoId /\ conn'[backlog'[k]]["client"].end # "idle"
    <3>1. CASE backlog'[k] = p
      BY <1>1, <1>2, <1>6, <3>1
    <3>2. CASE k \in 1 .. Len(backlog) /\ backlog'[k] = backlog[k]
      BY <1>3, <2>2, <3>2 DEF IInv, ClientsApart
    <3> QED
      BY <2>1, <3>1, <3>2
  <2> QED
    BY <1>1, <1>6, <2>2, <2>3, <2>4, <2>5 DEF IInv, ClientsApart
<1>8. IdentifiersOK'
  <2>1. ASSUME NEW q \in Client
        PROVE  OwnRemovals(q, conn[q])'
    <3>1. OwnRemovals(q, conn'[q])
      BY <1>1, <1>2 DEF IInv, IdentifiersOK, OwnRemovals
    <3> QED
      BY <1>1, <3>1 DEF OwnRemovals
  <2> QED
    BY <1>1, <2>1 DEF IInv, IdentifiersOK, Watched
<1>9. SnapshotStaysValid'
  <2>1. backlog' # <<>>
    BY <1>3
  <2>2. \A k \in DOMAIN fds : conn'[fds[k]] = conn[fds[k]]
    BY <1>2, <1>6
  <2> QED
    BY <1>1, <2>1, <2>2 DEF IInv, SnapshotStaysValid, Ready, Link
<1> QED
  BY <1>4, <1>5, <1>7, <1>8, <1>9 DEF IInv

\* What a client that keeps to the protocol may send is a message, and a removal
\* carries its own identifier.
LEMMA AllowedIsMessage ==
  ASSUME NEW p, NEW m \in Allowed(p), told[p] \in Nat \union {NoId}
  PROVE  m \in Messages /\ (m.type = "REQ_REM" => told[p] # NoId /\ m = REQ_REM(told[p]))
<1>1. CASE \E t \in Requests : m = Msg(t, <<>>)
  <2>1. PICK t \in Requests : m = Msg(t, <<>>)
    BY <1>1
  <2>2. t \in RequestTypes /\ t # "REQ_REM" /\ <<>> \in Seq(Int)
    BY ServerAssumption DEF RequestTypes
  <2> QED
    BY <2>1, <2>2 DEF Msg, Messages
<1>2. CASE told[p] # NoId /\ m = REQ_REM(told[p])
  <2>1. <<told[p]>> \in Seq(Int) /\ <<told[p]>>[1] = told[p]
    BY DEF NoId
  <2> QED
    BY <1>2, <2>1 DEF REQ_REM, Msg, Messages
<1> QED
  BY <1>1, <1>2 DEF Allowed

\* What send() at a client that keeps to the protocol leaves of its connection.
LEMMA PeerSent ==
  ASSUME IInv, NEW p \in Client, NEW m \in Allowed(p), IsOpen(conn[p], "client"),
         NEW d \in Sent(conn[p], "client", m)
  PROVE  /\ d \in Connections(Messages) /\ d["client"].end = "open"
         /\ OwnRemovals(p, d)
         /\ Readable(conn[p], "server") => Readable(d, "server")
         /\ IsOpen(d, "server") <=> IsOpen(conn[p], "server")
<1> DEFINE c == conn[p]
<1>1. c \in Connections(Messages) /\ c["client"].end = "open" /\ told[p] \in Nat \union {NoId}
  BY DEF IInv, TypeOK, IsOpen
<1>2. m \in Messages /\ (m.type = "REQ_REM" => told[p] # NoId /\ m = REQ_REM(told[p]))
  BY <1>1, AllowedIsMessage
<1>3. d \in Sent(c, "client", m)
  OBVIOUS
<1> HIDE DEF c
<1>4. /\ d \in Connections(Messages) /\ d["client"].end = "open"
      /\ IsOpen(d, "server") <=> IsOpen(c, "server")
      /\ d["client"].data \in {c["client"].data, Append(c["client"].data, m)}
  BY <1>1, <1>3, <1>2, SentIsConnection, ClientEnd
<1>5. OwnRemovals(p, d)
  <2> DEFINE s == c["client"].data
  <2>1. s \in Seq(Messages)
    BY <1>1, ClientEnd DEF Connections
  <2>2. \A k \in 1 .. Len(s) :
          s[k].type = "REQ_REM" => told[p] # NoId /\ s[k] = REQ_REM(told[p])
    BY DEF IInv, IdentifiersOK, OwnRemovals, c
  <2> HIDE DEF s
  <2>3. ASSUME NEW k \in 1 .. Len(Append(s, m)), Append(s, m)[k].type = "REQ_REM"
        PROVE  told[p] # NoId /\ Append(s, m)[k] = REQ_REM(told[p])
    <3>1. CASE k \in 1 .. Len(s)
      <4>1. Append(s, m)[k] = s[k]
        BY <2>1, <3>1
      <4> QED
        BY <2>2, <2>3, <3>1, <4>1
    <3>2. CASE k = Len(s) + 1
      <4>1. Append(s, m)[k] = m
        BY <2>1, <3>2
      <4> QED
        BY <1>2, <2>3, <4>1
    <3>3. Len(Append(s, m)) = Len(s) + 1 /\ Len(s) \in Nat
      BY <1>2, <2>1
    <3> QED
      BY <3>1, <3>2, <3>3
  <2>4. d["client"].data = s \/ d["client"].data = Append(s, m)
    BY <1>4 DEF s
  <2>5. CASE d["client"].data = s
    BY <2>2, <2>5 DEF OwnRemovals
  <2>6. CASE d["client"].data = Append(s, m)
    BY <2>3, <2>6 DEF OwnRemovals
  <2> QED
    BY <2>4, <2>5, <2>6
<1>6. Readable(c, "server") => Readable(d, "server")
  <2> DEFINE s == c["client"].data
  <2>1. s \in Seq(Messages)
    BY <1>1, ClientEnd DEF Connections
  <2>2. Append(s, m) # <<>>
    BY <1>2, <2>1
  <2>3. Readable(c, "server") => s # <<>>
    BY <1>1, ServerEnd DEF Readable, HasData, IsOpen
  <2>4. d["client"].data # <<>> => Readable(d, "server")
    BY ServerEnd DEF Readable, HasData
  <2> QED
    BY <1>4, <2>2, <2>3, <2>4
<1> QED
  BY <1>4, <1>5, <1>6 DEF c

\* send() at a client that names no identifier but its own.
LEMMA PeerSendStep ==
  ASSUME IInv, NEW p \in Client, PeerSend(p)
  PROVE  IInv'
<1>1. PICK m \in Allowed(p) : PeerSends(p, m)
  BY DEF PeerSend, MaySend
<1>2. PICK d \in Sent(conn[p], "client", m) : conn' = [conn EXCEPT ![p] = d]
  BY <1>1 DEF PeerSends
<1>3. /\ IsOpen(conn[p], "client")
      /\ UNCHANGED <<registry, read_fd_set, history, sockets, running>>
  BY <1>1 DEF PeerSends
<1>4. /\ d \in Connections(Messages) /\ d["client"].end = "open" /\ OwnRemovals(p, d)
      /\ Readable(conn[p], "server") => Readable(d, "server")
  BY <1>2, <1>3, PeerSent
<1>5. conn[p]["client"].end = "open"
  BY <1>3 DEF IsOpen
<1> QED
  BY <1>2, <1>3, <1>4, <1>5, PeerMoves

\* What recv() leaves of a connection at the client: its own end as it was.
LEMMA PeerReadsOther ==
  ASSUME NEW c \in Connections(Messages), NEW d \in PeerReads(c)
  PROVE  d \in Connections(Messages) /\ d["client"] = c["client"]
<1>1. CASE d = c
  BY <1>1
<1>2. CASE d \in Received(c, "client")
  BY <1>2, ReceivedIsConnection, ClientEnd
<1>3. CASE d = ErrorReturned(c, "client")
  BY <1>3, ErrorIsReturned, ClientEnd
<1> QED
  BY <1>1, <1>2, <1>3 DEF PeerReads

\* recv() at a client: its own end stays as it was.
LEMMA PeerReceiveStep ==
  ASSUME IInv, NEW p \in Client, PeerReceive(p)
  PROVE  IInv'
<1>1. PICK d \in PeerReads(conn[p]) : conn' = [conn EXCEPT ![p] = d]
  BY DEF PeerReceive
<1>2. /\ conn[p] \in Connections(Messages) /\ conn[p]["client"].end = "open"
      /\ OwnRemovals(p, conn[p])
      /\ UNCHANGED <<registry, read_fd_set, history, sockets, running>>
  BY DEF PeerReceive, IsOpen, IInv, TypeOK, IdentifiersOK
<1>3. d \in Connections(Messages) /\ d["client"] = conn[p]["client"]
  BY <1>1, <1>2, PeerReadsOther
<1>4. OwnRemovals(p, d)
  BY <1>2, <1>3 DEF OwnRemovals
<1>5. Readable(conn[p], "server") => Readable(d, "server")
  BY <1>3, ServerEnd DEF Readable, HasData, IsOpen
<1> QED
  BY <1>1, <1>2, <1>3, <1>4, <1>5, PeerMoves

\* close() at a client that has c left of its connection: the server reads what is
\* under way, then end-of-file, or a reset.
LEMMA PeerClosesStep ==
  ASSUME IInv, NEW p \in Client, NEW c \in Connections(Messages), OwnRemovals(p, c),
         PeerCloses(p, c)
  PROVE  IInv'
<1>1. PICK d \in Closings(c, "client") : conn' = [conn EXCEPT ![p] = d]
  BY DEF PeerCloses
<1>2. UNCHANGED <<registry, read_fd_set, history, sockets, running>>
  BY DEF PeerCloses
<1>3. conn[p]["client"].end # "idle"
  BY DEF PeerCloses, IsOpen
<1>4. PICK k \in 0 .. Len(c["client"].data) :
        d["client"].data = SubSeq(c["client"].data, 1, k)
  BY <1>1, ClosingsIsConnection, ClientEnd
<1>5. d \in Connections(Messages) /\ d["client"].end \in {"fin", "rst", "finrst"}
  BY <1>1, ClosingsIsConnection, ClientEnd
<1>6. OwnRemovals(p, d)
  <2>1. c["client"].data \in Seq(Messages)
    BY ClientEnd DEF Connections
  <2>2. \A l \in 1 .. Len(d["client"].data) :
          l \in 1 .. Len(c["client"].data) /\ d["client"].data[l] = c["client"].data[l]
    BY <1>4, <2>1
  <2> QED
    BY <2>2 DEF OwnRemovals
<1>7. Readable(d, "server")
  BY <1>5, ServerEnd DEF Readable, IsOpen
<1> QED
  BY <1>1, <1>2, <1>3, <1>5, <1>6, <1>7, PeerMoves

\* close() at a client, perhaps after a last recv().
LEMMA PeerCloseStep ==
  ASSUME IInv, NEW p \in Client, PeerClose(p)
  PROVE  IInv'
<1>1. PICK c \in {conn[p]} \union PeerReads(conn[p]) : PeerCloses(p, c)
  BY DEF PeerClose
<1>2. conn[p] \in Connections(Messages) /\ OwnRemovals(p, conn[p])
  BY DEF IInv, TypeOK, IdentifiersOK
<1>3. c \in Connections(Messages) /\ c["client"] = conn[p]["client"]
  BY <1>1, <1>2, PeerReadsOther
<1>4. OwnRemovals(p, c)
  BY <1>2, <1>3 DEF OwnRemovals
<1> QED
  BY <1>1, <1>3, <1>4, PeerClosesStep

\* close() at a client after a last send().
LEMMA PeerSendsLastStep ==
  ASSUME IInv, NEW p \in Client, PeerSendsLast(p)
  PROVE  IInv'
<1>1. PICK m \in Allowed(p) : \E c \in Sent(conn[p], "client", m) : PeerCloses(p, c)
  BY DEF PeerSendsLast, MaySend
<1>2. PICK c \in Sent(conn[p], "client", m) : PeerCloses(p, c)
  BY <1>1
<1>3. IsOpen(conn[p], "client")
  BY <1>2 DEF PeerCloses
<1>4. c \in Connections(Messages) /\ OwnRemovals(p, c)
  BY <1>2, <1>3, PeerSent
<1> QED
  BY <1>2, <1>4, PeerClosesStep

-----------------------------------------------------------------------------
(* The invariant. *)

\* The invariant holds when main() enters its loop.
LEMMA InitIInv == ASSUME Init PROVE IInv
<1>1. TypeOK
  <2>1. Idle \in Connections(Messages)
    BY DEF Idle, Connections, StreamStates
  <2> QED
    BY <2>1, ServerAssumption DEF Init, TypeOK, NoId
<1>2. \A p \in Client : conn[p] = Idle
  BY DEF Init
<1>3. DescriptorsOK /\ Watched = {} /\ SnapshotStaysValid
  BY DEF Init, DescriptorsOK, Watched, SnapshotStaysValid
<1>4. ClientsApart
  BY DEF Init, ClientsApart
<1>5. IdentifiersOK
  <2>1. \A p \in Client : Len(conn[p]["client"].data) = 0
    BY <1>2, ClientEnd DEF Idle
  <2> QED
    BY <1>3, <2>1 DEF Init, IdentifiersOK, OwnRemovals, NoId
<1>6. CountMatchesWatched
  BY <1>3, ServerAssumption, FS_EmptySet DEF Init, CountMatchesWatched
<1> QED
  BY <1>1, <1>3, <1>4, <1>5, <1>6 DEF IInv

\* Every step of the server and of a client keeps it.
LEMMA NextIInv == ASSUME IInv, [Next]_vars PROVE IInv'
<1>1. CASE ServerStep
  BY <1>1, SelectStep, AcceptFailsStep, RefuseStep, AdmitStep, DisconnectStep,
     ReceiveErrorStep, RemoveStep, AnswersStep DEF ServerStep
<1>2. CASE PeerStep
  BY <1>2, PeerConnectStep, PeerSendStep, PeerReceiveStep, PeerCloseStep,
     PeerSendsLastStep DEF PeerStep
<1>3. CASE UNCHANGED vars
  <2>1. UNCHANGED <<clients, next_client_id, num_clients, active_fd_set, told, read_fd_set,
                    latest, history_index, fds, backlog, conn, running>>
    BY <1>3 DEF vars, registry, history, sockets
  <2>2. TypeOK' /\ DescriptorsOK' /\ ClientsApart' /\ IdentifiersOK'
    BY <2>1 DEF IInv, TypeOK, DescriptorsOK, ClientsApart, IdentifiersOK, OwnRemovals, Watched
  <2>3. CountMatchesWatched' /\ SnapshotStaysValid'
    BY <2>1 DEF IInv, CountMatchesWatched, SnapshotStaysValid, Watched, Ready, Link
  <2> QED
    BY <2>2, <2>3 DEF IInv
<1> QED
  BY <1>1, <1>2, <1>3 DEF Next

\* The invariant holds in every state of the server.
THEOREM InvariantHolds == Spec => []IInv
BY InitIInv, NextIInv, PTL DEF Spec

\* Every variable of server.c, and of the kernel behind it, keeps its type.
THEOREM TypesHold == Spec => []TypeOK
<1>1. IInv => TypeOK
  BY DEF IInv
<1> QED
  BY <1>1, InvariantHolds, PTL

\* num_clients is the number of connections the loop watches and never passes
\* MAX_CLIENTS, whatever the clients send, close or reset.
THEOREM CountHolds == Spec => []CountMatchesWatched
<1>1. IInv => CountMatchesWatched
  BY DEF IInv
<1> QED
  BY <1>1, InvariantHolds, PTL

\* Every descriptor left in the loop's copy is watched, open and ready, so no
\* handler of the same round makes a later recv() or accept() of it block.
THEOREM SnapshotHolds == Spec => []SnapshotStaysValid
<1>1. IInv => SnapshotStaysValid
  BY DEF IInv
<1> QED
  BY <1>1, InvariantHolds, PTL

-----------------------------------------------------------------------------
(* The table. TableMatchesWatched is not inductive either: that it holds   *)
(* again after a reset is excluded only because the reset is never undone, *)
(* and which slot a removal frees depends on what the removals carry.      *)

\* While the process runs, it has closed no connection that it serves or that
\* waits for accept(), and has told every client it serves an identifier.
ServedOK ==
  /\ running =>
       /\ \A i \in DOMAIN fds : IsOpen(conn[fds[i]], "server")
       /\ \A k \in 1 .. Len(backlog) : IsOpen(conn[backlog[k]], "server")
  /\ \A i \in DOMAIN fds : told[fds[i]] # NoId

\* No two active slots hold the same identifier, and the active slot of a client
\* that has not closed its connection holds the socket of a watched one: its own.
EntriesOK ==
  /\ \A j, s \in Slot : clients[j].active /\ clients[s].active
                        /\ clients[j].id = clients[s].id => j = s
  /\ \A j \in Slot : \A p \in Client :
       clients[j].active /\ clients[j].id = told[p] /\ told[p] # NoId =>
         \/ clients[j].socket \in Watched /\ fds[clients[j].socket] = p
         \/ ~IsOpen(conn[p], "client")

TInv ==
  /\ IInv
  /\ ServedOK
  /\ EntriesOK
  /\ TableMatchesWatched

-----------------------------------------------------------------------------
(* What the steps of a connection never undo. *)

\* The client's end, once closed, is not open in d, and a reset that the server
\* has answered by closing its own end is there for good.
Ages(c, d) ==
  /\ ~IsOpen(c, "client") /\ c["client"].end # "idle" => ~IsOpen(d, "client")
  /\ c["client"].end = "rst" /\ ~IsOpen(c, "server") =>
       d["client"].end = "rst" /\ ~IsOpen(d, "server")

\* A step that leaves the client's end as it is, and does not open the server's.
LEMMA AgesByServer ==
  ASSUME NEW c, NEW d, d["client"].end = c["client"].end,
         IsOpen(d, "server") => IsOpen(c, "server")
  PROVE  Ages(c, d)
BY DEF Ages, IsOpen

\* send() at the server, by a process that has not closed the connection.
LEMMA ServerSendAges ==
  ASSUME NEW c \in Connections(Messages), NEW m \in Messages, IsOpen(c, "server"),
         NEW d \in Sent(c, "server", m)
  PROVE  Ages(c, d) /\ IsOpen(d, "server")
<1>1. /\ d["server"].end = c["server"].end
      /\ IsOpen(d, "client") <=> IsOpen(c, "client")
  BY SentIsConnection, ServerEnd
<1> QED
  BY <1>1 DEF Ages, IsOpen

\* close() at the server.
LEMMA ServerCloseAges ==
  ASSUME NEW c \in Connections(Messages), NEW d \in Closings(c, "server")
  PROVE  Ages(c, d)
<1>1. d["client"].end = c["client"].end /\ d["server"].end \in {"fin", "rst", "finrst"}
  BY ClosingsIsConnection, ServerEnd
<1> QED
  BY <1>1, AgesByServer DEF IsOpen

\* An answer of a handler: recv() and then send(), or the end of the process.
LEMMA SendAges ==
  ASSUME TypeOK, NEW p \in Client, IsOpen(conn[p], "server"), NEW m \in Messages,
         NEW c \in Received(conn[p], "server"), Send(p, c, m)
  PROVE  /\ \A q \in Client : Ages(conn[q], conn'[q])
         /\ running' => \A q \in Client : IsOpen(conn[q], "server") => IsOpen(conn'[q], "server")
<1>1. conn \in [Client -> Connections(Messages)] /\ conn[p] \in Connections(Messages)
  BY DEF TypeOK
<1>2. /\ c \in Connections(Messages) /\ c["server"] = conn[p]["server"]
      /\ c["client"].end = conn[p]["client"].end
  BY <1>1, ReceivedIsConnection, ServerEnd
<1>3. \A q \in Client : Ages(conn[q], conn[q])
  BY DEF Ages
<1>4. CASE conn' \in {[conn EXCEPT ![p] = d] : d \in Sent(c, "server", m)}
           /\ UNCHANGED running
  <2>1. PICK d \in Sent(c, "server", m) : conn' = [conn EXCEPT ![p] = d]
    BY <1>4
  <2>2. IsOpen(c, "server")
    BY <1>2 DEF IsOpen
  <2>3. Ages(c, d) /\ IsOpen(d, "server")
    BY <1>2, <2>2, ServerSendAges
  <2>4. Ages(conn[p], d)
    BY <1>2, <2>3 DEF Ages, IsOpen
  <2>5. \A q \in Client : conn'[q] = IF q = p THEN d ELSE conn[q]
    BY <1>1, <2>1
  <2> QED
    BY <1>3, <2>3, <2>4, <2>5
<1>5. CASE /\ RaisesSigPipe(c, "server")
           /\ running' = FALSE
           /\ \E how \in [Client -> {"rst", "finrst"}] :
                conn' = [q \in Client |->
                     IF conn[q] = Idle THEN Idle
                     ELSE Closed(IF q = p THEN c ELSE conn[q], "server", how[q])]
  <2>1. PICK how \in [Client -> {"rst", "finrst"}] :
          conn' = [q \in Client |->
                     IF conn[q] = Idle THEN Idle
                     ELSE Closed(IF q = p THEN c ELSE conn[q], "server", how[q])]
    BY <1>5
  <2>2. ASSUME NEW q \in Client
        PROVE  Ages(conn[q], conn'[q])
    <3> DEFINE b == IF q = p THEN c ELSE conn[q]
               d == Closed(b, "server", how[q])
    <3>1. b \in Connections(Messages) /\ b["client"].end = conn[q]["client"].end
      BY <1>1, <1>2
    <3>2. d["client"].end = b["client"].end /\ d["server"].end \in {"fin", "rst", "finrst"}
      BY <3>1, ClosedIsConnection, ServerEnd
    <3>3. Ages(conn[q], d)
      BY <3>1, <3>2, AgesByServer DEF IsOpen
    <3>4. conn'[q] = IF conn[q] = Idle THEN Idle ELSE d
      BY <2>1
    <3>5. conn[q] = Idle => Ages(conn[q], Idle)
      BY <1>3
    <3> QED
      BY <3>3, <3>4, <3>5
  <2> QED
    BY <1>5, <2>2
<1> QED
  BY <1>4, <1>5 DEF Send

\* A recv() that has failed is not forgotten.
LEMMA ResetIsForGood ==
  ASSUME \A q \in Client : Ages(conn[q], conn'[q]),
         \A q \in Client : told[q] # NoId => told'[q] # NoId,
         NoResetYet'
  PROVE  NoResetYet
BY DEF Ages, NoResetYet

-----------------------------------------------------------------------------
(* What a step leaves of the table. *)

\* A step that leaves the slots, the watched descriptors and the identifiers as
\* they are.
LEMMA TableKept ==
  ASSUME TInv, IInv', ServedOK',
         UNCHANGED <<clients, active_fd_set, told, fds>>,
         \A q \in Client : Ages(conn[q], conn'[q])
  PROVE  TInv' /\ (NoResetYet' => NoResetYet)
<1>1. NoResetYet' => NoResetYet
  BY ResetIsForGood
<1>2. TableMatchesWatched'
  BY <1>1 DEF TInv, TableMatchesWatched, Watched, SocketSlot, IsFirst
<1>3. \A q \in Client : told[q] # NoId /\ ~IsOpen(conn[q], "client") => ~IsOpen(conn'[q], "client")
  BY DEF TInv, IInv, ClientsApart, Ages
<1>4. EntriesOK'
  BY <1>3 DEF TInv, EntriesOK, Watched
<1> QED
  BY <1>1, <1>2, <1>4 DEF TInv

\* A step that gives no slot away, when it stops watching a client whose active
\* slot it frees or whose end is closed.
LEMMA EntriesKept ==
  ASSUME TInv, NEW i \in DOMAIN fds,
         \A j \in Slot : /\ clients'[j].id = clients[j].id
                         /\ clients'[j].socket = clients[j].socket
                         /\ clients'[j].active => clients[j].active,
         UNCHANGED told,
         \A q \in Client : Ages(conn[q], conn'[q]),
         Watched \ {i} \subseteq Watched',
         \A k \in Watched \ {i} : fds'[k] = fds[k],
         \/ ~IsOpen(conn'[fds[i]], "client")
         \/ \A j \in Slot : clients'[j].active => clients[j].id # told[fds[i]]
  PROVE  EntriesOK'
<1>1. \A q \in Client : told[q] # NoId /\ ~IsOpen(conn[q], "client") => ~IsOpen(conn'[q], "client")
  BY DEF TInv, IInv, ClientsApart, Ages
<1>2. ASSUME NEW j \in Slot, NEW p \in Client,
             clients'[j].active, clients'[j].id = told'[p], told'[p] # NoId
      PROVE  \/ clients'[j].socket \in Watched' /\ fds'[clients'[j].socket] = p
             \/ ~IsOpen(conn'[p], "client")
  <2>1. \/ clients[j].socket \in Watched /\ fds[clients[j].socket] = p
        \/ ~IsOpen(conn[p], "client")
    BY <1>2 DEF TInv, EntriesOK
  <2>2. CASE ~IsOpen(conn[p], "client")
    BY <1>1, <1>2, <2>2
  <2>3. CASE clients[j].socket \in Watched /\ fds[clients[j].socket] = p
    BY <1>2, <2>3
  <2> QED
    BY <2>1, <2>2, <2>3
<1> QED
  BY <1>2 DEF TInv, EntriesOK

\* A departure that frees the slot of the descriptor that leaves.
LEMMA SlotFreed ==
  ASSUME TInv, NEW i \in Watched, NEW j \in Slot,
         NoResetYet => SocketSlot(j, i),
         clients' = [clients EXCEPT ![j].active = FALSE],
         active_fd_set' = active_fd_set \ {i},
         UNCHANGED told,
         \A k \in Watched \ {i} : fds'[k] = fds[k],
         \A q \in Client : Ages(conn[q], conn'[q])
  PROVE  TableMatchesWatched'
<1> SUFFICES ASSUME NoResetYet'
             PROVE  /\ \A k \in Watched' : \E s \in Slot :
                         /\ SocketSlot(s, k)' /\ clients'[s].active
                         /\ clients'[s].id = told'[fds'[k]]
                    /\ \A s \in Slot : clients'[s].active =>
                         clients'[s].socket \in Watched' /\ SocketSlot(s, clients[s].socket)'
  BY DEF TableMatchesWatched
<1>1. NoResetYet /\ SocketSlot(j, i)
  BY ResetIsForGood
<1>2. /\ \A k \in Watched : \E s \in Slot :
           SocketSlot(s, k) /\ clients[s].active /\ clients[s].id = told[fds[k]]
      /\ \A s \in Slot : clients[s].active =>
           clients[s].socket \in Watched /\ SocketSlot(s, clients[s].socket)
  BY <1>1 DEF TInv, TableMatchesWatched
<1>3. \A s \in Slot : /\ clients'[s].socket = clients[s].socket
                      /\ clients'[s].id = clients[s].id
                      /\ clients'[s].active <=> (clients[s].active /\ s # j)
  BY DEF TInv, IInv, TypeOK
<1>4. \A s \in Slot : \A k : SocketSlot(s, k)' <=> SocketSlot(s, k)
  BY <1>3 DEF SocketSlot, IsFirst
<1>5. Watched' = Watched \ {i}
  BY DEF Watched
<1>6. ASSUME NEW k \in Watched'
      PROVE  \E s \in Slot : /\ SocketSlot(s, k)' /\ clients'[s].active
                             /\ clients'[s].id = told'[fds'[k]]
  <2>1. k \in Watched /\ k # i /\ fds'[k] = fds[k]
    BY <1>5, <1>6
  <2>2. PICK s \in Slot : SocketSlot(s, k) /\ clients[s].active /\ clients[s].id = told[fds[k]]
    BY <1>2, <2>1
  <2>3. s # j
    BY <1>1, <2>1, <2>2 DEF SocketSlot, IsFirst
  <2> QED
    BY <1>3, <1>4, <2>1, <2>2, <2>3
<1>7. ASSUME NEW s \in Slot, clients'[s].active
      PROVE  clients'[s].socket \in Watched' /\ SocketSlot(s, clients[s].socket)'
  <2>1. /\ clients[s].socket \in Watched /\ SocketSlot(s, clients[s].socket) /\ s # j
        /\ clients'[s].socket = clients[s].socket
    BY <1>2, <1>3, <1>7
  <2>2. clients[s].socket # i
    <3>1. j \in Int /\ s \in Int
      BY ServerAssumption DEF Slot
    <3>2. SocketSlot(s, i) => s <= j /\ j <= s
      BY <1>1 DEF SocketSlot, IsFirst
    <3> QED
      BY <2>1, <3>1, <3>2
  <2> QED
    BY <1>3, <1>4, <1>5, <2>1, <2>2 DEF SocketSlot, IsFirst
<1> QED
  BY <1>6, <1>7

-----------------------------------------------------------------------------
(* The steps. *)

\* The loop's own steps touch no connection.
LEMMA LoopTable ==
  ASSUME TInv, Select \/ AcceptFails
  PROVE  TInv' /\ (NoResetYet' => NoResetYet)
<1>1. IInv'
  BY SelectStep, AcceptFailsStep DEF TInv
<1>2. UNCHANGED <<clients, active_fd_set, told, fds, backlog, conn, running>>
  BY DEF Select, AcceptFails, registry, sockets
<1>3. ServedOK'
  BY <1>2 DEF TInv, ServedOK
<1>4. \A q \in Client : Ages(conn[q], conn'[q])
  BY <1>2 DEF Ages
<1> QED
  BY <1>1, <1>2, <1>3, <1>4, TableKept

\* The connections the server has open stay so, but that of client p.
LEMMA StillServed ==
  ASSUME TInv,
         running' => running,
         UNCHANGED told,
         \A i \in DOMAIN fds' : i \in DOMAIN fds /\ fds'[i] = fds[i],
         \A k \in 1 .. Len(backlog') : \E l \in 1 .. Len(backlog) : backlog'[k] = backlog[l],
         running' => /\ \A i \in DOMAIN fds' : IsOpen(conn[fds[i]], "server")
                                               => IsOpen(conn'[fds[i]], "server")
                     /\ \A k \in 1 .. Len(backlog') : IsOpen(conn[backlog'[k]], "server")
                                               => IsOpen(conn'[backlog'[k]], "server")
  PROVE  ServedOK'
BY DEF TInv, ServedOK

\* A client turned away was not in the table.
LEMMA RefuseTable ==
  ASSUME TInv, Refuse
  PROVE  TInv' /\ (NoResetYet' => NoResetYet)
<1> DEFINE p == Head(backlog)
           m == Msg("ERROR(01)", <<>>)
<1>1. PICK c \in Sent(conn[p], "server", m) :
        conn' \in {[conn EXCEPT ![p] = d] : d \in Closings(c, "server")}
  BY DEF Refuse
<1>2. m \in Messages
  BY MessageTypes DEF ResponseTypes
<1> HIDE DEF p, m
<1>3. PICK d \in Closings(c, "server") : conn' = [conn EXCEPT ![p] = d]
  BY <1>1
<1>4. /\ Serving(server_socket) /\ running
      /\ backlog' = Tail(backlog)
      /\ UNCHANGED <<clients, active_fd_set, told, fds, running>>
  BY DEF Refuse, Serving, registry
<1>5. /\ p \in Client /\ conn[p] \in Connections(Messages)
      /\ \A k \in DOMAIN fds : fds[k] # p
      /\ \A k \in 1 .. Len(backlog') :
           k + 1 \in 1 .. Len(backlog) /\ backlog'[k] = backlog[k + 1] /\ backlog'[k] # p
  BY <1>4, HeadOfBacklog DEF TInv, p
<1>6. IInv'
  BY RefuseStep DEF TInv
<1>7. IsOpen(conn[p], "server")
  <2>1. backlog \in Seq(Client) /\ backlog # <<>>
    BY <1>4 DEF TInv, IInv, TypeOK, SnapshotStaysValid, Serving, IsFirst, Ready
  <2>2. 1 \in 1 .. Len(backlog) /\ p = backlog[1]
    BY <2>1 DEF p
  <2> QED
    BY <1>4, <2>2 DEF TInv, ServedOK
<1>8. Ages(conn[p], d)
  <2>1. /\ c \in Connections(Messages)
        /\ IsOpen(c, "client") <=> IsOpen(conn[p], "client")
    BY <1>1, <1>2, <1>5, SentIsConnection, ServerEnd
  <2>2. d["client"].end = c["client"].end
    BY <1>3, <2>1, ClosingsIsConnection, ServerEnd
  <2> QED
    BY <1>7, <2>1, <2>2 DEF Ages, IsOpen
<1>9. \A q \in Client : conn'[q] = IF q = p THEN d ELSE conn[q]
  BY <1>3, <1>5 DEF TInv, IInv, TypeOK
<1>10. \A q \in Client : Ages(conn[q], conn'[q])
  BY <1>8, <1>9 DEF Ages
<1>11. ServedOK'
  <2>1. \A k \in DOMAIN fds : fds[k] \in Client
    BY DEF TInv, IInv, TypeOK
  <2>2. \A k \in 1 .. Len(backlog) : backlog[k] \in Client
    BY DEF TInv, IInv, TypeOK
  <2> QED
    BY <1>4, <1>5, <1>9, <2>1, <2>2, StillServed
<1> QED
  BY <1>4, <1>6, <1>10, <1>11, TableKept

\* What serving a client finds besides what ServedDescriptor states: its end of
\* the connection is open, and it was told an identifier.
LEMMA ServedEntry ==
  ASSUME TInv, NEW i \in Fd, Serving(i)
  PROVE  /\ running /\ i \in Watched /\ i \in DOMAIN fds
         /\ fds[i] \in Client /\ Link(i) = conn[fds[i]] /\ Link(i) \in Connections(Messages)
         /\ IsOpen(conn[fds[i]], "server") /\ told[fds[i]] # NoId
         /\ \A k \in DOMAIN fds \ {i} : fds[k] # fds[i]
         /\ \A k \in 1 .. Len(backlog) : backlog[k] # fds[i]
<1>1. /\ i \in Watched /\ i \in DOMAIN fds /\ fds[i] \in Client
      /\ Link(i) \in Connections(Messages)
      /\ \A k \in DOMAIN fds \ {i} : fds[k] # fds[i]
  BY ServedDescriptor DEF TInv
<1>2. running /\ Link(i) = conn[fds[i]]
  BY DEF Serving, Link
<1> QED
  BY <1>1, <1>2 DEF TInv, ServedOK, IInv, ClientsApart

\* What an answer does to the connections.
LEMMA AnswerServes ==
  ASSUME TInv, NEW i \in Fd, NEW t, NEW m \in Messages, Answer(i, t, m)
  PROVE  /\ \A q \in Client : Ages(conn[q], conn'[q])
         /\ UNCHANGED <<fds, backlog>>
         /\ UNCHANGED told => ServedOK'
<1>1. Serving(i) /\ UNCHANGED <<fds, backlog>>
  BY DEF Answer, sockets
<1>2. /\ running /\ fds[i] \in Client /\ Link(i) = conn[fds[i]]
      /\ IsOpen(conn[fds[i]], "server")
  BY <1>1, ServedEntry
<1>3. PICK c \in Received(Link(i), "server") : Send(fds[i], c, m)
  BY DEF Answer
<1>4. /\ \A q \in Client : Ages(conn[q], conn'[q])
      /\ running' => \A q \in Client : IsOpen(conn[q], "server") => IsOpen(conn'[q], "server")
  BY <1>2, <1>3, SendAges DEF TInv, IInv
<1>5. UNCHANGED told => ServedOK'
  <2>1. \A k \in DOMAIN fds : fds[k] \in Client
    BY DEF TInv, IInv, TypeOK
  <2>2. \A k \in 1 .. Len(backlog) : backlog[k] \in Client
    BY DEF TInv, IInv, TypeOK
  <2> QED
    BY <1>1, <1>2, <1>4, <2>1, <2>2, StillServed
<1> QED
  BY <1>1, <1>4, <1>5

\* The message of an action that leaves the registry alone.
LEMMA QuietAnswer ==
  ASSUME IInv, RemoveUnknown \/ Info \/ Status \/ Up \/ None \/ Down \/ Echo
  PROVE  UNCHANGED registry /\ \E i \in Fd : \E t : \E m \in Messages : Answer(i, t, m)
<1>1. latest \in Int
  BY LevelsAreNumbers DEF IInv, TypeOK
<1>2. UNCHANGED registry
  BY DEF RemoveUnknown, Info, Status, Up, None, Down, Echo
<1>3. CASE RemoveUnknown
  <2>1. Msg("ERROR(02)", <<>>) \in Messages
    BY MessageTypes DEF ResponseTypes
  <2> QED
    BY <1>2, <1>3, <2>1 DEF RemoveUnknown
<1>4. CASE Info
  <2>1. Msg("RES_INFOSE", <<latest>>) \in Messages
        /\ Msg("RES_INFOSCII", <<latest>>) \in Messages
    BY <1>1, MessageTypes DEF ResponseTypes
  <2> QED
    BY <1>2, <1>4, <2>1 DEF Info
<1>5. CASE Status
  <2>1. RES_STATUS(latest) \in Messages
    BY MessageTypes DEF ResponseTypes, StatusTypes, RES_STATUS
  <2> QED
    BY <1>2, <1>5, <2>1 DEF Status
<1>6. CASE Up
  <2>1. PICK i \in Fd, v \in (latest .. 100) \intersect Levels :
          Answer(i, "REQ_UP", Msg("RES_UP", <<latest, v>>))
    BY <1>6 DEF Up
  <2>2. Msg("RES_UP", <<latest, v>>) \in Messages
    BY <1>1, MessageTypes DEF ResponseTypes
  <2> QED
    BY <1>2, <2>1, <2>2
<1>7. CASE None
  <2>1. Msg("RES_NONE", <<latest>>) \in Messages
    BY <1>1, MessageTypes DEF ResponseTypes
  <2> QED
    BY <1>2, <1>7, <2>1 DEF None
<1>8. CASE Down
  <2>1. PICK i \in Fd, v \in (0 .. latest) \intersect Levels :
          Answer(i, "REQ_DOWN", Msg("RES_DOWN", <<latest, v>>))
    BY <1>8 DEF Down
  <2>2. Msg("RES_DOWN", <<latest, v>>) \in Messages
    BY <1>1, MessageTypes DEF ResponseTypes
  <2> QED
    BY <1>2, <2>1, <2>2
<1>9. CASE Echo
  <2>1. PICK i \in Fd :
          /\ HasData(Link(i), "server")
          /\ Answer(i, Incoming(Link(i), "server").type, Incoming(Link(i), "server"))
    BY <1>9 DEF Echo
  <2>2. Link(i) \in Connections(Messages)
    BY <2>1, ServedDescriptor DEF Answer
  <2>3. Incoming(Link(i), "server") \in Messages
    BY <2>1, <2>2, IncomingIsMessage
  <2> QED
    BY <1>2, <2>1, <2>3
<1> QED
  BY <1>3, <1>4, <1>5, <1>6, <1>7, <1>8, <1>9

\* The answers to everything but a removal that is granted.
LEMMA AnswersTable ==
  ASSUME TInv, RemoveUnknown \/ Info \/ Status \/ Up \/ None \/ Down \/ Echo
  PROVE  TInv' /\ (NoResetYet' => NoResetYet)
<1>1. IInv'
  BY AnswersStep DEF TInv
<1>2. UNCHANGED <<clients, active_fd_set, told>> /\
      \E i \in Fd : \E t : \E m \in Messages : Answer(i, t, m)
  BY QuietAnswer DEF TInv, registry
<1>3. PICK i \in Fd : \E t : \E m \in Messages : Answer(i, t, m)
  BY <1>2
<1>4. /\ \A q \in Client : Ages(conn[q], conn'[q])
      /\ UNCHANGED <<fds, backlog>>
      /\ ServedOK'
  BY <1>2, <1>3, AnswerServes
<1> QED
  BY <1>1, <1>2, <1>4, TableKept

\* A connection that is closed is served no more, and the others as before.
LEMMA DropServes ==
  ASSUME TInv, NEW i \in Fd, Serving(i), DropConnection(i)
  PROVE  /\ \A q \in Client : Ages(conn[q], conn'[q])
         /\ conn'[fds[i]]["client"].end = conn[fds[i]]["client"].end
         /\ ~IsOpen(conn'[fds[i]], "server")
         /\ ServedOK'
         /\ UNCHANGED told
         /\ active_fd_set' = active_fd_set \ {i} /\ Watched' = Watched \ {i}
         /\ \A k \in DOMAIN fds \ {i} : fds'[k] = fds[k]
         /\ \A k \in Watched \ {i} : fds'[k] = fds[k]
<1> DEFINE p == fds[i]
<1>1. /\ p \in Client /\ Link(i) = conn[p] /\ Link(i) \in Connections(Messages)
      /\ \A k \in DOMAIN fds \ {i} : fds[k] # p
      /\ \A k \in 1 .. Len(backlog) : backlog[k] # p
  BY ServedEntry
<1>2. PICK d \in Closings(Link(i), "server") : conn' = [conn EXCEPT ![p] = d]
  BY DEF DropConnection, CloseFd
<1>3. /\ fds' = [k \in DOMAIN fds \ {i} |-> fds[k]]
      /\ active_fd_set' = active_fd_set \ {i}
      /\ UNCHANGED <<told, backlog, running>>
  BY DEF DropConnection, CloseFd
<1> HIDE DEF p
<1>4. /\ Ages(conn[p], d) /\ d["client"].end = conn[p]["client"].end
      /\ ~IsOpen(d, "server")
  BY <1>1, <1>2, ServerCloseAges, ClosingsIsConnection, ServerEnd DEF IsOpen
<1>5. \A q \in Client : conn'[q] = IF q = p THEN d ELSE conn[q]
  BY <1>1, <1>2 DEF TInv, IInv, TypeOK
<1>6. \A q \in Client : Ages(conn[q], conn'[q])
  BY <1>4, <1>5 DEF Ages
<1>7. Watched \subseteq DOMAIN fds
  BY DEF TInv, IInv, DescriptorsOK
<1>8. ServedOK'
  <2>1. \A k \in DOMAIN fds : fds[k] \in Client
    BY DEF TInv, IInv, TypeOK
  <2>2. \A k \in 1 .. Len(backlog) : backlog[k] \in Client
    BY DEF TInv, IInv, TypeOK
  <2>3. \A k \in DOMAIN fds' : k \in DOMAIN fds /\ k # i /\ fds'[k] = fds[k]
    BY <1>3
  <2> QED
    BY <1>1, <1>3, <1>5, <2>1, <2>2, <2>3, StillServed
<1>9. Watched' = Watched \ {i}
  BY <1>3 DEF Watched
<1>10. /\ \A k \in DOMAIN fds \ {i} : fds'[k] = fds[k]
       /\ \A k \in Watched \ {i} : fds'[k] = fds[k]
  BY <1>3, <1>7
<1> QED
  BY <1>1, <1>3, <1>4, <1>5, <1>6, <1>8, <1>9, <1>10 DEF p

\* Slots are numbers, so the first slot with a property is one.
LEMMA FirstIsOne ==
  ASSUME NEW j, NEW s, NEW S \in SUBSET Slot, IsFirst(j, S), IsFirst(s, S)
  PROVE  j = s
<1>1. S \subseteq Int
  BY ServerAssumption DEF Slot
<1> QED
  BY <1>1 DEF IsFirst

\* A client that has closed its connection: the first slot with its socket is
\* its own, as long as the table is right.
LEMMA DisconnectTable ==
  ASSUME TInv, Disconnect
  PROVE  TInv' /\ (NoResetYet' => NoResetYet)
<1>1. PICK i \in Fd :
        /\ Serving(i) /\ DropConnection(i) /\ AtEof(Link(i), "server")
        /\ \/ \E j \in Slot : SocketSlot(j, i) /\ clients' = [clients EXCEPT ![j].active = FALSE]
           \/ (\A j \in Slot : clients[j].socket # i) /\ UNCHANGED clients
  BY DEF Disconnect
<1>2. /\ i \in Watched /\ i \in DOMAIN fds /\ fds[i] \in Client /\ Link(i) = conn[fds[i]]
  BY <1>1, ServedEntry
<1>3. /\ \A q \in Client : Ages(conn[q], conn'[q])
      /\ conn'[fds[i]]["client"].end = conn[fds[i]]["client"].end
      /\ ServedOK' /\ UNCHANGED told
      /\ active_fd_set' = active_fd_set \ {i} /\ Watched' = Watched \ {i}
      /\ \A k \in Watched \ {i} : fds'[k] = fds[k]
  BY <1>1, DropServes
<1>4. IInv'
  BY DisconnectStep DEF TInv
<1>5. ~IsOpen(conn'[fds[i]], "client")
  BY <1>1, <1>2, <1>3, ServerEnd DEF AtEof, IsOpen
<1>6. \A j \in Slot : /\ clients'[j].id = clients[j].id
                      /\ clients'[j].socket = clients[j].socket
                      /\ clients'[j].active => clients[j].active
  <2>1. CASE UNCHANGED clients
    BY <2>1
  <2>2. ASSUME NEW j \in Slot, clients' = [clients EXCEPT ![j].active = FALSE]
        PROVE  <1>6
    BY <2>2 DEF TInv, IInv, TypeOK
  <2> QED
    BY <1>1, <2>1, <2>2
<1>7. EntriesOK'
  BY <1>2, <1>3, <1>5, <1>6, EntriesKept
<1>8. TableMatchesWatched'
  <2>1. ASSUME NEW j \in Slot, SocketSlot(j, i),
               clients' = [clients EXCEPT ![j].active = FALSE]
        PROVE  TableMatchesWatched'
    BY <1>2, <1>3, <2>1, SlotFreed
  <2>2. CASE \A j \in Slot : clients[j].socket # i
    <3>1. ~NoResetYet
      BY <1>2, <2>2 DEF TInv, TableMatchesWatched, SocketSlot, IsFirst
    <3>2. ~NoResetYet'
      BY <1>3, <3>1, ResetIsForGood
    <3> QED
      BY <3>2 DEF TableMatchesWatched
  <2> QED
    BY <1>1, <2>1, <2>2
<1> QED
  BY <1>3, <1>4, <1>7, <1>8, ResetIsForGood DEF TInv

\* A recv() that fails: from here on the table is not the set of watched clients.
LEMMA ReceiveErrorTable == ASSUME TInv, ReceiveError PROVE TInv' /\ ~NoResetYet'
<1>1. PICK i \in Fd :
        Serving(i) /\ DropConnection(i) /\ AtReset(Link(i), "server") /\ UNCHANGED clients
  BY DEF ReceiveError
<1>2. /\ i \in DOMAIN fds /\ fds[i] \in Client /\ Link(i) = conn[fds[i]]
      /\ told[fds[i]] # NoId
  BY <1>1, ServedEntry
<1>3. /\ \A q \in Client : Ages(conn[q], conn'[q])
      /\ conn'[fds[i]]["client"].end = conn[fds[i]]["client"].end
      /\ ~IsOpen(conn'[fds[i]], "server")
      /\ ServedOK' /\ UNCHANGED told /\ Watched' = Watched \ {i}
      /\ \A k \in Watched \ {i} : fds'[k] = fds[k]
  BY <1>1, DropServes
<1>4. IInv'
  BY ReceiveErrorStep DEF TInv
<1>5. conn'[fds[i]]["client"].end = "rst"
  BY <1>1, <1>2, <1>3, ServerEnd DEF AtReset
<1>6. EntriesOK'
  BY <1>1, <1>2, <1>3, <1>5, EntriesKept DEF IsOpen
<1>7. ~NoResetYet'
  BY <1>2, <1>3, <1>5 DEF NoResetYet
<1> QED
  BY <1>3, <1>4, <1>6, <1>7 DEF TInv, TableMatchesWatched

\* A removal that is granted: it names the client that sent it, its slot and no
\* other slot holds that identifier, and its socket is the one the message came on.
LEMMA RemovalIsOwn ==
  ASSUME IInv, NEW i \in Fd, NEW m, Answer(i, "REQ_REM", m)
  PROVE  /\ told[fds[i]] # NoId
         /\ Incoming(Link(i), "server") = REQ_REM(told[fds[i]])
         /\ Incoming(Link(i), "server").args[1] = told[fds[i]]
         /\ HasData(conn[fds[i]], "server")
         /\ \A j \in Slot : Entry(j, told[fds[i]]) =>
              clients[j].active /\ clients[j].id = told[fds[i]] /\ clients[j].socket = i
<1>1. /\ i \in Watched /\ fds[i] \in Client /\ Link(i) = conn[fds[i]]
      /\ Link(i) \in Connections(Messages)
  BY ServedDescriptor DEF Link, Answer
<1> DEFINE s == conn[fds[i]]["client"].data
<1>2. s \in Seq(Messages) /\ OwnRemovals(fds[i], conn[fds[i]])
  BY <1>1, ClientEnd DEF IInv, IdentifiersOK, Connections
<1>3. s # <<>> /\ Incoming(Link(i), "server") = Head(s) /\ Head(s).type = "REQ_REM"
  BY <1>1, ServerEnd DEF Answer, HasData, Incoming
<1>4. 1 \in 1 .. Len(s) /\ Head(s) = s[1]
  BY <1>2, <1>3
<1>5. told[fds[i]] # NoId /\ Head(s) = REQ_REM(told[fds[i]])
  BY <1>2, <1>3, <1>4 DEF OwnRemovals
<1>6. Head(s).args[1] = told[fds[i]]
  BY <1>5 DEF REQ_REM, Msg
<1>7. \A j \in Slot : Entry(j, told[fds[i]]) =>
        clients[j].active /\ clients[j].id = told[fds[i]] /\ clients[j].socket = i
  BY <1>1 DEF Entry, IsFirst, IInv, IdentifiersOK
<1> QED
  BY <1>1, <1>3, <1>5, <1>6, <1>7 DEF Answer

\* The slot it frees is the one the table has for its socket.
LEMMA RemoveTable ==
  ASSUME TInv, Remove
  PROVE  TInv' /\ (NoResetYet' => NoResetYet)
<1>1. PICK i \in Fd, j \in Slot :
        /\ Answer(i, "REQ_REM", Msg("OK(01)", <<>>))
        /\ Entry(j, Incoming(Link(i), "server").args[1])
        /\ active_fd_set' = active_fd_set \ {clients[j].socket}
        /\ clients' = [clients EXCEPT ![j].active = FALSE]
        /\ UNCHANGED told
  BY DEF Remove
<1>2. i \in Watched /\ i \in DOMAIN fds /\ fds[i] \in Client
  BY <1>1, ServedEntry DEF Answer
<1>3. clients[j].active /\ clients[j].id = told[fds[i]] /\ clients[j].socket = i
  BY <1>1, RemovalIsOwn DEF TInv
<1>4. Msg("OK(01)", <<>>) \in Messages
  BY MessageTypes DEF ResponseTypes
<1>5. /\ \A q \in Client : Ages(conn[q], conn'[q])
      /\ UNCHANGED fds /\ ServedOK'
  BY <1>1, <1>4, AnswerServes
<1>6. IInv'
  BY RemoveStep DEF TInv
<1>7. \A l \in Slot : /\ clients'[l].id = clients[l].id
                      /\ clients'[l].socket = clients[l].socket
                      /\ clients'[l].active <=> (clients[l].active /\ l # j)
  BY <1>1 DEF TInv, IInv, TypeOK
<1>8. Watched' = Watched \ {i}
  BY <1>1, <1>3 DEF Watched
<1>9. EntriesOK'
  <2>1. \A l \in Slot : clients'[l].active => clients[l].id # told[fds[i]]
    BY <1>3, <1>7 DEF TInv, EntriesOK
  <2> QED
    BY <1>1, <1>2, <1>5, <1>7, <1>8, <2>1, EntriesKept
<1>10. TableMatchesWatched'
  <2>1. NoResetYet => SocketSlot(j, i)
    BY <1>3 DEF TInv, TableMatchesWatched
  <2> QED
    BY <1>1, <1>2, <1>3, <1>5, <2>1, SlotFreed
<1> QED
  BY <1>1, <1>5, <1>6, <1>9, <1>10, ResetIsForGood DEF TInv

\* Below the limit the table has a slot left: the active ones hold different
\* sockets, all watched.
LEMMA SlotLeft ==
  ASSUME TInv, NoResetYet, num_clients < MAX_CLIENTS
  PROVE  \E j \in Slot : ~clients[j].active
<1> SUFFICES ASSUME \A j \in Slot : clients[j].active
             PROVE  FALSE
  OBVIOUS
<1> DEFINE f == [j \in Slot |-> clients[j].socket]
<1>1. IsFiniteSet(Watched) /\ Cardinality(Watched) = num_clients
  BY WatchedIsFinite DEF TInv, IInv, CountMatchesWatched
<1>2. f \in Injection(Slot, Watched)
  <2>1. \A j \in Slot : clients[j].socket \in Watched /\ SocketSlot(j, clients[j].socket)
    BY DEF TInv, TableMatchesWatched
  <2>2. ASSUME NEW j \in Slot, NEW s \in Slot, f[j] = f[s]
        PROVE  j = s
    <3>1. SocketSlot(j, f[j]) /\ SocketSlot(s, f[j])
      BY <2>1, <2>2
    <3> QED
      BY <3>1, FirstIsOne DEF SocketSlot
  <2> QED
    BY <2>1, <2>2 DEF Injection, IsInjective
<1>3. Cardinality(Slot) <= num_clients
  BY <1>1, <1>2, FS_Injection
<1>4. Cardinality(Slot) = MAX_CLIENTS
  BY ServerAssumption, FS_Interval DEF Slot
<1> QED
  BY <1>3, <1>4, ServerAssumption DEF TInv, IInv, TypeOK

\* What Admit does with p, the head of the backlog, and n, the next identifier.
LEMMA AdmitFacts ==
  ASSUME IInv, Admit, NEW p, p = Head(backlog), NEW n, n = next_client_id
  PROVE  /\ running /\ UNCHANGED running /\ num_clients < MAX_CLIENTS
         /\ p \in Client /\ told[p] = NoId /\ n \in Nat
         /\ \A k \in DOMAIN fds : fds[k] # p
         /\ \A k \in 1 .. Len(backlog') :
              k + 1 \in 1 .. Len(backlog) /\ backlog'[k] = backlog[k + 1] /\ backlog'[k] # p
         /\ \E k \in 1 .. Len(backlog) : backlog[k] = p
         /\ \A k \in 1 .. Len(backlog) : backlog[k] = p \/ \E l \in 1 .. Len(backlog') :
                                                             backlog[k] = backlog'[l]
         /\ \A q \in Client : told'[q] = IF q = p THEN n ELSE told[q]
         /\ \A q \in Client \ {p} : conn'[q] = conn[q]
         /\ IsOpen(conn[p], "server") => Ages(conn[p], conn'[p]) /\ IsOpen(conn'[p], "server")
         /\ next_client_id' = n + 1
         /\ \E i \in Fd :
              /\ i \notin DOMAIN fds /\ i \notin Watched
              /\ DOMAIN fds' = DOMAIN fds \union {i}
              /\ fds'[i] = p /\ \A k \in DOMAIN fds : fds'[k] = fds[k]
              /\ Watched' = Watched \union {i}
              /\ \/ \E j \in Slot :
                      FreeSlot(j) /\ clients' = [clients EXCEPT ![j] =
                                       [socket |-> i, id |-> n, active |-> TRUE]]
                 \/ (\A j \in Slot : clients[j].active) /\ UNCHANGED clients
<1> DEFINE m == Msg("RES_ADD", <<n>>)
<1>1. PICK d \in Sent(conn[p], "server", m) : conn' = [conn EXCEPT ![p] = d]
  BY DEF Admit
<1>2. n \in Nat /\ n \in Int
  BY DEF IInv, TypeOK
<1>3. m \in Messages
  BY <1>2, MessageTypes DEF ResponseTypes
<1>4. PICK i \in Fd :
        /\ i \notin DOMAIN fds
        /\ fds' = [k \in DOMAIN fds \union {i} |-> IF k = i THEN p ELSE fds[k]]
        /\ active_fd_set' = active_fd_set \union {i}
        /\ \/ \E j \in Slot :
                FreeSlot(j) /\ clients' = [clients EXCEPT ![j] =
                                 [socket |-> i, id |-> n, active |-> TRUE]]
           \/ (\A j \in Slot : clients[j].active) /\ UNCHANGED clients
  BY DEF Admit, IsFirst
<1> HIDE DEF m
<1>5. /\ Serving(server_socket) /\ running /\ UNCHANGED running
      /\ backlog' = Tail(backlog)
      /\ num_clients < MAX_CLIENTS
      /\ next_client_id' = n + 1
      /\ told' = [told EXCEPT ![p] = n]
  BY ServerAssumption DEF Admit, Serving, AtLimit, IInv, TypeOK
<1>6. /\ p \in Client /\ told[p] = NoId /\ conn[p] \in Connections(Messages)
      /\ \A k \in DOMAIN fds : fds[k] # p
      /\ \A k \in 1 .. Len(backlog') :
           k + 1 \in 1 .. Len(backlog) /\ backlog'[k] = backlog[k + 1] /\ backlog'[k] # p
  BY <1>5, HeadOfBacklog
<1>7. /\ \A q \in Client : conn'[q] = IF q = p THEN d ELSE conn[q]
      /\ \A q \in Client : told'[q] = IF q = p THEN n ELSE told[q]
  BY <1>1, <1>5, <1>6 DEF IInv, TypeOK
<1>8. IsOpen(conn[p], "server") => Ages(conn[p], d) /\ IsOpen(d, "server")
  BY <1>1, <1>3, <1>6, ServerSendAges
<1>9. /\ \E k \in 1 .. Len(backlog) : backlog[k] = p
      /\ \A k \in 1 .. Len(backlog) : backlog[k] = p \/ \E l \in 1 .. Len(backlog') :
                                                          backlog[k] = backlog'[l]
  <2>1. backlog \in Seq(Client) /\ backlog # <<>>
    BY <1>5 DEF IInv, TypeOK, SnapshotStaysValid, Serving, IsFirst, Ready
  <2>2. 1 \in 1 .. Len(backlog) /\ p = backlog[1]
    BY <2>1
  <2>3. ASSUME NEW k \in 1 .. Len(backlog), k # 1
        PROVE  k - 1 \in 1 .. Len(Tail(backlog)) /\ Tail(backlog)[k - 1] = backlog[k]
    BY <2>1, <2>3
  <2> QED
    BY <1>5, <2>2, <2>3
<1>10. /\ Watched' = Watched \union {i} /\ i \notin Watched
       /\ DOMAIN fds' = DOMAIN fds \union {i}
       /\ fds'[i] = p /\ \A k \in DOMAIN fds : fds'[k] = fds[k]
  BY <1>4 DEF IInv, DescriptorsOK, Watched, Fd, server_socket
<1> QED
  BY <1>2, <1>4, <1>5, <1>6, <1>7, <1>8, <1>9, <1>10

\* A client that is admitted takes the first slot that is not active: no slot
\* before it holds its descriptor, for those are active and theirs are watched.
LEMMA AdmitTable ==
  ASSUME TInv, Admit
  PROVE  TInv' /\ (NoResetYet' => NoResetYet)
<1> DEFINE p == Head(backlog)
           n == next_client_id
<1>1. /\ running /\ num_clients < MAX_CLIENTS
      /\ p \in Client /\ told[p] = NoId /\ n \in Nat
      /\ \A k \in DOMAIN fds : fds[k] # p
      /\ \A k \in 1 .. Len(backlog') :
           k + 1 \in 1 .. Len(backlog) /\ backlog'[k] = backlog[k + 1] /\ backlog'[k] # p
      /\ \E k \in 1 .. Len(backlog) : backlog[k] = p
      /\ \A q \in Client : told'[q] = IF q = p THEN n ELSE told[q]
      /\ \A q \in Client \ {p} : conn'[q] = conn[q]
      /\ IsOpen(conn[p], "server") => Ages(conn[p], conn'[p]) /\ IsOpen(conn'[p], "server")
  BY AdmitFacts DEF TInv
<1>2. PICK i \in Fd :
        /\ i \notin DOMAIN fds /\ i \notin Watched
        /\ DOMAIN fds' = DOMAIN fds \union {i}
        /\ fds'[i] = p /\ \A k \in DOMAIN fds : fds'[k] = fds[k]
        /\ Watched' = Watched \union {i}
        /\ \/ \E j \in Slot :
                FreeSlot(j) /\ clients' = [clients EXCEPT ![j] =
                                 [socket |-> i, id |-> n, active |-> TRUE]]
           \/ (\A j \in Slot : clients[j].active) /\ UNCHANGED clients
  BY AdmitFacts DEF TInv
<1> HIDE DEF p, n
<1>3. /\ \A q \in Client : Ages(conn[q], conn'[q])
      /\ IsOpen(conn'[p], "server")
  BY <1>1 DEF TInv, ServedOK, Ages
<1>4. NoResetYet' => NoResetYet
  BY <1>1, <1>3, ResetIsForGood
<1>5. IInv'
  BY AdmitStep DEF TInv
<1>6. /\ \A k \in DOMAIN fds : fds[k] \in Client
      /\ \A k \in 1 .. Len(backlog) : backlog[k] \in Client
      /\ Watched \subseteq DOMAIN fds
      /\ \A j \in Slot : clients[j].id # n
      /\ \A q \in Client : told[q] # n
      /\ n # NoId
  <2>1. /\ \A j \in Slot : clients[j].id \in Int /\ clients[j].id < n
        /\ \A q \in Client : told[q] \in Int /\ told[q] < n
    BY DEF TInv, IInv, TypeOK, IdentifiersOK, NoId, n
  <2> QED
    BY <1>1, <2>1 DEF TInv, IInv, TypeOK, DescriptorsOK, NoId
<1>7. ServedOK'
  <2>1. \A k \in DOMAIN fds' : IsOpen(conn'[fds'[k]], "server") /\ told'[fds'[k]] # NoId
    BY <1>1, <1>2, <1>3, <1>6 DEF TInv, ServedOK
  <2>2. ASSUME NEW k \in 1 .. Len(backlog')
        PROVE  IsOpen(conn'[backlog'[k]], "server")
    <3>1. k + 1 \in 1 .. Len(backlog) /\ backlog'[k] = backlog[k + 1] /\ backlog'[k] # p
      BY <1>1
    <3>2. backlog'[k] \in Client /\ IsOpen(conn[backlog'[k]], "server")
      BY <1>1, <1>6, <3>1 DEF TInv, ServedOK
    <3> QED
      BY <1>1, <3>1, <3>2
  <2> QED
    BY <2>1, <2>2 DEF ServedOK
<1>8. CASE (\A j \in Slot : clients[j].active) /\ UNCHANGED clients
  <2>1. ~NoResetYet
    BY <1>1, <1>8, SlotLeft
  <2>2. ~NoResetYet'
    BY <1>4, <2>1
  <2>3. EntriesOK'
    BY <1>1, <1>2, <1>6, <1>8 DEF TInv, EntriesOK
  <2> QED
    BY <1>5, <1>7, <2>2, <2>3 DEF TInv, TableMatchesWatched
<1>9. ASSUME NEW j \in Slot, FreeSlot(j),
             clients' = [clients EXCEPT ![j] = [socket |-> i, id |-> n, active |-> TRUE]]
      PROVE  TInv'
  <2>1. /\ \A s \in Slot \ {j} : clients'[s] = clients[s]
        /\ clients'[j].socket = i /\ clients'[j].id = n /\ clients'[j].active
        /\ ~clients[j].active
    BY <1>9 DEF TInv, IInv, TypeOK, FreeSlot, IsFirst
  <2>2. EntriesOK'
    <3>1. \A s, r \in Slot : clients'[s].active /\ clients'[r].active
                             /\ clients'[s].id = clients'[r].id => s = r
      BY <1>6, <2>1 DEF TInv, EntriesOK
    <3>2. ASSUME NEW s \in Slot, NEW q \in Client,
                 clients'[s].active, clients'[s].id = told'[q], told'[q] # NoId
          PROVE  \/ clients'[s].socket \in Watched' /\ fds'[clients'[s].socket] = q
                 \/ ~IsOpen(conn'[q], "client")
      <4>1. CASE s = j
        <5>1. q = p
          BY <1>1, <1>6, <2>1, <3>2, <4>1
        <5> QED
          BY <1>2, <2>1, <4>1, <5>1
      <4>2. CASE s # j
        <5>1. q # p /\ clients'[s] = clients[s] /\ told'[q] = told[q] /\ conn'[q] = conn[q]
          BY <1>1, <1>6, <2>1, <3>2, <4>2
        <5>2. \/ clients[s].socket \in Watched /\ fds[clients[s].socket] = q
              \/ ~IsOpen(conn[q], "client")
          BY <3>2, <5>1 DEF TInv, EntriesOK
        <5> QED
          BY <1>2, <1>6, <5>1, <5>2
      <4> QED
        BY <4>1, <4>2
    <3> QED
      BY <3>1, <3>2 DEF EntriesOK
  <2>3. TableMatchesWatched'
    <3> SUFFICES ASSUME NoResetYet'
                 PROVE  /\ \A k \in Watched' : \E s \in Slot :
                             /\ SocketSlot(s, k)' /\ clients'[s].active
                             /\ clients'[s].id = told'[fds'[k]]
                        /\ \A s \in Slot : clients'[s].active =>
                             clients'[s].socket \in Watched' /\ SocketSlot(s, clients[s].socket)'
      BY DEF TableMatchesWatched
    <3>1. NoResetYet
      BY <1>4
    <3>2. /\ \A k \in Watched : \E s \in Slot :
               SocketSlot(s, k) /\ clients[s].active /\ clients[s].id = told[fds[k]]
          /\ \A s \in Slot : clients[s].active =>
               clients[s].socket \in Watched /\ SocketSlot(s, clients[s].socket)
      BY <3>1 DEF TInv, TableMatchesWatched
    <3>3. Slot \subseteq Int
      BY ServerAssumption DEF Slot
    <3>4. SocketSlot(j, i)'
      <4>1. ASSUME NEW s \in Slot, clients'[s].socket = i
            PROVE  j <= s
        <5>1. CASE clients[s].active
          BY <1>2, <2>1, <3>2, <4>1, <5>1
        <5>2. CASE ~clients[s].active
          BY <1>9, <5>2 DEF FreeSlot, IsFirst
        <5> QED
          BY <5>1, <5>2
      <4> QED
        BY <2>1, <4>1 DEF SocketSlot, IsFirst
    <3>5. ASSUME NEW s \in Slot, NEW k \in Watched, SocketSlot(s, k), clients[s].active
          PROVE  SocketSlot(s, k)' /\ clients'[s] = clients[s]
      <4>1. s # j /\ clients'[s] = clients[s] /\ k # i
        BY <1>2, <2>1, <3>5
      <4>2. \A r \in Slot : clients'[r].socket = k => clients[r].socket = k
        BY <2>1, <4>1
      <4> QED
        BY <3>5, <4>1, <4>2 DEF SocketSlot, IsFirst
    <3>6. ASSUME NEW k \in Watched'
          PROVE  \E s \in Slot : /\ SocketSlot(s, k)' /\ clients'[s].active
                                 /\ clients'[s].id = told'[fds'[k]]
      <4>1. CASE k = i
        BY <1>1, <1>2, <2>1, <3>4, <4>1
      <4>2. CASE k \in Watched
        <5>1. PICK s \in Slot :
                SocketSlot(s, k) /\ clients[s].active /\ clients[s].id = told[fds[k]]
          BY <3>2, <4>2
        <5>2. told'[fds'[k]] = told[fds[k]]
          BY <1>1, <1>2, <1>6, <4>2
        <5> QED
          BY <3>5, <4>2, <5>1, <5>2
      <4> QED
        BY <1>2, <4>1, <4>2
    <3>7. ASSUME NEW s \in Slot, clients'[s].active
          PROVE  clients'[s].socket \in Watched' /\ SocketSlot(s, clients[s].socket)'
      <4>1. CASE s = j
        BY <1>2, <2>1, <3>4, <4>1 DEF SocketSlot, IsFirst
      <4>2. CASE s # j
        <5>1. clients'[s] = clients[s] /\ clients[s].active
          BY <2>1, <3>7, <4>2
        <5>2. clients[s].socket \in Watched /\ SocketSlot(s, clients[s].socket)
          BY <3>2, <5>1
        <5>3. \A r \in Slot : clients'[r].socket = clients[s].socket
                              => clients[r].socket = clients[s].socket
          BY <1>2, <2>1, <5>2
        <5> QED
          BY <1>2, <5>1, <5>2, <5>3 DEF SocketSlot, IsFirst
      <4> QED
        BY <4>1, <4>2
    <3> QED
      BY <3>6, <3>7
  <2> QED
    BY <1>5, <1>7, <2>2, <2>3 DEF TInv
<1> QED
  BY <1>2, <1>8, <1>9, <1>4

\* A step of a client that is connected, or connects: it undoes nothing, for its
\* end was not closed, and leaves the server's end open if it was.
LEMMA PeerTable ==
  ASSUME TInv, IInv', NEW p \in Client, NEW d \in Connections(Messages),
         conn' = [conn EXCEPT ![p] = d],
         IsOpen(conn[p], "client"), IsOpen(conn[p], "server") => IsOpen(d, "server"),
         UNCHANGED <<registry, read_fd_set, history, sockets, running>>
  PROVE  TInv' /\ (NoResetYet' => NoResetYet)
<1>1. \A q \in Client : conn'[q] = IF q = p THEN d ELSE conn[q]
  BY DEF TInv, IInv, TypeOK
<1>2. \A q \in Client : Ages(conn[q], conn'[q])
  BY <1>1 DEF Ages, IsOpen
<1>3. UNCHANGED <<clients, active_fd_set, told, fds, backlog, running>>
  BY DEF registry, sockets
<1>4. ServedOK'
  <2>1. \A k \in DOMAIN fds : fds[k] \in Client
    BY DEF TInv, IInv, TypeOK
  <2>2. \A k \in 1 .. Len(backlog) : backlog[k] \in Client
    BY DEF TInv, IInv, TypeOK
  <2> QED
    BY <1>1, <1>3, <2>1, <2>2, StillServed
<1> QED
  BY <1>2, <1>3, <1>4, TableKept

\* connect().
LEMMA PeerConnectTable ==
  ASSUME TInv, NEW p \in Client, PeerConnect(p)
  PROVE  TInv' /\ (NoResetYet' => NoResetYet)
<1> DEFINE d == Established
<1>1. /\ IsOpen(d, "server") /\ conn[p]["client"].end = "idle" /\ running
      /\ conn' = [conn EXCEPT ![p] = d]
      /\ backlog' = Append(backlog, p)
      /\ UNCHANGED <<clients, active_fd_set, told, fds, running>>
  BY ServerEnd, ClientEnd DEF PeerConnect, Established, Idle, IsOpen, registry
<1> HIDE DEF d
<1>2. \A q \in Client : conn'[q] = IF q = p THEN d ELSE conn[q]
  BY <1>1 DEF TInv, IInv, TypeOK
<1>3. \A q \in Client : Ages(conn[q], conn'[q])
  BY <1>1, <1>2 DEF Ages
<1>4. IInv'
  BY PeerConnectStep DEF TInv
<1>5. ServedOK'
  <2>1. \A k \in DOMAIN fds : fds[k] \in Client
    BY DEF TInv, IInv, TypeOK
  <2>2. /\ \A k \in 1 .. Len(backlog) : backlog[k] \in Client
        /\ backlog \in Seq(Client) /\ Len(backlog) \in Nat
    BY DEF TInv, IInv, TypeOK
  <2>3. ASSUME NEW k \in 1 .. Len(backlog')
        PROVE  \/ k \in 1 .. Len(backlog) /\ backlog'[k] = backlog[k]
               \/ backlog'[k] = p
    <3>1. k \in 1 .. Len(backlog) \/ k = Len(backlog) + 1
      BY <1>1, <2>2
    <3> QED
      BY <1>1, <2>2, <3>1
  <2> QED
    BY <1>1, <1>2, <2>1, <2>2, <2>3 DEF TInv, ServedOK
<1> QED
  BY <1>1, <1>3, <1>4, <1>5, TableKept

\* What recv() at the client leaves of the server's end.
LEMMA PeerReadsServer ==
  ASSUME NEW c \in Connections(Messages), NEW d \in PeerReads(c)
  PROVE  IsOpen(c, "server") => IsOpen(d, "server")
<1>1. CASE d = c
  BY <1>1
<1>2. CASE d \in Received(c, "client")
  BY <1>2, ReceivedIsConnection, ClientEnd DEF IsOpen
<1>3. CASE AtReset(c, "client")
  BY <1>3, ClientEnd DEF AtReset, IsOpen
<1> QED
  BY <1>1, <1>2, <1>3 DEF PeerReads

\* send() at a client.
LEMMA PeerSendTable ==
  ASSUME TInv, NEW p \in Client, PeerSend(p)
  PROVE  TInv' /\ (NoResetYet' => NoResetYet)
<1>1. PICK m \in Allowed(p) : PeerSends(p, m)
  BY DEF PeerSend, MaySend
<1>2. PICK d \in Sent(conn[p], "client", m) : conn' = [conn EXCEPT ![p] = d]
  BY <1>1 DEF PeerSends
<1>3. /\ conn[p] \in Connections(Messages) /\ IsOpen(conn[p], "client")
      /\ UNCHANGED <<registry, read_fd_set, history, sockets, running>>
  BY <1>1 DEF PeerSends, TInv, IInv, TypeOK
<1>4. /\ d \in Connections(Messages)
      /\ IsOpen(d, "server") <=> IsOpen(conn[p], "server")
  BY <1>2, <1>3, PeerSent DEF TInv
<1>5. IInv'
  BY PeerSendStep DEF TInv
<1> QED
  BY <1>2, <1>3, <1>4, <1>5, PeerTable

\* recv() at a client.
LEMMA PeerReceiveTable ==
  ASSUME TInv, NEW p \in Client, PeerReceive(p)
  PROVE  TInv' /\ (NoResetYet' => NoResetYet)
<1>1. PICK d \in PeerReads(conn[p]) : conn' = [conn EXCEPT ![p] = d]
  BY DEF PeerReceive
<1>2. /\ conn[p] \in Connections(Messages) /\ IsOpen(conn[p], "client")
      /\ UNCHANGED <<registry, read_fd_set, history, sockets, running>>
  BY DEF PeerReceive, TInv, IInv, TypeOK
<1>3. d \in Connections(Messages) /\ (IsOpen(conn[p], "server") => IsOpen(d, "server"))
  BY <1>1, <1>2, PeerReadsOther, PeerReadsServer
<1>4. IInv'
  BY PeerReceiveStep DEF TInv
<1> QED
  BY <1>1, <1>2, <1>3, <1>4, PeerTable

\* close() at a client that has c left of its connection.
LEMMA PeerClosesTable ==
  ASSUME TInv, IInv', NEW p \in Client, NEW c \in Connections(Messages),
         IsOpen(conn[p], "server") => IsOpen(c, "server"), PeerCloses(p, c)
  PROVE  TInv' /\ (NoResetYet' => NoResetYet)
<1>1. PICK d \in Closings(c, "client") : conn' = [conn EXCEPT ![p] = d]
  BY DEF PeerCloses
<1>2. /\ conn[p] \in Connections(Messages) /\ IsOpen(conn[p], "client")
      /\ UNCHANGED <<registry, read_fd_set, history, sockets, running>>
  BY DEF PeerCloses, TInv, IInv, TypeOK
<1>3. d \in Connections(Messages) /\ d["server"].end = c["server"].end
  BY <1>1, ClosingsIsConnection, ClientEnd
<1> QED
  BY <1>1, <1>2, <1>3, PeerTable DEF IsOpen

\* close() at a client, perhaps after a last recv().
LEMMA PeerCloseTable ==
  ASSUME TInv, NEW p \in Client, PeerClose(p)
  PROVE  TInv' /\ (NoResetYet' => NoResetYet)
<1>1. PICK c \in {conn[p]} \union PeerReads(conn[p]) : PeerCloses(p, c)
  BY DEF PeerClose
<1>2. conn[p] \in Connections(Messages)
  BY DEF TInv, IInv, TypeOK
<1>3. c \in Connections(Messages) /\ (IsOpen(conn[p], "server") => IsOpen(c, "server"))
  BY <1>1, <1>2, PeerReadsOther, PeerReadsServer
<1>4. IInv'
  BY PeerCloseStep DEF TInv
<1> QED
  BY <1>1, <1>3, <1>4, PeerClosesTable

\* close() at a client after a last send().
LEMMA PeerSendsLastTable ==
  ASSUME TInv, NEW p \in Client, PeerSendsLast(p)
  PROVE  TInv' /\ (NoResetYet' => NoResetYet)
<1>1. PICK m \in Allowed(p) : \E c \in Sent(conn[p], "client", m) : PeerCloses(p, c)
  BY DEF PeerSendsLast, MaySend
<1>2. PICK c \in Sent(conn[p], "client", m) : PeerCloses(p, c)
  BY <1>1
<1>3. IsOpen(conn[p], "client")
  BY <1>2 DEF PeerCloses
<1>4. c \in Connections(Messages) /\ (IsOpen(conn[p], "server") => IsOpen(c, "server"))
  BY <1>2, <1>3, PeerSent DEF TInv
<1>5. IInv'
  BY PeerSendsLastStep DEF TInv
<1> QED
  BY <1>2, <1>4, <1>5, PeerClosesTable

-----------------------------------------------------------------------------
(* The invariant of the table, and what no step may do with it. *)

\* The table is empty when main() enters its loop.
LEMMA InitTable == ASSUME Init PROVE TInv
<1>1. IInv
  BY InitIInv
<1>2. /\ \A j \in Slot : ~clients[j].active
      /\ Watched = {} /\ DOMAIN fds = {} /\ Len(backlog) = 0
  BY DEF Init, Watched
<1> QED
  BY <1>1, <1>2 DEF TInv, ServedOK, EntriesOK, TableMatchesWatched

\* Every step keeps it.
LEMMA NextTable ==
  ASSUME TInv, [Next]_vars
  PROVE  TInv' /\ (NoResetYet' => NoResetYet)
<1>1. CASE ServerStep
  BY <1>1, LoopTable, RefuseTable, AdmitTable, DisconnectTable, ReceiveErrorTable,
     RemoveTable, AnswersTable DEF ServerStep
<1>2. CASE PeerStep
  BY <1>2, PeerConnectTable, PeerSendTable, PeerReceiveTable, PeerCloseTable,
     PeerSendsLastTable DEF PeerStep
<1>3. CASE UNCHANGED vars
  <2>1. UNCHANGED <<clients, active_fd_set, told, fds, backlog, conn, running>>
    BY <1>3 DEF vars, registry, sockets
  <2>2. IInv' /\ ServedOK'
    BY <1>3, <2>1, NextIInv DEF TInv, ServedOK
  <2>3. \A q \in Client : Ages(conn[q], conn'[q])
    BY <2>1 DEF Ages
  <2> QED
    BY <2>1, <2>2, <2>3, TableKept
<1> QED
  BY <1>1, <1>2, <1>3 DEF Next

\* Until a recv() fails, the table is the set of watched connections, whatever
\* socket numbers the kernel gives out again.
THEOREM TableHolds == Spec => []TableMatchesWatched
<1>1. Init => TInv
  BY InitTable
<1>2. TInv /\ [Next]_vars => TInv'
  BY NextTable
<1>3. TInv => TableMatchesWatched
  BY DEF TInv
<1> QED
  BY <1>1, <1>2, <1>3, PTL DEF Spec

\* A step that leaves the active slots and the identifiers of clients as they are
\* takes nobody out of the table.
LEMMA StaysRegistered ==
  ASSUME NEW p \in Client, Registered(p), ~Registered(p)',
         \A j \in Slot : clients[j].active => clients'[j] = clients[j],
         told[p] # NoId => told'[p] = told[p]
  PROVE  FALSE
BY DEF Registered

\* A client that is taken out has asked for it or has closed its connection.
LEMMA OwnDeparture ==
  ASSUME TInv, [Next]_vars, NEW p \in Client, Registered(p), ~Registered(p)'
  PROVE  \/ ~IsOpen(conn[p], "client")
         \/ /\ HasData(conn[p], "server")
            /\ Incoming(conn[p], "server") = REQ_REM(told[p])
<1>1. ASSUME NEW j \in Slot, clients' = [clients EXCEPT ![j].active = FALSE], UNCHANGED told
      PROVE  clients[j].active /\ clients[j].id = told[p] /\ told[p] # NoId
  <2>1. PICK s \in Slot : clients[s].active /\ clients[s].id = told[p] /\ told[p] # NoId
    BY DEF Registered
  <2>2. \A r \in Slot \ {j} : clients'[r] = clients[r]
    BY <1>1 DEF TInv, IInv, TypeOK
  <2>3. s = j
    BY <1>1, <2>1, <2>2 DEF Registered
  <2> QED
    BY <2>1, <2>3
<1>2. CASE Disconnect
  <2>1. PICK i \in Fd :
          /\ Serving(i) /\ DropConnection(i) /\ AtEof(Link(i), "server")
          /\ \/ \E j \in Slot : SocketSlot(j, i) /\ clients' = [clients EXCEPT ![j].active = FALSE]
             \/ UNCHANGED clients
    BY <1>2 DEF Disconnect
  <2>2. /\ i \in Watched /\ Link(i) = conn[fds[i]]
        /\ UNCHANGED told
    BY <2>1, ServedEntry, DropServes
  <2>3. PICK j \in Slot : SocketSlot(j, i) /\ clients' = [clients EXCEPT ![j].active = FALSE]
    BY <2>1, <2>2, StaysRegistered
  <2>4. clients[j].active /\ clients[j].id = told[p] /\ told[p] # NoId /\ clients[j].socket = i
    BY <1>1, <2>2, <2>3 DEF SocketSlot, IsFirst
  <2>5. fds[i] = p \/ ~IsOpen(conn[p], "client")
    BY <2>4 DEF TInv, EntriesOK
  <2>6. ~IsOpen(conn[fds[i]], "client")
    BY <2>1, <2>2, ServerEnd DEF AtEof, IsOpen
  <2> QED
    BY <2>5, <2>6
<1>3. CASE Remove
  <2>1. PICK i \in Fd, j \in Slot :
          /\ Answer(i, "REQ_REM", Msg("OK(01)", <<>>))
          /\ Entry(j, Incoming(Link(i), "server").args[1])
          /\ clients' = [clients EXCEPT ![j].active = FALSE]
          /\ UNCHANGED told
    BY <1>3 DEF Remove
  <2>2. /\ told[fds[i]] # NoId /\ clients[j].id = told[fds[i]]
        /\ Incoming(Link(i), "server") = REQ_REM(told[fds[i]])
        /\ HasData(conn[fds[i]], "server")
    BY <2>1, RemovalIsOwn DEF TInv
  <2>3. fds[i] \in Client /\ Link(i) = conn[fds[i]]
    BY <2>1, ServedEntry DEF Answer
  <2>4. fds[i] = p
    BY <1>1, <2>1, <2>2, <2>3 DEF TInv, IInv, IdentifiersOK
  <2> QED
    BY <2>2, <2>3, <2>4
<1>4. CASE Admit
  <2>1. /\ told[Head(backlog)] = NoId
        /\ \A q \in Client : told'[q] = IF q = Head(backlog) THEN next_client_id ELSE told[q]
    BY <1>4, AdmitFacts DEF TInv
  <2>2. \A j \in Slot : clients[j].active => clients'[j] = clients[j]
    <3>1. ASSUME NEW i, NEW n, NEW j \in Slot, FreeSlot(j),
                 clients' = [clients EXCEPT ![j] = [socket |-> i, id |-> n, active |-> TRUE]]
          PROVE  <2>2
      BY <3>1 DEF FreeSlot, IsFirst, TInv, IInv, TypeOK
    <3>2. \/ \E i \in Fd : \E j \in Slot :
               FreeSlot(j) /\ clients' = [clients EXCEPT ![j] =
                                [socket |-> i, id |-> next_client_id, active |-> TRUE]]
          \/ UNCHANGED clients
      BY <1>4 DEF Admit
    <3> QED
      BY <3>1, <3>2
  <2> QED
    BY <2>1, <2>2, StaysRegistered
<1>5. CASE UNCHANGED <<clients, told>>
  BY <1>5, StaysRegistered
<1>6. CASE \/ Select \/ AcceptFails \/ Refuse \/ ReceiveError \/ RemoveUnknown \/ Info
           \/ Status \/ Up \/ None \/ Down \/ Echo \/ PeerStep \/ UNCHANGED vars
  <2>1. UNCHANGED registry => UNCHANGED <<clients, told>>
    BY DEF registry
  <2>2. CASE ReceiveError
    BY <1>5, <2>2 DEF ReceiveError, DropConnection
  <2>3. CASE RemoveUnknown \/ Info \/ Status \/ Up \/ None \/ Down \/ Echo
    BY <1>5, <2>1, <2>3, QuietAnswer DEF TInv
  <2>4. CASE Select \/ AcceptFails \/ Refuse \/ UNCHANGED vars
    BY <1>5, <2>1, <2>4 DEF Select, AcceptFails, Refuse, vars
  <2>5. CASE PeerStep
    BY <1>5, <2>1, <2>5 DEF PeerStep, PeerConnect, PeerSend, PeerSends, PeerReceive,
                            PeerClose, PeerCloses, PeerSendsLast
  <2> QED
    BY <1>6, <2>2, <2>3, <2>4, <2>5
<1> QED
  BY <1>2, <1>3, <1>4, <1>6 DEF Next, ServerStep

\* No departure frees the slot of somebody else: a client leaves the table when it
\* asks for it or when it has closed its connection, before and after a reset alike.
THEOREM OnlyOwnDepartureHolds == Spec => OnlyOwnDeparture
<1> DEFINE Own(p) == Registered(p) /\ ~Registered(p)' =>
                       \/ ~IsOpen(conn[p], "client")
                       \/ /\ HasData(conn[p], "server")
                          /\ Incoming(conn[p], "server") = REQ_REM(told[p])
<1>1. Init => TInv
  BY InitTable
<1>2. TInv /\ [Next]_vars => TInv'
  BY NextTable
<1>3. TInv /\ [Next]_vars => [\A p \in Client : Own(p)]_vars
  BY OwnDeparture
<1> QED
  BY <1>1, <1>2, <1>3, PTL DEF Spec, OnlyOwnDeparture

-----------------------------------------------------------------------------
(* The abstract registry: its variables in terms of the server's state, and  *)
(* its members by the watched descriptors instead of the slots.              *)

Waiting == {backlog[k] : k \in 1 .. Len(backlog)}
Members == {[client |-> fds[clients[j].socket], id |-> clients[j].id] :
              j \in {s \in Slot : clients[s].active}}
Issued  == 1 .. next_client_id - 1

MemberOf(i) == [client |-> fds[i], id |-> told[fds[i]]]

MembersAreWatched == Members = {MemberOf(i) : i \in Watched}

\* As long as the table is right its entries are those of the watched descriptors.
LEMMA WatchedMembers == TInv /\ NoResetYet => MembersAreWatched
<1> SUFFICES ASSUME TInv, NoResetYet
             PROVE  Members = {MemberOf(i) : i \in Watched}
  BY DEF MembersAreWatched
<1>1. /\ \A i \in Watched : \E j \in Slot :
           SocketSlot(j, i) /\ clients[j].active /\ clients[j].id = told[fds[i]]
      /\ \A j \in Slot : clients[j].active =>
           clients[j].socket \in Watched /\ SocketSlot(j, clients[j].socket)
  BY DEF TInv, TableMatchesWatched
<1>2. ASSUME NEW i \in Watched
      PROVE  MemberOf(i) \in Members
  <2>1. PICK j \in Slot :
          SocketSlot(j, i) /\ clients[j].active /\ clients[j].id = told[fds[i]]
    BY <1>1
  <2>2. clients[j].socket = i
    BY <2>1 DEF SocketSlot, IsFirst
  <2> QED
    BY <2>1, <2>2 DEF Members, MemberOf
<1>3. ASSUME NEW j \in Slot, clients[j].active
      PROVE  /\ clients[j].socket \in Watched
             /\ clients[j].id = told[fds[clients[j].socket]]
  <2>1. clients[j].socket \in Watched /\ SocketSlot(j, clients[j].socket)
    BY <1>1, <1>3
  <2>2. PICK s \in Slot :
          SocketSlot(s, clients[j].socket) /\ clients[s].id = told[fds[clients[j].socket]]
    BY <1>1, <2>1
  <2>3. s = j
    BY <2>1, <2>2, FirstIsOne DEF SocketSlot
  <2> QED
    BY <2>1, <2>2, <2>3
<1> QED
  BY <1>2, <1>3 DEF Members, MemberOf

\* The same of the state after a step.
LEMMA WatchedMembersNext == TInv' /\ NoResetYet' => MembersAreWatched'
BY WatchedMembers, PTL

\* There is one entry for each watched descriptor.
LEMMA MembersAreCounted ==
  ASSUME TInv, NoResetYet
  PROVE  Cardinality(Members) = num_clients
<1> DEFINE f == [i \in Watched |-> MemberOf(i)]
<1>1. IsFiniteSet(Watched) /\ Cardinality(Watched) = num_clients
  BY WatchedIsFinite DEF TInv, IInv, CountMatchesWatched
<1>2. \A i, k \in Watched : MemberOf(i) = MemberOf(k) => i = k
  BY DEF MemberOf, TInv, IInv, DescriptorsOK, ClientsApart
<1>3. f \in Bijection(Watched, Members)
  BY <1>2, WatchedMembers DEF MembersAreWatched, Bijection, Injection, IsInjective, Surjection
<1> QED
  BY <1>1, <1>3, FS_Bijection DEF ExistsBijection

\* Registry counts as the server's module does.
LEMMA SameCardinality ==
  ASSUME NEW S
  PROVE  Abstract!Cardinality(S) = Cardinality(S)
BY DEF Abstract!Cardinality, Cardinality

\* The actions of the registry in these terms.
LEMMA AbstractEnter ==
  ASSUME NEW p, p \in Waiting, Cardinality(Members) < MAX_CLIENTS,
         NEW e \in Members', e.client = p, e.id \notin Issued,
         Members' = Members \union {e}, Issued' = Issued \union {e.id},
         Waiting' = Waiting \ {p}
  PROVE  Abstract!Enter(p)
BY SameCardinality DEF Abstract!Enter, Waiting, Members, Issued

\* The same for the others.
LEMMA AbstractTurnAway ==
  ASSUME NEW p, p \in Waiting, Cardinality(Members) = MAX_CLIENTS,
         Waiting' = Waiting \ {p}, UNCHANGED <<Members, Issued>>
  PROVE  Abstract!TurnAway(p)
BY SameCardinality DEF Abstract!TurnAway, Waiting, Members, Issued

\* And for the departures.
LEMMA AbstractLeave ==
  ASSUME NEW e, Members' = Members \ {e}, UNCHANGED <<Waiting, Issued>>
  PROVE  Abstract!Leave(e)
BY DEF Abstract!Leave, Waiting, Members, Issued

\* What accept() takes from the queue.
LEMMA HeadIsTaken ==
  ASSUME IInv, Serving(server_socket), backlog' = Tail(backlog), NEW p, p = Head(backlog)
  PROVE  p \in Client /\ p \in Waiting /\ Waiting' = Waiting \ {p}
<1>1. /\ p \in Client
      /\ \A k \in 1 .. Len(backlog') :
           k + 1 \in 1 .. Len(backlog) /\ backlog'[k] = backlog[k + 1] /\ backlog'[k] # p
  BY HeadOfBacklog
<1>2. backlog \in Seq(Client) /\ backlog # <<>>
  BY DEF IInv, TypeOK, SnapshotStaysValid, Serving, IsFirst, Ready
<1>3. 1 \in 1 .. Len(backlog) /\ p = backlog[1]
  BY <1>2
<1>4. ASSUME NEW k \in 1 .. Len(backlog), k # 1
      PROVE  k - 1 \in 1 .. Len(backlog') /\ backlog'[k - 1] = backlog[k]
  BY <1>2, <1>4
<1>5. \A q \in Waiting' : q \in Waiting /\ q # p
  BY <1>1 DEF Waiting
<1>6. ASSUME NEW q \in Waiting, q # p
      PROVE  q \in Waiting'
  <2>1. PICK k \in 1 .. Len(backlog) : backlog[k] = q
    BY DEF Waiting
  <2>2. k - 1 \in 1 .. Len(backlog') /\ backlog'[k - 1] = q
    BY <1>3, <1>4, <1>6, <2>1
  <2> QED
    BY <2>2 DEF Waiting
<1>7. p \in Waiting
  BY <1>3 DEF Waiting
<1> QED
  BY <1>1, <1>5, <1>6, <1>7

\* A client that connects waits.
LEMMA ArriveStep ==
  ASSUME TInv, NEW p \in Client, PeerConnect(p)
  PROVE  Abstract!Arrive(p)
<1>1. backlog' = Append(backlog, p) /\ UNCHANGED <<clients, fds, next_client_id>>
  BY DEF PeerConnect, registry
<1>2. backlog \in Seq(Client)
  BY DEF TInv, IInv, TypeOK
<1>3. /\ Len(backlog') = Len(backlog) + 1 /\ Len(backlog) \in Nat
      /\ \A k \in 1 .. Len(backlog) : backlog'[k] = backlog[k]
      /\ backlog'[Len(backlog) + 1] = p
  BY <1>1, <1>2
<1>4. Waiting' = Waiting \union {p}
  <2>1. \A k \in 1 .. Len(backlog') : k \in 1 .. Len(backlog) \/ k = Len(backlog) + 1
    BY <1>3
  <2>2. /\ \A k \in 1 .. Len(backlog) : k \in 1 .. Len(backlog')
        /\ Len(backlog) + 1 \in 1 .. Len(backlog')
    BY <1>3
  <2> QED
    BY <1>3, <2>1, <2>2 DEF Waiting
<1> QED
  BY <1>1, <1>4 DEF Abstract!Arrive, Waiting

\* A client that is admitted enters with the next identifier.
LEMMA EnterStep ==
  ASSUME TInv, TInv', NoResetYet, NoResetYet', Admit, NEW p, p = Head(backlog)
  PROVE  p \in Client /\ Abstract!Enter(p)
<1> DEFINE n == next_client_id
           m == [client |-> p, id |-> n]
<1>1. n = next_client_id
  OBVIOUS
<1>2. /\ num_clients < MAX_CLIENTS /\ n \in Nat
      /\ \A k \in DOMAIN fds : fds[k] # p
      /\ \A q \in Client : told'[q] = IF q = p THEN n ELSE told[q]
      /\ next_client_id' = n + 1
  BY <1>1, AdmitFacts DEF TInv
<1>3. PICK i \in Fd :
        /\ i \notin DOMAIN fds /\ i \notin Watched
        /\ DOMAIN fds' = DOMAIN fds \union {i}
        /\ fds'[i] = p /\ \A k \in DOMAIN fds : fds'[k] = fds[k]
        /\ Watched' = Watched \union {i}
        /\ \/ \E j \in Slot :
                FreeSlot(j) /\ clients' = [clients EXCEPT ![j] =
                                 [socket |-> i, id |-> n, active |-> TRUE]]
           \/ (\A j \in Slot : clients[j].active) /\ UNCHANGED clients
  BY <1>1, AdmitFacts DEF TInv
<1> HIDE DEF n
<1>4. /\ i \notin Watched
      /\ fds'[i] = p /\ \A k \in DOMAIN fds : fds'[k] = fds[k]
      /\ Watched' = Watched \union {i}
  BY <1>3
<1>5. p \in Client /\ Waiting' = Waiting \ {p} /\ p \in Waiting
  BY HeadIsTaken DEF Admit, TInv
<1>6. \A k \in Watched : MemberOf(k)' = MemberOf(k)
  <2>1. \A k \in Watched : k \in DOMAIN fds /\ fds[k] \in Client
    BY DEF TInv, IInv, DescriptorsOK, TypeOK
  <2> QED
    BY <1>2, <1>4, <2>1 DEF MemberOf
<1>7. MemberOf(i)' = m
  BY <1>2, <1>4, <1>5 DEF MemberOf
<1>8. m \in Members' /\ Members' = Members \union {m}
  <2>1. /\ Members = {MemberOf(k) : k \in Watched}
        /\ Members' = {MemberOf(k)' : k \in Watched'}
    BY WatchedMembers, WatchedMembersNext DEF MembersAreWatched
  <2> QED
    BY <1>4, <1>6, <1>7, <2>1
<1>9. Cardinality(Members) < MAX_CLIENTS
  BY <1>2, MembersAreCounted
<1>10. n \notin Issued /\ Issued' = Issued \union {n}
  <2>1. n \in Nat /\ n > 0
    BY <1>1, <1>2 DEF TInv, IInv, IdentifiersOK
  <2> QED
    BY <1>1, <1>2, <2>1 DEF Issued
<1>11. \E e \in Members' : /\ e.client = p /\ e.id \notin Issued
                           /\ Members' = Members \union {e}
                           /\ Issued' = Issued \union {e.id}
  BY <1>8, <1>10
<1> QED
  BY <1>5, <1>9, <1>11, AbstractEnter

\* A client is turned away when the table is full.
LEMMA TurnAwayStep ==
  ASSUME TInv, NoResetYet, Refuse, NEW p, p = Head(backlog)
  PROVE  p \in Client /\ Abstract!TurnAway(p)
<1>1. /\ Serving(server_socket) /\ backlog' = Tail(backlog) /\ num_clients >= MAX_CLIENTS
      /\ UNCHANGED <<clients, fds, next_client_id>>
  BY DEF Refuse, AtLimit, registry
<1>2. p \in Client /\ p \in Waiting /\ Waiting' = Waiting \ {p}
  BY <1>1, HeadIsTaken DEF TInv
<1>3. Cardinality(Members) = MAX_CLIENTS
  BY <1>1, MembersAreCounted, ServerAssumption DEF TInv, IInv, TypeOK, CountMatchesWatched
<1>4. UNCHANGED <<Members, Issued>>
  BY <1>1 DEF Members, Issued
<1> QED
  BY <1>2, <1>3, <1>4, AbstractTurnAway

\* A departure is that of a member.
LEMMA LeaveStep ==
  ASSUME TInv, TInv', NoResetYet, NoResetYet', NEW i \in Watched,
         Watched' = Watched \ {i},
         \A k \in Watched \ {i} : fds'[k] = fds[k],
         UNCHANGED <<told, backlog, next_client_id>>
  PROVE  Abstract!RNext
<1> DEFINE m == MemberOf(i)
<1>1. /\ Members = {MemberOf(k) : k \in Watched}
      /\ Members' = {MemberOf(k)' : k \in Watched'}
  BY WatchedMembers, WatchedMembersNext DEF MembersAreWatched
<1>2. \A k \in Watched \ {i} : MemberOf(k)' = MemberOf(k) /\ MemberOf(k) # m
  BY DEF MemberOf, TInv, IInv, DescriptorsOK, ClientsApart
<1>3. m \in Members /\ Members' = Members \ {m}
  BY <1>1, <1>2
<1> HIDE DEF m
<1>4. UNCHANGED <<Waiting, Issued>>
  BY DEF Waiting, Issued
<1>5. \E e \in Members : /\ Members' = Members \ {e}
                          /\ UNCHANGED <<Waiting, Issued>>
  BY <1>3, <1>4
<1>6. PICK e \in Members : /\ Members' = Members \ {e}
                           /\ UNCHANGED <<Waiting, Issued>>
  BY <1>5
<1>7. Abstract!Leave(e)
  BY <1>6, AbstractLeave
<1> QED
  BY <1>7 DEF Abstract!RNext, Members

\* Every step of the server maps to a step of the registry, or to none.
LEMMA RegistryStep ==
  ASSUME TInv, [Next]_vars, NoResetYet'
  PROVE  [Abstract!RNext]_(Abstract!rvars)
<1>1. TInv' /\ NoResetYet
  BY NextTable
<1>2. UNCHANGED <<clients, fds, backlog, next_client_id>> => UNCHANGED (Abstract!rvars)
  BY DEF Abstract!rvars
<1>3. CASE Disconnect
  <2>1. PICK i \in Fd :
          /\ Serving(i) /\ DropConnection(i)
          /\ UNCHANGED <<backlog, next_client_id>>
    BY <1>3 DEF Disconnect, DropConnection
  <2>2. /\ i \in Watched /\ Watched' = Watched \ {i}
        /\ \A k \in Watched \ {i} : fds'[k] = fds[k]
        /\ UNCHANGED told
    BY <2>1, ServedEntry, DropServes
  <2> QED
    BY <1>1, <2>1, <2>2, LeaveStep
<1>4. CASE Remove
  <2>1. PICK i \in Fd, j \in Slot :
          /\ Answer(i, "REQ_REM", Msg("OK(01)", <<>>))
          /\ Entry(j, Incoming(Link(i), "server").args[1])
          /\ active_fd_set' = active_fd_set \ {clients[j].socket}
          /\ UNCHANGED <<told, next_client_id>>
    BY <1>4 DEF Remove
  <2>2. clients[j].socket = i /\ UNCHANGED <<fds, backlog>>
    BY <2>1, RemovalIsOwn DEF TInv, Answer, sockets
  <2>3. i \in Watched /\ Watched' = Watched \ {i}
    BY <2>1, <2>2, ServedEntry DEF Answer, Watched
  <2> QED
    BY <1>1, <2>1, <2>2, <2>3, LeaveStep
<1>5. CASE Admit
  <2>1. \E p \in Client : Abstract!Enter(p)
    BY <1>1, <1>5, EnterStep
  <2> QED
    BY <2>1 DEF Abstract!RNext
<1>6. CASE Refuse
  <2>1. \E p \in Client : Abstract!TurnAway(p)
    BY <1>1, <1>6, TurnAwayStep
  <2> QED
    BY <2>1 DEF Abstract!RNext
<1>7. CASE ReceiveError
  BY <1>1, <1>7, ReceiveErrorTable
<1>8. ASSUME NEW p \in Client, PeerConnect(p)
      PROVE  Abstract!RNext
  <2>1. \E q \in Client : Abstract!Arrive(q)
    BY <1>8, ArriveStep
  <2> QED
    BY <2>1 DEF Abstract!RNext
<1>9. CASE \/ Select \/ AcceptFails \/ RemoveUnknown \/ Info \/ Status \/ Up \/ None \/ Down
           \/ Echo \/ UNCHANGED vars
  <2>1. /\ UNCHANGED registry => UNCHANGED <<clients, next_client_id>>
        /\ UNCHANGED sockets => UNCHANGED <<fds, backlog>>
    BY DEF registry, sockets
  <2>2. CASE RemoveUnknown \/ Info \/ Status \/ Up \/ None \/ Down \/ Echo
    BY <1>2, <2>1, <2>2, QuietAnswer DEF TInv, Answer
  <2>3. CASE Select \/ AcceptFails \/ UNCHANGED vars
    BY <1>2, <2>1, <2>3 DEF Select, AcceptFails, vars
  <2> QED
    BY <1>9, <2>2, <2>3
<1>10. ASSUME NEW p \in Client,
              PeerSend(p) \/ PeerReceive(p) \/ PeerClose(p) \/ PeerSendsLast(p)
       PROVE  UNCHANGED (Abstract!rvars)
  <2>1. UNCHANGED <<registry, sockets>>
    BY <1>10 DEF PeerSend, PeerSends, PeerReceive, PeerClose, PeerCloses, PeerSendsLast
  <2> QED
    BY <1>2, <2>1 DEF registry, sockets
<1> QED
  BY <1>3, <1>4, <1>5, <1>6, <1>7, <1>8, <1>9, <1>10 DEF Next, ServerStep, PeerStep

\* One process of server.c keeps the promise of Registry until a recv() fails: an
\* identifier of its own and a place in the table for every client, none turned
\* away but when the table itself is full.
THEOREM RegistryKept == Spec => KeepsRegistry
<1>1. Init => TInv
  BY InitTable
<1>2. TInv /\ [Next]_vars => TInv'
  BY NextTable
<1>3. TInv /\ [Next]_vars => [NoResetYet' => [Abstract!RNext]_(Abstract!rvars)]_vars
  BY RegistryStep
<1>4. Init => Abstract!RInit
  <2>1. ASSUME Init
        PROVE  Waiting = {} /\ Members = {} /\ Issued = {}
    BY <2>1 DEF Init, Waiting, Members, Issued
  <2> QED
    BY <2>1 DEF Abstract!RInit, Waiting, Members, Issued
<1> QED
  BY <1>1, <1>2, <1>3, <1>4, PTL DEF Spec, KeepsRegistry

-----------------------------------------------------------------------------
(* The messages of a connection, by either end. *)

\* The numbers of messages are numbers.
LEMMA CountsAreNat ==
  ASSUME NEW c \in Connections(Messages)
  PROVE  /\ c["client"].data \in Seq(Messages) /\ c["server"].data \in Seq(Messages)
         /\ Len(c["client"].data) \in Nat /\ Len(c["server"].data) \in Nat
         /\ Carried(c) \in Nat /\ Carried(c) = Len(c["client"].data) + Len(c["server"].data)
<1>1. \A e \in Ends : c[e].data \in Seq(Messages) /\ Len(c[e].data) \in Nat
  BY CarriedIsNat
<1>2. Carried(c) \in Nat /\ Carried(c) = Len(c["client"].data) + Len(c["server"].data)
  BY CarriedIsNat, ClientEnd
<1> QED
  BY <1>1, <1>2, ClientEnd, ServerEnd

\* A connection nothing happened to.
LEMMA CarriesItself ==
  ASSUME NEW c, NEW e, NEW N
  PROVE  Carries(c, c, e, N)
BY DEF Carries, From

\* What the server makes of the client's end: nothing, or it has been answered with a
\* reset after it was closed.
EndsOn(c, d) ==
  \/ d["client"].end = c["client"].end
  \/ c["client"].end \in {"fin", "rst"} /\ d["client"].end \in {"finrst", "broken"}

\* send() at the server.
LEMMA ServerSent ==
  ASSUME NEW c \in Connections(Messages), NEW m \in Messages, NEW d \in Sent(c, "server", m)
  PROVE  /\ d \in Connections(Messages) /\ Carries(c, d, "server", {m})
         /\ d["client"].data = c["client"].data /\ d["server"].end = c["server"].end
         /\ EndsOn(c, d) /\ d["client"].end \notin {"idle", "fin"}
         /\ d["server"].data \in {c["server"].data, Append(c["server"].data, m)}
         /\ Carried(d) <= Carried(c) + 1
         /\ IsOpen(c, "client") =>
              d["client"] = c["client"] /\ d["server"].data = Append(c["server"].data, m)
<1>1. /\ d \in Connections(Messages) /\ Carries(c, d, "server", {m})
      /\ d[Peer("server")].data = c[Peer("server")].data
      /\ Carried(d) <= Carried(c) + 1
  BY SentCarries, ServerEnd
<1>2. /\ d["server"].end = c["server"].end
      /\ EndsOn(c, d) /\ d["client"].end \notin {"idle", "fin"}
      /\ d["server"].data \in {c["server"].data, Append(c["server"].data, m)}
  BY SentIsConnection, ServerEnd DEF EndsOn
<1>3. ASSUME IsOpen(c, Peer("server"))
      PROVE  d[Peer("server")] = c[Peer("server")] /\ d["server"].data = Append(c["server"].data, m)
  BY <1>3, SentToOpen, ServerEnd
<1> QED
  BY <1>1, <1>2, <1>3, ServerEnd

\* recv() at the server.
LEMMA ServerReceived ==
  ASSUME NEW c \in Connections(Messages), NEW d \in Received(c, "server")
  PROVE  /\ d \in Connections(Messages) /\ \A e \in Ends : Carries(c, d, e, {})
         /\ d["server"] = c["server"] /\ d["client"].end = c["client"].end
         /\ Len(d["client"].data) < Len(c["client"].data)
         /\ Carried(d) <= Carried(c) - 1
<1>1. /\ d \in Connections(Messages) /\ \A e \in Ends : Carries(c, d, e, {})
      /\ d["server"] = c["server"] /\ d[Peer("server")].end = c[Peer("server")].end
      /\ Len(d[Peer("server")].data) < Len(c[Peer("server")].data)
      /\ Carried(d) <= Carried(c) - 1
  BY ReceivedCarries, ServerEnd
<1> QED
  BY <1>1, ServerEnd

\* close() at the server, or its end.
LEMMA ServerClosed ==
  ASSUME NEW c \in Connections(Messages),
         NEW d \in Closings(c, "server") \union {Closed(c, "server", how) : how \in {"rst", "finrst"}}
  PROVE  /\ d \in Connections(Messages) /\ \A e \in Ends : Carries(c, d, e, {})
         /\ d["client"].data = <<>> /\ d["client"].end = c["client"].end
         /\ d["server"].end # "open" /\ (c["client"].data = <<>> => d["server"].end = "fin")
         /\ Carried(d) <= Carried(c)
<1>1. /\ d \in Connections(Messages) /\ \A e \in Ends : Carries(c, d, e, {})
      /\ d[Peer("server")].data = <<>> /\ d[Peer("server")].end = c[Peer("server")].end
      /\ d["server"].end # "open" /\ (c[Peer("server")].data = <<>> => d["server"].end = "fin")
      /\ Carried(d) <= Carried(c)
  BY ClosingCarries, ServerEnd
<1> QED
  BY <1>1, ServerEnd

\* send() at the client.
LEMMA ClientSent ==
  ASSUME NEW c \in Connections(Messages), NEW m \in Messages, NEW d \in Sent(c, "client", m)
  PROVE  /\ d \in Connections(Messages) /\ Carries(c, d, "client", {m})
         /\ d["server"].data = c["server"].data /\ d["client"].end = c["client"].end
         /\ Carried(d) <= Carried(c) + 1
         /\ IsOpen(c, "server") =>
              d["server"] = c["server"] /\ d["client"].data = Append(c["client"].data, m)
<1>1. /\ d \in Connections(Messages) /\ Carries(c, d, "client", {m})
      /\ d[Peer("client")].data = c[Peer("client")].data
      /\ Carried(d) <= Carried(c) + 1
  BY SentCarries, ClientEnd
<1>2. d["client"].end = c["client"].end
  BY SentIsConnection, ClientEnd
<1>3. ASSUME IsOpen(c, Peer("client"))
      PROVE  d[Peer("client")] = c[Peer("client")] /\ d["client"].data = Append(c["client"].data, m)
  BY <1>3, SentToOpen, ClientEnd
<1> QED
  BY <1>1, <1>2, <1>3, ClientEnd

\* recv() at the client.
LEMMA ClientReceived ==
  ASSUME NEW c \in Connections(Messages), NEW d \in Received(c, "client")
  PROVE  /\ d \in Connections(Messages) /\ \A e \in Ends : Carries(c, d, e, {})
         /\ d["client"] = c["client"] /\ d["server"].end = c["server"].end
         /\ Len(d["server"].data) < Len(c["server"].data)
         /\ Carried(d) <= Carried(c) - 1
<1>1. /\ d \in Connections(Messages) /\ \A e \in Ends : Carries(c, d, e, {})
      /\ d["client"] = c["client"] /\ d[Peer("client")].end = c[Peer("client")].end
      /\ Len(d[Peer("client")].data) < Len(c[Peer("client")].data)
      /\ Carried(d) <= Carried(c) - 1
  BY ReceivedCarries, ClientEnd
<1> QED
  BY <1>1, ClientEnd

\* close() at the client, or its end.
LEMMA ClientClosed ==
  ASSUME NEW c \in Connections(Messages),
         NEW d \in Closings(c, "client") \union {Closed(c, "client", how) : how \in {"rst", "finrst"}}
  PROVE  /\ d \in Connections(Messages) /\ \A e \in Ends : Carries(c, d, e, {})
         /\ d["server"].data = <<>> /\ d["server"].end = c["server"].end
         /\ d["client"].end # "open" /\ (c["server"].data = <<>> <=> d["client"].end = "fin")
         /\ Carried(d) <= Carried(c)
<1>1. /\ d \in Connections(Messages) /\ \A e \in Ends : Carries(c, d, e, {})
      /\ d[Peer("client")].data = <<>> /\ d[Peer("client")].end = c[Peer("client")].end
      /\ d["client"].end # "open" /\ (c[Peer("client")].data = <<>> <=> d["client"].end = "fin")
      /\ Carried(d) <= Carried(c)
  BY ClosingCarries, ClientEnd
<1> QED
  BY <1>1, ClientEnd

-----------------------------------------------------------------------------
(* What a step of the server does to one connection. *)

\* The server has not answered the connect() of p: it may, once.
Unanswered(p) ==
  \/ conn[p]["client"].end = "idle"
  \/ p \in Waiting

\* The messages the connection of p carries, with the answer that is still due.
Load(p) == Carried(conn[p]) + (IF Unanswered(p) THEN 1 ELSE 0)

\* The types of what the server may answer to a message of type t: t itself when it
\* echoes it.
ReplyTypes(t) ==
  {t} \union
  (IF t = "REQ_REM" THEN {"OK(01)", "ERROR(02)"} ELSE {}) \union
  (IF t = "REQ_STATUS" THEN StatusTypes ELSE {}) \union
  (IF t \in {"REQ_INFOSE", "REQ_INFOSCII", "REQ_UP", "REQ_NONE", "REQ_DOWN"}
     THEN {"RES_INFOSE", "RES_INFOSCII", "RES_UP", "RES_NONE", "RES_DOWN"} ELSE {})

\* The loop does not watch the connection of p.
Unwatched(p) == \A i \in Watched : fds[i] # p

\* The server is done with p: it is not in the table, and its connection is not watched.
Out(p) == ~Registered(p) /\ Unwatched(p)

\* Why the server sends m to p: p is admitted, refused, or has sent a message, and a
\* removal is granted by taking p out of the table and of the watched connections.
ServerSays(p, m) ==
  \/ m = Msg("RES_ADD", <<told'[p]>>) /\ told[p] = NoId /\ told'[p] # NoId
  \/ m = Msg("ERROR(01)", <<>>)
  \/ \E k \in 1 .. Len(conn[p]["client"].data) :
       LET t == conn[p]["client"].data[k].type
       IN  m.type \in ReplyTypes(t) /\ (t = "REQ_REM" /\ m.type = "OK(01)" => Out(p)')

\* A step of the server leaves the client's end of the connection open or closed as it
\* was, tells p an identifier at most once and with RES_ADD, which meets a reset if the
\* client has closed its end, and answers what p has sent by reading it.
ServerMoves(p) ==
  /\ \E N \in SUBSET Messages :
       /\ Carries(conn[p], conn'[p], "server", N)
       /\ \A m \in N : ServerSays(p, m)
  /\ Load(p)' <= Load(p)
  /\ IsOpen(conn'[p], "client") <=> IsOpen(conn[p], "client")
  /\ EndsOn(conn[p], conn'[p])
  /\ told'[p] # told[p] => conn'[p]["client"].end # "fin"
  /\ IsOpen(conn[p], "client") /\ told[p] # NoId =>
       From(conn[p]["server"].data, conn'[p]["server"].data, {})
  /\ Unanswered(p)' => Unanswered(p)
  /\ told'[p] = told[p] \/
       (told[p] = NoId /\ (IsOpen(conn[p], "client") =>
          \E k \in 1 .. Len(conn'[p]["server"].data) :
             conn'[p]["server"].data[k] = Msg("RES_ADD", <<told'[p]>>)))
  /\ \/ conn'[p]["client"] = conn[p]["client"]
     \/ Unanswered(p)
     \/ Len(conn'[p]["client"].data) < Len(conn[p]["client"].data)
     \/ conn'[p]["client"].data = <<>>

\* SIGPIPE takes a client whose connection is still watched, and which has closed it with
\* a message under way.
Deadly(p) ==
  /\ ~Unwatched(p)
  /\ conn[p]["client"].data # <<>> /\ conn[p]["client"].end \in {"finrst", "broken"}

\* A connection nothing happened to.
LEMMA QuietMoves ==
  ASSUME IInv, NEW p \in Client, conn'[p] = conn[p], told'[p] = told[p],
         UNCHANGED backlog \/ (p \in Waiting' <=> p \in Waiting)
  PROVE  ServerMoves(p)
<1>1. Carries(conn[p], conn'[p], "server", {})
  BY DEF Carries, From
<1>2. Unanswered(p)' <=> Unanswered(p)
  BY DEF Unanswered, Waiting
<1>3. Carried(conn[p]) \in Nat
  BY CountsAreNat DEF IInv, TypeOK
<1>4. Load(p)' = Load(p) /\ Load(p) \in Nat
  BY <1>2, <1>3 DEF Load
<1>5. From(conn[p]["server"].data, conn'[p]["server"].data, {})
  BY DEF From
<1> QED
  BY <1>1, <1>2, <1>4, <1>5 DEF ServerMoves, EndsOn

\* A connection of a client that is told nothing new, and gains no message.
LEMMA RowMoves ==
  ASSUME IInv, NEW p \in Client, NEW d \in Connections(Messages), conn'[p] = d,
         NEW N \in SUBSET Messages, Carries(conn[p], d, "server", N), \A m \in N : ServerSays(p, m),
         told'[p] = told[p], UNCHANGED backlog, EndsOn(conn[p], d),
         IsOpen(conn[p], "client") => From(conn[p]["server"].data, d["server"].data, {}),
         Carried(d) <= Carried(conn[p]),
         \/ Len(d["client"].data) < Len(conn[p]["client"].data)
         \/ d["client"].data = <<>>
  PROVE  ServerMoves(p)
<1>1. /\ Unanswered(p)' => Unanswered(p)
      /\ IsOpen(d, "client") <=> IsOpen(conn[p], "client")
  BY DEF Unanswered, Waiting, EndsOn, IsOpen
<1>2. Carried(conn[p]) \in Nat /\ Carried(d) \in Nat
  BY CountsAreNat DEF IInv, TypeOK
<1>3. Load(p)' = Carried(d) + (IF Unanswered(p)' THEN 1 ELSE 0)
  BY DEF Load
<1>4. Load(p)' <= Load(p)
  BY <1>1, <1>2, <1>3 DEF Load
<1> QED
  BY <1>1, <1>4 DEF ServerMoves

\* The server has read a message of p and answers it.
LEMMA AnswerMoves ==
  ASSUME TInv, NEW i \in Fd, NEW t, NEW m \in Messages, Answer(i, t, m), UNCHANGED told,
         NEW o, o = fds[i], m.type \in ReplyTypes(t),
         t = "REQ_REM" /\ m.type = "OK(01)" => Out(o)'
  PROVE  /\ \A p \in Client : ServerMoves(p)
         /\ running' # running => \E p \in Client : Deadly(p)
<1>1. /\ Serving(i) /\ UNCHANGED backlog
      /\ HasData(conn[o], "server") /\ Incoming(conn[o], "server").type = t
      /\ \E c \in Received(conn[o], "server") : Send(o, c, m)
  BY DEF Answer, sockets, Link
<1>2. o \in Client /\ conn[o] \in Connections(Messages) /\ IInv
      /\ conn[o]["client"].end # "idle" /\ ~Unwatched(o)
  BY <1>1, ServedEntry DEF TInv, IInv, TypeOK, ClientsApart, Unwatched
<1>3. PICK c \in Received(conn[o], "server") : Send(o, c, m)
  BY <1>1
<1>4. Out(o)' \/ ~(t = "REQ_REM" /\ m.type = "OK(01)")
  OBVIOUS
<1>5. /\ c \in Connections(Messages) /\ Carries(conn[o], c, "server", {})
      /\ c["client"].end = conn[o]["client"].end /\ c["server"] = conn[o]["server"]
      /\ Len(c["client"].data) < Len(conn[o]["client"].data)
      /\ Carried(c) <= Carried(conn[o]) - 1
  BY <1>2, <1>3, ServerReceived, ServerEnd
<1>6. ServerSays(o, m)
  <2> DEFINE s == conn[o]["client"].data
  <2>1. s \in Seq(Messages) /\ s # <<>> /\ Incoming(conn[o], "server") = Head(s)
    BY <1>1, <1>2, CountsAreNat, ServerEnd DEF HasData, Incoming
  <2>2. 1 \in 1 .. Len(s) /\ s[1].type = t
    BY <1>1, <2>1
  <2> QED
    BY <1>4, <2>2 DEF ServerSays
<1>7. Carried(conn[o]) \in Nat /\ Carried(c) \in Nat
  BY <1>2, <1>5, CountsAreNat
<1>8. CASE /\ conn' \in {[conn EXCEPT ![o] = d] : d \in Sent(c, "server", m)}
           /\ UNCHANGED running
  <2>1. PICK d \in Sent(c, "server", m) : conn' = [conn EXCEPT ![o] = d]
    BY <1>8
  <2>2. /\ d \in Connections(Messages) /\ Carries(c, d, "server", {m})
        /\ d["client"].data = c["client"].data /\ Carried(d) <= Carried(c) + 1
    BY <1>5, <2>1, ServerSent
  <2>3. EndsOn(conn[o], d)
    <3>1. EndsOn(c, d)
      BY <1>5, <2>1, ServerSent
    <3> QED
      BY <1>5, <3>1 DEF EndsOn
  <2>4. Carries(conn[o], d, "server", {m})
    <3>1. Carries(conn[o], d, "server", {} \union {m})
      BY <1>5, <2>2, CarriesOn
    <3>2. {} \union {m} = {m}
      OBVIOUS
    <3> QED
      BY <3>1, <3>2
  <2>5. conn'[o] = d /\ \A p \in Client \ {o} : conn'[p] = conn[p]
    BY <1>2, <2>1 DEF IInv, TypeOK
  <2>6. Carried(d) \in Nat
    BY <2>2, CountsAreNat
  <2>7. Carried(d) <= Carried(conn[o])
    BY <1>5, <1>7, <2>2, <2>6
  <2>8. ServerMoves(o)
    <3>1. {m} \in SUBSET Messages /\ \A n \in {m} : ServerSays(o, n)
      BY <1>6
    <3>2. Len(d["client"].data) < Len(conn[o]["client"].data)
      BY <1>5, <2>2
    <3>3. ASSUME IsOpen(conn[o], "client")
          PROVE  From(conn[o]["server"].data, d["server"].data, {})
      <4> DEFINE s == conn[o]["server"].data
      <4>1. s \in Seq(Messages)
        BY <1>2, CountsAreNat
      <4>2. IsOpen(c, "client")
        BY <1>5, <3>3 DEF IsOpen
      <4>3. d["server"].data = Append(s, m)
        <5>1. d["server"].data = Append(c["server"].data, m)
          BY <1>5, <2>1, <4>2, ServerSent
        <5> QED
          BY <1>5, <5>1
      <4> HIDE DEF s
      <4>4. From(s, Append(s, m), {})
        BY <4>1, FromPart
      <4> QED
        BY <4>3, <4>4 DEF s
    <3> QED
      BY <1>1, <1>2, <2>2, <2>3, <2>4, <2>5, <2>7, <3>1, <3>2, <3>3, RowMoves
  <2>9. ASSUME NEW p \in Client \ {o}
        PROVE  ServerMoves(p)
    BY <1>1, <1>2, <2>5, QuietMoves
  <2> QED
    BY <1>8, <2>8, <2>9
<1>9. CASE /\ RaisesSigPipe(c, "server")
           /\ \E how \in [Client -> {"rst", "finrst"}] :
                conn' = [q \in Client |->
                           IF conn[q] = Idle THEN Idle
                           ELSE Closed(IF q = o THEN c ELSE conn[q], "server", how[q])]
  <2>1. PICK how \in [Client -> {"rst", "finrst"}] :
          conn' = [q \in Client |->
                     IF conn[q] = Idle THEN Idle
                     ELSE Closed(IF q = o THEN c ELSE conn[q], "server", how[q])]
    BY <1>9
  <2>2. Deadly(o)
    <3>1. c["client"].end \in {"finrst", "broken"}
      BY <1>9, ServerEnd DEF RaisesSigPipe
    <3>2. conn[o]["client"].data # <<>>
      BY <1>1, ServerEnd DEF HasData
    <3> QED
      BY <1>2, <1>5, <3>1, <3>2 DEF Deadly
  <2>3. ASSUME NEW p \in Client
        PROVE  ServerMoves(p)
    <3>1. CASE conn[p] = Idle
      <4>1. conn'[p] = conn[p]
        BY <2>1, <3>1
      <4> QED
        BY <1>1, <1>2, <4>1, QuietMoves
    <3>2. CASE conn[p] # Idle
      <4> DEFINE b == IF p = o THEN c ELSE conn[p]
                 d == Closed(b, "server", how[p])
      <4>1. conn'[p] = d
        BY <2>1, <3>2
      <4>2. /\ b \in Connections(Messages) /\ conn[p] \in Connections(Messages)
            /\ Carries(conn[p], b, "server", {}) /\ b["client"].end = conn[p]["client"].end
            /\ Carried(b) <= Carried(conn[p]) /\ b["server"] = conn[p]["server"]
        <5>1. conn[p] \in Connections(Messages)
          BY <1>2 DEF IInv, TypeOK
        <5>2. Carries(conn[p], conn[p], "server", {}) /\ Carried(conn[p]) \in Nat
          BY <5>1, CountsAreNat DEF Carries, From
        <5> QED
          BY <1>5, <1>7, <5>1, <5>2
      <4> HIDE DEF b
      <4>3. d \in Closings(b, "server") \union {Closed(b, "server", h) : h \in {"rst", "finrst"}}
        BY <2>1
      <4>4. d["server"].data = b["server"].data
        BY <2>1, <4>2, ClosedIsConnection, ServerEnd
      <4>5. From(conn[p]["server"].data, d["server"].data, {})
        BY <4>2, <4>4 DEF From
      <4> HIDE DEF d
      <4>6. /\ d \in Connections(Messages) /\ Carries(b, d, "server", {})
            /\ d["client"].data = <<>> /\ d["client"].end = b["client"].end
            /\ Carried(d) <= Carried(b)
        BY <4>2, <4>3, ServerClosed, ServerEnd
      <4>7. Carries(conn[p], d, "server", {})
        <5>1. Carries(conn[p], d, "server", {} \union {})
          BY <4>2, <4>6, CarriesOn
        <5>2. {} \union {} = {}
          OBVIOUS
        <5> QED
          BY <5>1, <5>2
      <4>8. Carried(d) <= Carried(conn[p])
        <5>1. Carried(d) \in Nat /\ Carried(b) \in Nat /\ Carried(conn[p]) \in Nat
          BY <4>2, <4>6, CountsAreNat
        <5> QED
          BY <4>2, <4>6, <5>1
      <4>9. {} \in SUBSET Messages /\ \A n \in {} : ServerSays(p, n)
        OBVIOUS
      <4>10. EndsOn(conn[p], d)
        BY <4>2, <4>6 DEF EndsOn
      <4> QED
        BY <1>1, <1>2, <4>1, <4>6, <4>7, <4>8, <4>9, <4>10, <4>5, RowMoves
    <3> QED
      BY <3>1, <3>2
  <2> QED
    BY <1>2, <2>2, <2>3
<1> QED
  BY <1>3, <1>8, <1>9 DEF Send

\* The connection is gone: the server closes its end.
LEMMA DropMoves ==
  ASSUME TInv, NEW i \in Fd, Serving(i), DropConnection(i), NEW o, o = fds[i],
         ~IsOpen(conn[o], "client")
  PROVE  /\ \A p \in Client : ServerMoves(p)
         /\ UNCHANGED running
<1>1. UNCHANGED <<told, backlog, running>> /\ Link(i) = conn[o]
  BY DEF DropConnection, Link
<1>2. PICK d \in Closings(conn[o], "server") : conn' = [conn EXCEPT ![o] = d]
  BY <1>1 DEF DropConnection, CloseFd
<1>3. o \in Client /\ conn[o] \in Connections(Messages) /\ IInv
  BY ServedEntry DEF TInv, IInv, TypeOK
<1>4. conn'[o] = d /\ \A p \in Client \ {o} : conn'[p] = conn[p]
  BY <1>2, <1>3 DEF IInv, TypeOK
<1>5. /\ d \in Connections(Messages) /\ Carries(conn[o], d, "server", {})
      /\ d["client"].data = <<>> /\ d["client"].end = conn[o]["client"].end
      /\ Carried(d) <= Carried(conn[o])
  BY <1>2, <1>3, ServerClosed, ServerEnd
<1>6. ServerMoves(o)
  <2>1. {} \in SUBSET Messages /\ \A n \in {} : ServerSays(o, n)
    OBVIOUS
  <2>2. EndsOn(conn[o], d)
    BY <1>5 DEF EndsOn
  <2>3. told'[o] = told[o]
    BY <1>1
  <2> QED
    BY <1>1, <1>3, <1>4, <1>5, <2>1, <2>2, <2>3, RowMoves
<1>7. ASSUME NEW p \in Client \ {o}
      PROVE  ServerMoves(p)
  BY <1>1, <1>3, <1>4, <1>7, QuietMoves
<1> QED
  BY <1>1, <1>6, <1>7

\* A client that was waiting is told its identifier.
LEMMA AdmitMoves ==
  ASSUME IInv, Admit, NEW o, o = Head(backlog), NEW n, n = next_client_id
  PROVE  /\ \A p \in Client : ServerMoves(p)
         /\ UNCHANGED running
<1> DEFINE m == Msg("RES_ADD", <<n>>)
<1>1. PICK d \in Sent(conn[o], "server", m) : conn' = [conn EXCEPT ![o] = d]
  BY DEF Admit
<1>2. /\ UNCHANGED running
      /\ o \in Client /\ told[o] = NoId /\ n \in Nat
      /\ \A q \in Client : told'[q] = IF q = o THEN n ELSE told[q]
      /\ \A q \in Client \ {o} : conn'[q] = conn[q]
  BY AdmitFacts
<1>3. o \in Waiting /\ Waiting' = Waiting \ {o}
  <2>1. Serving(server_socket) /\ backlog' = Tail(backlog)
    BY DEF Admit
  <2> QED
    BY <2>1, HeadIsTaken
<1>4. /\ conn[o] \in Connections(Messages) /\ conn'[o] = d
      /\ conn[o]["client"].end # "idle"
  BY <1>3, <1>1, <1>2 DEF IInv, TypeOK, ClientsApart, Waiting
<1>5. m \in Messages
  BY <1>2, MessageTypes DEF ResponseTypes
<1>6. n # NoId /\ m = Msg("RES_ADD", <<told'[o]>>)
  BY <1>2 DEF NoId
<1> HIDE DEF m
<1>7. /\ d \in Connections(Messages) /\ Carries(conn[o], d, "server", {m})
      /\ d["client"].data = conn[o]["client"].data
      /\ Carried(d) <= Carried(conn[o]) + 1
      /\ IsOpen(conn[o], "client") => d["server"].data = Append(conn[o]["server"].data, m)
  BY <1>1, <1>4, <1>5, ServerSent
<1>8. /\ d["client"].end \notin {"idle", "fin"} /\ EndsOn(conn[o], d)
      /\ IsOpen(d, "client") <=> IsOpen(conn[o], "client")
  <2>1. d["client"].end \notin {"idle", "fin"} /\ EndsOn(conn[o], d)
    BY <1>1, <1>4, <1>5, ServerSent
  <2> QED
    BY <2>1 DEF EndsOn, IsOpen
<1>9. Unanswered(o) /\ ~Unanswered(o)'
  BY <1>3, <1>4, <1>8 DEF Unanswered
<1>10. Load(o)' <= Load(o)
  <2>1. Carried(d) \in Nat /\ Carried(conn[o]) \in Nat
    BY <1>4, <1>7, CountsAreNat
  <2>2. /\ Load(o)' = Carried(conn'[o]) + IF Unanswered(o)' THEN 1 ELSE 0
        /\ Load(o) = Carried(conn[o]) + IF Unanswered(o) THEN 1 ELSE 0
    BY DEF Load, Carried
  <2>3. Load(o)' = Carried(d) + 0 /\ Load(o) = Carried(conn[o]) + 1
    BY <1>4, <1>9, <2>2
  <2> QED
    BY <1>7, <2>1, <2>3
<1>11. IsOpen(conn[o], "client") =>
         \E k \in 1 .. Len(d["server"].data) : d["server"].data[k] = m
  <2> DEFINE s == conn[o]["server"].data
  <2>1. s \in Seq(Messages) /\ Len(s) \in Nat
    BY <1>4, CountsAreNat
  <2> HIDE DEF s
  <2>2. Len(s) + 1 \in 1 .. Len(Append(s, m)) /\ Append(s, m)[Len(s) + 1] = m
    BY <2>1
  <2> QED
    BY <1>7, <2>2 DEF s
<1>12. ServerMoves(o)
  <2>1. {m} \in SUBSET Messages /\ \A x \in {m} : ServerSays(o, x)
    BY <1>2, <1>5, <1>6 DEF ServerSays
  <2>2. told[o] = NoId
    BY <1>2
  <2> QED
    BY <1>4, <1>6, <1>7, <1>8, <1>9, <1>10, <1>11, <2>1, <2>2 DEF ServerMoves
<1>13. ASSUME NEW p \in Client \ {o}
       PROVE  ServerMoves(p)
  <2>1. conn'[p] = conn[p] /\ told'[p] = told[p]
    BY <1>2
  <2>2. p \in Waiting' <=> p \in Waiting
    BY <1>3
  <2> QED
    BY <2>1, <2>2, QuietMoves
<1> QED
  BY <1>2, <1>12, <1>13

\* A client that was waiting is refused.
LEMMA RefuseMoves ==
  ASSUME IInv, Refuse, NEW o, o = Head(backlog)
  PROVE  /\ \A p \in Client : ServerMoves(p)
         /\ UNCHANGED running
<1> DEFINE m == Msg("ERROR(01)", <<>>)
<1>1. PICK c \in Sent(conn[o], "server", m) :
        conn' \in {[conn EXCEPT ![o] = d] : d \in Closings(c, "server")}
  BY DEF Refuse
<1>2. PICK d \in Closings(c, "server") : conn' = [conn EXCEPT ![o] = d]
  BY <1>1
<1>3. /\ Serving(server_socket) /\ UNCHANGED <<told, running>> /\ backlog' = Tail(backlog)
  BY DEF Refuse, registry
<1>4. o \in Client /\ conn[o] \in Connections(Messages) /\ conn[o]["client"].end # "idle"
  BY <1>3, HeadOfBacklog
<1>5. o \in Waiting /\ Waiting' = Waiting \ {o}
  BY <1>3, HeadIsTaken
<1>6. m \in Messages
  BY MessageTypes DEF ResponseTypes
<1> HIDE DEF m
<1>7. /\ c \in Connections(Messages) /\ Carries(conn[o], c, "server", {m})
      /\ c["client"].data = conn[o]["client"].data
      /\ Carried(c) <= Carried(conn[o]) + 1
  BY <1>1, <1>4, <1>6, ServerSent
<1>8. /\ c["client"].end # "idle" /\ EndsOn(conn[o], c)
      /\ IsOpen(c, "client") <=> IsOpen(conn[o], "client")
  <2>1. c["client"].end # "idle" /\ EndsOn(conn[o], c)
    BY <1>1, <1>4, <1>6, ServerSent
  <2> QED
    BY <2>1 DEF EndsOn, IsOpen
<1>9. /\ d \in Connections(Messages) /\ Carries(c, d, "server", {})
      /\ d["client"].data = <<>> /\ d["client"].end = c["client"].end
      /\ Carried(d) <= Carried(c)
  BY <1>2, <1>7, ServerClosed, ServerEnd
<1>10. Carries(conn[o], d, "server", {m})
  <2>1. Carries(conn[o], d, "server", {m} \union {})
    BY <1>7, <1>9, CarriesOn
  <2>2. {m} \union {} = {m}
    OBVIOUS
  <2> QED
    BY <2>1, <2>2
<1>11. conn'[o] = d /\ \A p \in Client \ {o} : conn'[p] = conn[p]
  BY <1>2, <1>4 DEF IInv, TypeOK
<1>12. Unanswered(o) /\ ~Unanswered(o)'
  BY <1>5, <1>8, <1>9, <1>11 DEF Unanswered
<1>13. Load(o)' <= Load(o)
  <2>1. Carried(d) \in Nat /\ Carried(c) \in Nat /\ Carried(conn[o]) \in Nat
    BY <1>4, <1>7, <1>9, CountsAreNat
  <2>2. /\ Load(o)' = Carried(conn'[o]) + IF Unanswered(o)' THEN 1 ELSE 0
        /\ Load(o) = Carried(conn[o]) + IF Unanswered(o) THEN 1 ELSE 0
    BY DEF Load, Carried
  <2>3. Load(o)' = Carried(d) + 0 /\ Load(o) = Carried(conn[o]) + 1
    BY <1>11, <1>12, <2>2
  <2> QED
    BY <1>7, <1>9, <2>1, <2>3
<1>14. ServerMoves(o)
  <2>1. {m} \in SUBSET Messages /\ \A x \in {m} : ServerSays(o, x)
    BY <1>6 DEF ServerSays, m
  <2>2. told'[o] = told[o] /\ told[o] = NoId
    BY <1>3, <1>5 DEF IInv, ClientsApart, Waiting
  <2>3. /\ IsOpen(d, "client") <=> IsOpen(conn[o], "client")
        /\ EndsOn(conn[o], d)
    BY <1>8, <1>9 DEF IsOpen, EndsOn
  <2> QED
    BY <1>9, <1>10, <1>11, <1>12, <1>13, <2>1, <2>2, <2>3 DEF ServerMoves
<1>15. ASSUME NEW p \in Client \ {o}
       PROVE  ServerMoves(p)
  <2>1. conn'[p] = conn[p] /\ told'[p] = told[p]
    BY <1>3, <1>11
  <2>2. p \in Waiting' <=> p \in Waiting
    BY <1>5
  <2> QED
    BY <2>1, <2>2, QuietMoves
<1> QED
  BY <1>3, <1>14, <1>15

\* A removal that is granted leaves its client without a slot, since no other active slot
\* holds the identifier, and unwatched, since its socket is that of the slot.
LEMMA RemovalIsDone ==
  ASSUME TInv, Remove
  PROVE  \E i \in Fd : \E o \in Client :
           /\ o = fds[i] /\ Answer(i, "REQ_REM", Msg("OK(01)", <<>>))
           /\ UNCHANGED told /\ Out(o)'
<1>1. PICK i \in Fd, j \in Slot :
        /\ Answer(i, "REQ_REM", Msg("OK(01)", <<>>))
        /\ Entry(j, Incoming(Link(i), "server").args[1])
        /\ active_fd_set' = active_fd_set \ {clients[j].socket}
        /\ clients' = [clients EXCEPT ![j].active = FALSE]
        /\ UNCHANGED told
  BY DEF Remove
<1>2. fds[i] \in Client /\ \A k \in DOMAIN fds \ {i} : fds[k] # fds[i]
  BY <1>1, ServedEntry DEF Answer
<1>3. PICK o \in Client : o = fds[i]
  BY <1>2
<1>4. clients[j].active /\ clients[j].id = told[o] /\ clients[j].socket = i
  BY <1>1, <1>3, RemovalIsOwn DEF TInv
<1>5. \A s \in Slot : /\ clients'[s].id = clients[s].id
                      /\ clients'[s].active <=> (clients[s].active /\ s # j)
  BY <1>1 DEF TInv, IInv, TypeOK
<1>6. ~Registered(o)'
  <2>1. ASSUME NEW s \in Slot, clients'[s].active, clients'[s].id = told'[o]
        PROVE  FALSE
    <3>1. clients[s].active /\ s # j /\ clients[s].id = told[o]
      BY <1>1, <1>5, <2>1
    <3> QED
      BY <1>4, <3>1 DEF TInv, EntriesOK
  <2> QED
    BY <2>1 DEF Registered
<1>7. Unwatched(o)'
  <2>1. Watched' = Watched \ {i} /\ UNCHANGED fds
    BY <1>1, <1>4 DEF Watched, Answer, sockets
  <2>2. Watched \subseteq DOMAIN fds
    BY DEF TInv, IInv, DescriptorsOK
  <2> QED
    BY <1>2, <1>3, <2>1, <2>2 DEF Unwatched
<1> QED
  BY <1>1, <1>3, <1>6, <1>7 DEF Out

\* The other actions that answer: what they answer to what.
LEMMA QuietReplies ==
  ASSUME IInv, RemoveUnknown \/ Info \/ Status \/ Up \/ None \/ Down \/ Echo
  PROVE  \E i \in Fd : \E t : \E m \in Messages :
           /\ Answer(i, t, m) /\ m.type \in ReplyTypes(t)
           /\ ~(t = "REQ_REM" /\ m.type = "OK(01)")
<1>1. latest \in Int
  BY LevelsAreNumbers DEF IInv, TypeOK
<1>2. CASE RemoveUnknown
  <2> DEFINE m == Msg("ERROR(02)", <<>>)
  <2>1. m \in Messages
    BY MessageTypes DEF ResponseTypes
  <2>2. m.type \in ReplyTypes("REQ_REM") /\ m.type # "OK(01)"
    BY DEF Msg, ReplyTypes
  <2>3. \E i \in Fd : Answer(i, "REQ_REM", m)
    BY <1>2 DEF RemoveUnknown
  <2> QED
    BY <2>1, <2>2, <2>3
<1>3. CASE Info
  <2> DEFINE m == Msg("RES_INFOSE", <<latest>>)
             n == Msg("RES_INFOSCII", <<latest>>)
  <2>1. m \in Messages /\ n \in Messages
    BY <1>1, MessageTypes DEF ResponseTypes
  <2>2. m.type \in ReplyTypes("REQ_INFOSE") /\ n.type \in ReplyTypes("REQ_INFOSCII")
    BY DEF Msg, ReplyTypes
  <2>3. PICK i \in Fd : Answer(i, "REQ_INFOSE", m) \/ Answer(i, "REQ_INFOSCII", n)
    BY <1>3 DEF Info
  <2> HIDE DEF m, n
  <2>4. CASE Answer(i, "REQ_INFOSE", m)
    BY <2>1, <2>2, <2>4
  <2>5. CASE Answer(i, "REQ_INFOSCII", n)
    BY <2>1, <2>2, <2>5
  <2> QED
    BY <2>3, <2>4, <2>5
<1>4. CASE Status
  <2> DEFINE m == RES_STATUS(latest)
  <2>1. m \in Messages
    BY MessageTypes DEF ResponseTypes, StatusTypes, RES_STATUS
  <2>2. m.type \in ReplyTypes("REQ_STATUS")
    <3>1. m.type \in StatusTypes
      BY DEF RES_STATUS, Msg, StatusTypes
    <3> QED
      BY <3>1 DEF ReplyTypes
  <2>3. \E i \in Fd : Answer(i, "REQ_STATUS", m)
    BY <1>4 DEF Status
  <2> HIDE DEF m
  <2> QED
    BY <2>1, <2>2, <2>3
<1>5. CASE Up
  <2>1. PICK i \in Fd, v \in (latest .. 100) \intersect Levels :
          Answer(i, "REQ_UP", Msg("RES_UP", <<latest, v>>))
    BY <1>5 DEF Up
  <2> DEFINE m == Msg("RES_UP", <<latest, v>>)
  <2>2. m \in Messages
    BY <1>1, MessageTypes DEF ResponseTypes
  <2>3. m.type \in ReplyTypes("REQ_UP")
    BY DEF Msg, ReplyTypes
  <2> QED
    BY <2>1, <2>2, <2>3
<1>6. CASE None
  <2> DEFINE m == Msg("RES_NONE", <<latest>>)
  <2>1. m \in Messages
    BY <1>1, MessageTypes DEF ResponseTypes
  <2>2. m.type \in ReplyTypes("REQ_NONE")
    BY DEF Msg, ReplyTypes
  <2>3. \E i \in Fd : Answer(i, "REQ_NONE", m)
    BY <1>6 DEF None
  <2> QED
    BY <2>1, <2>2, <2>3
<1>7. CASE Down
  <2>1. PICK i \in Fd, v \in (0 .. latest) \intersect Levels :
          Answer(i, "REQ_DOWN", Msg("RES_DOWN", <<latest, v>>))
    BY <1>7 DEF Down
  <2> DEFINE m == Msg("RES_DOWN", <<latest, v>>)
  <2>2. m \in Messages
    BY <1>1, MessageTypes DEF ResponseTypes
  <2>3. m.type \in ReplyTypes("REQ_DOWN")
    BY DEF Msg, ReplyTypes
  <2> QED
    BY <2>1, <2>2, <2>3
<1>8. CASE Echo
  <2>1. PICK i \in Fd :
          /\ HasData(Link(i), "server")
          /\ Incoming(Link(i), "server").type \notin Known
          /\ Answer(i, Incoming(Link(i), "server").type, Incoming(Link(i), "server"))
    BY <1>8 DEF Echo
  <2> DEFINE m == Incoming(Link(i), "server")
  <2>2. m \in Messages
    <3>1. Link(i) \in Connections(Messages)
      BY <2>1, ServedDescriptor DEF Answer
    <3> QED
      BY <2>1, <3>1, IncomingIsMessage
  <2>3. m.type \in ReplyTypes(m.type) /\ m.type # "REQ_REM"
    BY <2>1 DEF ReplyTypes, Known
  <2> HIDE DEF m
  <2> QED
    BY <2>1, <2>2, <2>3 DEF m
<1> QED
  BY <1>2, <1>3, <1>4, <1>5, <1>6, <1>7, <1>8

\* What every step of the server does to the connection of each client, and whom it
\* takes to make the server die.
LEMMA ServerStepMoves ==
  ASSUME TInv, ServerStep
  PROVE  /\ \A p \in Client : ServerMoves(p)
         /\ running' # running => \E p \in Client : Deadly(p)
<1>1. CASE Select \/ AcceptFails
  <2>1. UNCHANGED <<conn, told, backlog, running>>
    BY <1>1 DEF Select, AcceptFails, registry, sockets
  <2> QED
    BY <2>1, QuietMoves DEF TInv
<1>2. CASE Refuse
  <2>1. PICK o : o = Head(backlog)
    OBVIOUS
  <2> QED
    BY <1>2, <2>1, RefuseMoves DEF TInv
<1>3. CASE Admit
  <2>1. PICK o, n : o = Head(backlog) /\ n = next_client_id
    OBVIOUS
  <2> QED
    BY <1>3, <2>1, AdmitMoves DEF TInv
<1>4. CASE Disconnect \/ ReceiveError
  <2>1. PICK i \in Fd : /\ Serving(i) /\ DropConnection(i)
                      /\ ~IsOpen(conn[fds[i]], "client")
    BY <1>4, ServerEnd DEF Disconnect, ReceiveError, AtEof, AtReset, Link, IsOpen
  <2>2. PICK o : o = fds[i]
    OBVIOUS
  <2> QED
    BY <2>1, <2>2, DropMoves
<1>5. CASE Remove
  <2>1. PICK i \in Fd, o \in Client :
          /\ o = fds[i] /\ Answer(i, "REQ_REM", Msg("OK(01)", <<>>))
          /\ UNCHANGED told /\ Out(o)'
    BY <1>5, RemovalIsDone
  <2> DEFINE m == Msg("OK(01)", <<>>)
  <2>2. m \in Messages /\ m.type \in ReplyTypes("REQ_REM")
    BY MessageTypes DEF ResponseTypes, ReplyTypes, Msg
  <2>3. Answer(i, "REQ_REM", m)
    BY <2>1
  <2> HIDE DEF m
  <2> QED
    BY <2>1, <2>2, <2>3, AnswerMoves
<1>6. CASE RemoveUnknown \/ Info \/ Status \/ Up \/ None \/ Down \/ Echo
  <2>1. IInv
    BY DEF TInv
  <2>2. \E i \in Fd : \E t : \E m \in Messages :
           /\ Answer(i, t, m) /\ m.type \in ReplyTypes(t)
           /\ ~(t = "REQ_REM" /\ m.type = "OK(01)")
    BY <1>6, <2>1, QuietReplies
  <2>3. PICK i \in Fd : \E t : \E m \in Messages :
           /\ Answer(i, t, m) /\ m.type \in ReplyTypes(t)
           /\ ~(t = "REQ_REM" /\ m.type = "OK(01)")
    BY <2>2
  <2>4. PICK t : \E m \in Messages :
           /\ Answer(i, t, m) /\ m.type \in ReplyTypes(t)
           /\ ~(t = "REQ_REM" /\ m.type = "OK(01)")
    BY <2>3
  <2>5. PICK m \in Messages :
           /\ Answer(i, t, m) /\ m.type \in ReplyTypes(t)
           /\ ~(t = "REQ_REM" /\ m.type = "OK(01)")
    BY <2>4
  <2>6. UNCHANGED told
    BY <1>6, QuietAnswer DEF TInv, registry
  <2>7. PICK o : o = fds[i]
    OBVIOUS
  <2> QED
    BY <2>5, <2>6, <2>7, AnswerMoves
<1> QED
  BY <1>1, <1>2, <1>3, <1>4, <1>5, <1>6 DEF ServerStep

-----------------------------------------------------------------------------
(* What the messages under way say of the registry. *)

\* The client has sent nothing but requests and removals.
Polite(p) ==
  \A k \in 1 .. Len(conn[p]["client"].data) :
    conn[p]["client"].data[k].type \in Requests \union {"REQ_REM"}

\* A RES_ADD under way brings the client the identifier that it has.
Introduced(p) ==
  \A k \in 1 .. Len(conn[p]["server"].data) :
    conn[p]["server"].data[k].type = "RES_ADD" =>
      told[p] # NoId /\ conn[p]["server"].data[k] = Msg("RES_ADD", <<told[p]>>)

\* An OK(01) under way tells the client that the server is done with it.
Dismissed(p) ==
  \A k \in 1 .. Len(conn[p]["server"].data) :
    conn[p]["server"].data[k].type = "OK(01)" => told[p] # NoId /\ Out(p)

\* RES_ADD is the first message of s, if it is there.
ComesFirst(s) == \A k \in 1 .. Len(s) : s[k].type = "RES_ADD" => k = 1

\* RES_ADD comes first: until its connect() is answered, a client is sent nothing.
Greeted(p) ==
  /\ Unanswered(p) => conn[p]["server"].data = <<>>
  /\ ComesFirst(conn[p]["server"].data)

XInv ==
  /\ TInv
  /\ \A p \in Client : Polite(p) /\ Introduced(p) /\ Dismissed(p) /\ Greeted(p)

\* A slot becomes active with a new identifier, or not at all.
LEMMA SlotsFill ==
  ASSUME TInv, [Next]_vars, NEW j \in Slot, clients'[j].active
  PROVE  \/ clients[j].active /\ clients'[j].id = clients[j].id
         \/ clients'[j].id = next_client_id
<1>1. CASE UNCHANGED clients
  BY <1>1
<1>2. CASE Admit
  <2>1. PICK i \in Fd :
          \/ \E s \in Slot : clients' = [clients EXCEPT ![s] =
                               [socket |-> i, id |-> next_client_id, active |-> TRUE]]
          \/ UNCHANGED clients
    BY <1>2 DEF Admit
  <2> QED
    BY <2>1 DEF TInv, IInv, TypeOK
<1>3. CASE Disconnect \/ Remove
  <2>1. UNCHANGED clients \/ \E s \in Slot : clients' = [clients EXCEPT ![s].active = FALSE]
    BY <1>3 DEF Disconnect, Remove
  <2> QED
    BY <2>1 DEF TInv, IInv, TypeOK
<1>4. Select \/ AcceptFails \/ Refuse \/ ReceiveError => UNCHANGED clients
  BY DEF Select, AcceptFails, Refuse, ReceiveError, registry
<1>5. RemoveUnknown \/ Info \/ Status \/ Up \/ None \/ Down \/ Echo => UNCHANGED clients
  BY QuietAnswer DEF TInv, registry
<1>6. PeerStep => UNCHANGED clients
  BY DEF PeerStep, PeerConnect, PeerSend, PeerSends, PeerReceive, PeerClose, PeerSendsLast,
         PeerCloses, registry
<1>7. UNCHANGED vars => UNCHANGED clients
  BY DEF vars, registry
<1> QED
  BY <1>1, <1>2, <1>3, <1>4, <1>5, <1>6, <1>7 DEF Next, ServerStep

\* A client that has had its identifier and is out of the table does not come back.
LEMMA StaysAway ==
  ASSUME TInv, [Next]_vars, NEW p \in Client, told'[p] = told[p], told[p] # NoId, ~Registered(p)
  PROVE  ~Registered(p)'
<1>1. told[p] < next_client_id /\ next_client_id \in Nat /\ told[p] \in Nat \union {NoId}
  BY DEF TInv, IInv, IdentifiersOK, TypeOK
<1>2. ASSUME NEW j \in Slot, clients'[j].active, clients'[j].id = told'[p]
      PROVE  FALSE
  <2>1. clients'[j].id # next_client_id
    BY <1>1, <1>2 DEF NoId
  <2>2. clients[j].active /\ clients'[j].id = clients[j].id
    BY <1>2, <2>1, SlotsFill
  <2> QED
    BY <1>2, <2>2 DEF Registered
<1> QED
  BY <1>2 DEF Registered

\* The connection of a client that has had its identifier is not watched again.
LEMMA StaysUnwatched ==
  ASSUME TInv, [Next]_vars, NEW p \in Client, told[p] # NoId, Unwatched(p)
  PROVE  Unwatched(p)'
<1>1. Unwatched(p) /\ IInv
  BY DEF TInv
<1>2. CASE UNCHANGED <<active_fd_set, fds>>
  BY <1>1, <1>2 DEF Unwatched, Watched
<1>3. CASE Admit
  <2>1. PICK o : o = Head(backlog)
    OBVIOUS
  <2>2. PICK n : n = next_client_id
    OBVIOUS
  <2>3. /\ told[o] = NoId
        /\ \E i \in Fd : /\ DOMAIN fds' = DOMAIN fds \union {i}
                         /\ fds'[i] = o /\ \A k \in DOMAIN fds : fds'[k] = fds[k]
                         /\ Watched' = Watched \union {i}
    BY <1>1, <1>3, <2>1, <2>2, AdmitFacts
  <2> QED
    BY <1>1, <2>3 DEF Unwatched, IInv, DescriptorsOK
<1>4. CASE Disconnect \/ ReceiveError
  <2>1. PICK i \in Fd : DropConnection(i)
    BY <1>4 DEF Disconnect, ReceiveError
  <2>2. Watched' = Watched \ {i} /\ \A k \in DOMAIN fds \ {i} : fds'[k] = fds[k]
    BY <2>1 DEF DropConnection, CloseFd, Watched
  <2> QED
    BY <1>1, <2>2 DEF Unwatched, IInv, DescriptorsOK
<1>5. CASE Remove
  <2>1. Watched' \subseteq Watched /\ fds' = fds
    BY <1>5 DEF Remove, Answer, sockets, Watched
  <2> QED
    BY <1>1, <2>1 DEF Unwatched
<1>6. Select \/ AcceptFails \/ Refuse => UNCHANGED <<active_fd_set, fds>>
  BY DEF Select, AcceptFails, Refuse, registry, sockets
<1>7. RemoveUnknown \/ Info \/ Status \/ Up \/ None \/ Down \/ Echo =>
        UNCHANGED <<active_fd_set, fds>>
  <2>1. ASSUME RemoveUnknown \/ Info \/ Status \/ Up \/ None \/ Down \/ Echo
        PROVE  UNCHANGED registry /\ \E i \in Fd : \E t : \E m \in Messages : Answer(i, t, m)
    BY <1>1, <2>1, QuietAnswer
  <2> QED
    BY <2>1 DEF registry, Answer, sockets
<1>8. PeerStep => UNCHANGED <<active_fd_set, fds>>
  BY DEF PeerStep, PeerConnect, PeerSend, PeerSends, PeerReceive, PeerClose, PeerSendsLast,
         PeerCloses, registry, sockets
<1>9. UNCHANGED vars => UNCHANGED <<active_fd_set, fds>>
  BY DEF vars, registry, sockets
<1> QED
  BY <1>2, <1>3, <1>4, <1>5, <1>6, <1>7, <1>8, <1>9 DEF Next, ServerStep

\* The server is done with a client for good.
LEMMA StaysOut ==
  ASSUME TInv, [Next]_vars, NEW p \in Client, told'[p] = told[p], told[p] # NoId, Out(p)
  PROVE  Out(p)'
BY StaysAway, StaysUnwatched DEF Out

\* A step of the server keeps what the messages say.
LEMMA ServerStepSays ==
  ASSUME XInv, ServerStep, NEW p \in Client
  PROVE  Polite(p)' /\ Introduced(p)' /\ Dismissed(p)'
<1>1. ServerMoves(p) /\ TInv /\ [Next]_vars
  BY ServerStepMoves DEF XInv, Next
<1>2. /\ Polite(p) /\ Introduced(p) /\ Dismissed(p)
      /\ OwnRemovals(p, conn[p])
  BY DEF XInv, TInv, IInv, IdentifiersOK
<1>3. told[p] # NoId => told'[p] = told[p]
  BY <1>1 DEF ServerMoves
<1>4. PICK N \in SUBSET Messages :
        Carries(conn[p], conn'[p], "server", N) /\ \A m \in N : ServerSays(p, m)
  BY <1>1 DEF ServerMoves
<1>5. /\ \A k \in 1 .. Len(conn'[p]["client"].data) :
           \E l \in 1 .. Len(conn[p]["client"].data) :
             conn'[p]["client"].data[k] = conn[p]["client"].data[l]
      /\ \A k \in 1 .. Len(conn'[p]["server"].data) :
           \/ ServerSays(p, conn'[p]["server"].data[k])
           \/ \E l \in 1 .. Len(conn[p]["server"].data) :
                conn'[p]["server"].data[k] = conn[p]["server"].data[l]
  BY <1>4, ServerEnd DEF Carries, From
<1>6. Polite(p)'
  BY <1>2, <1>5 DEF Polite
<1>7. "RES_ADD" \notin Requests /\ "OK(01)" \notin Requests
  BY ServerAssumption DEF RequestTypes
<1>8. ASSUME NEW m, ServerSays(p, m), m.type = "RES_ADD"
      PROVE  told'[p] # NoId /\ m = Msg("RES_ADD", <<told'[p]>>)
  <2>1. \A t : "RES_ADD" \in ReplyTypes(t) => t = "RES_ADD"
    BY DEF ReplyTypes, StatusTypes
  <2>2. Msg("ERROR(01)", <<>>).type # "RES_ADD"
    BY DEF Msg
  <2> QED
    BY <1>2, <1>7, <1>8, <2>1, <2>2 DEF ServerSays, Polite
<1>9. ASSUME NEW m, ServerSays(p, m), m.type = "OK(01)"
      PROVE  told[p] # NoId /\ Out(p)'
  <2>1. \A t : "OK(01)" \in ReplyTypes(t) => t \in {"OK(01)", "REQ_REM"}
    BY DEF ReplyTypes, StatusTypes
  <2>2. \A x : Msg("ERROR(01)", <<>>).type # "OK(01)" /\ Msg("RES_ADD", x).type # "OK(01)"
    BY DEF Msg
  <2>3. PICK k \in 1 .. Len(conn[p]["client"].data) :
          /\ m.type \in ReplyTypes(conn[p]["client"].data[k].type)
          /\ conn[p]["client"].data[k].type = "REQ_REM" /\ m.type = "OK(01)" => Out(p)'
    BY <1>9, <2>2 DEF ServerSays
  <2>4. conn[p]["client"].data[k].type = "REQ_REM"
    BY <1>2, <1>7, <1>9, <2>1, <2>3 DEF Polite
  <2> QED
    BY <1>2, <1>9, <2>3, <2>4 DEF OwnRemovals
<1>10. Introduced(p)'
  BY <1>2, <1>3, <1>5, <1>8 DEF Introduced
<1>11. Dismissed(p)'
  <2>1. ASSUME NEW k \in 1 .. Len(conn'[p]["server"].data),
               conn'[p]["server"].data[k].type = "OK(01)"
        PROVE  told'[p] # NoId /\ Out(p)'
    <3>1. CASE ServerSays(p, conn'[p]["server"].data[k])
      BY <1>3, <1>9, <2>1, <3>1
    <3>2. CASE \E l \in 1 .. Len(conn[p]["server"].data) :
                 conn'[p]["server"].data[k] = conn[p]["server"].data[l]
      <4>1. told[p] # NoId /\ Out(p)
        BY <1>2, <2>1, <3>2 DEF Dismissed
      <4> QED
        BY <1>1, <1>3, <4>1, StaysOut
    <3> QED
      BY <1>5, <3>1, <3>2
  <2> QED
    BY <2>1 DEF Dismissed
<1> QED
  BY <1>6, <1>10, <1>11

-----------------------------------------------------------------------------
(* What a step of a client does to its connection. *)

\* The step is one of client p alone: the server and the other connections stay.
OnlyClient(p) ==
  /\ UNCHANGED <<registry, fds, running>>
  /\ \A q \in Client \ {p} :
       conn'[q] = conn[q] /\ (Unanswered(q)' <=> Unanswered(q))

\* A step of client p sends some of the messages N, and n more than it reads.
ClientMoves(p, N, n) ==
  /\ OnlyClient(p)
  /\ Carries(conn[p], conn'[p], "client", N)
  /\ Load(p)' \in Nat /\ Load(p)' <= Load(p) + n

\* A connection whose client end is not idle changes, and no other.
LEMMA OneConnection ==
  ASSUME IInv, NEW p \in Client, NEW d \in Connections(Messages), NEW N, NEW n \in Int,
         conn' = [conn EXCEPT ![p] = d], UNCHANGED <<registry, sockets, running>>,
         d["client"].end # "idle", conn[p]["client"].end # "idle",
         Carries(conn[p], d, "client", N), Carried(d) <= Carried(conn[p]) + n
  PROVE  ClientMoves(p, N, n) /\ conn'[p] = d
<1>1. conn'[p] = d /\ \A q \in Client \ {p} : conn'[q] = conn[q]
  BY DEF IInv, TypeOK
<1>2. \A q \in Client : Unanswered(q)' <=> Unanswered(q)
  BY <1>1 DEF Unanswered, Waiting, sockets
<1>3. Carried(conn[p]) \in Nat /\ Carried(d) \in Nat
  BY CountsAreNat DEF IInv, TypeOK
<1>4. PICK u \in {0, 1} : /\ Load(p) = Carried(conn[p]) + u
                          /\ Load(p)' = Carried(d) + u
  BY <1>1, <1>2 DEF Load
<1>5. Load(p)' \in Nat /\ Load(p)' <= Load(p) + n
  BY <1>3, <1>4
<1> QED
  BY <1>1, <1>2, <1>5 DEF ClientMoves, OnlyClient, sockets

\* connect().
LEMMA ConnectMoves ==
  ASSUME IInv, NEW p \in Client, PeerConnect(p)
  PROVE  /\ ClientMoves(p, {}, 0) /\ IsOpen(conn'[p], "client")
         /\ told[p] = NoId
         /\ Carried(conn'[p]) = 0
<1> DEFINE d == Established
           n == Len(backlog)
<1>1. /\ d["client"].end = "open" /\ d["client"].data = <<>> /\ d["server"].data = <<>>
      /\ conn[p] = Idle /\ conn' = [conn EXCEPT ![p] = d]
      /\ backlog' = Append(backlog, p)
      /\ UNCHANGED <<registry, running>>
  BY ClientEnd, ServerEnd DEF PeerConnect, Established
<1> HIDE DEF d
<1>2. conn'[p] = d /\ \A q \in Client \ {p} : conn'[q] = conn[q]
  BY <1>1 DEF IInv, TypeOK
<1>3. conn[p]["client"].end = "idle" /\ conn[p]["client"].data = <<>> /\ conn[p]["server"].data = <<>>
  BY <1>1, ClientEnd, ServerEnd DEF Idle
<1>4. told[p] = NoId
  BY <1>3 DEF IInv, ClientsApart
<1>5. /\ n \in Nat /\ Len(backlog') = n + 1 /\ backlog'[n + 1] = p
      /\ \A k \in 1 .. n : backlog'[k] = backlog[k]
  BY <1>1 DEF IInv, TypeOK
<1> HIDE DEF n
<1>6. \A k \in 1 .. n + 1 : k \in 1 .. n \/ k = n + 1
  BY <1>5
<1>7. \A k \in 1 .. n : k \in 1 .. n + 1
  BY <1>5
<1>8. \A q \in Client \ {p} : q \in Waiting' <=> q \in Waiting
  BY <1>5, <1>6, <1>7 DEF Waiting, n
<1>9. Carried(conn[p]) = 0 /\ Carried(conn'[p]) = 0
  <2>1. /\ Len(conn[p]["client"].data) = 0 /\ Len(conn[p]["server"].data) = 0
        /\ Len(d["client"].data) = 0 /\ Len(d["server"].data) = 0
    BY <1>1, <1>3
  <2>2. Carried(d) = 0 /\ Carried(conn[p]) = 0
    BY <2>1 DEF Carried
  <2> QED
    BY <1>2, <2>2
<1>10. Load(p) = 1 /\ Load(p)' \in {0, 1}
  BY <1>3, <1>9 DEF Load, Unanswered
<1>11. Carries(conn[p], conn'[p], "client", {})
  BY <1>1, <1>2, ClientEnd DEF Carries, From
<1>12. IsOpen(conn'[p], "client")
  BY <1>1, <1>2 DEF IsOpen
<1>13. OnlyClient(p)
  <2>1. UNCHANGED fds
    BY DEF PeerConnect
  <2> QED
    BY <1>1, <1>2, <1>8, <2>1 DEF OnlyClient, Unanswered
<1> QED
  BY <1>4, <1>9, <1>10, <1>11, <1>12, <1>13 DEF ClientMoves

\* send().
LEMMA SendsMoves ==
  ASSUME IInv, NEW p \in Client, NEW m \in Messages, PeerSends(p, m)
  PROVE  /\ ClientMoves(p, {m}, 1)
         /\ IsOpen(conn[p], "client") /\ IsOpen(conn'[p], "client")
         /\ conn'[p]["server"].data = conn[p]["server"].data
<1>1. PICK d \in Sent(conn[p], "client", m) : conn' = [conn EXCEPT ![p] = d]
  BY DEF PeerSends
<1>2. /\ IsOpen(conn[p], "client") /\ conn[p] \in Connections(Messages)
      /\ UNCHANGED <<registry, sockets, running>>
  BY DEF PeerSends, IInv, TypeOK
<1>3. /\ d \in Connections(Messages) /\ Carries(conn[p], d, "client", {m})
      /\ d["server"].data = conn[p]["server"].data /\ d["client"].end = conn[p]["client"].end
      /\ Carried(d) <= Carried(conn[p]) + 1
  BY <1>1, <1>2, ClientSent
<1>4. d["client"].end = "open" /\ conn[p]["client"].end = "open"
  BY <1>2, <1>3 DEF IsOpen
<1>5. 1 \in Int
  OBVIOUS
<1>6. ClientMoves(p, {m}, 1) /\ conn'[p] = d
  BY <1>1, <1>2, <1>3, <1>4, <1>5, OneConnection
<1> QED
  BY <1>2, <1>3, <1>4, <1>6 DEF IsOpen

\* What recv() leaves: one message less at least, if there was one.
LEMMA ReadsLess ==
  ASSUME NEW c \in Connections(Messages), NEW d \in PeerReads(c)
  PROVE  /\ d \in Connections(Messages) /\ d["client"] = c["client"]
         /\ Carries(c, d, "client", {})
         /\ Carried(d) <= Carried(c)
         /\ HasData(c, "client") => Carried(d) <= Carried(c) - 1
         /\ ~HasData(c, "client") => d["server"].data = <<>>
<1>1. d \in Connections(Messages) /\ d["client"] = c["client"]
  BY PeerReadsOther
<1>2. Carried(c) \in Nat /\ Carried(d) \in Nat
  BY <1>1, CountsAreNat
<1>3. CASE HasData(c, "client")
  <2>1. d \in Received(c, "client")
    BY <1>3 DEF PeerReads
  <2>2. Carries(c, d, "client", {}) /\ Carried(d) <= Carried(c) - 1
    BY <2>1, ClientReceived, ClientEnd
  <2> QED
    BY <1>1, <1>2, <1>3, <2>2
<1>4. CASE ~HasData(c, "client")
  <2>1. c["server"].data = <<>> /\ d["server"].data = <<>>
    <3>1. c["server"].data = <<>>
      BY <1>4, ClientEnd DEF HasData
    <3>2. d = c \/ d = ErrorReturned(c, "client")
      BY <1>4 DEF PeerReads
    <3>3. ErrorReturned(c, "client")["server"].data = c["server"].data
      <4>1. "broken" \in StreamStates
        BY DEF StreamStates
      <4> QED
        BY <4>1, SetEndIsConnection, ServerEnd, ClientEnd DEF ErrorReturned
    <3> QED
      BY <3>1, <3>2, <3>3
  <2>2. Carries(c, d, "client", {}) /\ Carried(d) = Carried(c)
    BY <1>1, <2>1, ClientEnd DEF Carries, From, Carried
  <2> QED
    BY <1>1, <1>2, <1>4, <2>1, <2>2
<1> QED
  BY <1>3, <1>4

\* recv().
LEMMA ReceiveMoves ==
  ASSUME IInv, NEW p \in Client, PeerReceive(p)
  PROVE  /\ ClientMoves(p, {}, 0)
         /\ HasData(conn[p], "client") => ClientMoves(p, {}, -1)
         /\ ~HasData(conn[p], "client") => conn'[p]["server"].data = <<>>
         /\ IsOpen(conn[p], "client") /\ IsOpen(conn'[p], "client")
<1>1. PICK d \in PeerReads(conn[p]) : conn' = [conn EXCEPT ![p] = d]
  BY DEF PeerReceive
<1>2. /\ IsOpen(conn[p], "client") /\ conn[p] \in Connections(Messages)
      /\ UNCHANGED <<registry, sockets, running>>
  BY DEF PeerReceive, IInv, TypeOK
<1>3. /\ d \in Connections(Messages) /\ d["client"] = conn[p]["client"]
      /\ Carries(conn[p], d, "client", {})
      /\ Carried(d) <= Carried(conn[p])
      /\ HasData(conn[p], "client") => Carried(d) <= Carried(conn[p]) - 1
      /\ ~HasData(conn[p], "client") => d["server"].data = <<>>
  BY <1>1, <1>2, ReadsLess
<1>4. d["client"].end = "open" /\ conn[p]["client"].end = "open"
  BY <1>2, <1>3 DEF IsOpen
<1>5. /\ 0 \in Int /\ -1 \in Int
      /\ Carried(conn[p]) + 0 = Carried(conn[p])
      /\ Carried(conn[p]) + (-1) = Carried(conn[p]) - 1
  <2>1. Carried(conn[p]) \in Nat
    BY <1>2, CountsAreNat
  <2>2. \A x \in Nat : x + 0 = x /\ x + (-1) = x - 1
    OBVIOUS
  <2>3. 0 \in Int /\ -1 \in Int
    OBVIOUS
  <2> QED
    BY <2>1, <2>2, <2>3
<1>6. ClientMoves(p, {}, 0) /\ conn'[p] = d
  BY <1>1, <1>2, <1>3, <1>4, <1>5, OneConnection
<1>7. ASSUME HasData(conn[p], "client")
      PROVE  ClientMoves(p, {}, -1)
  <2>1. Carried(d) <= Carried(conn[p]) + (-1)
    BY <1>3, <1>5, <1>7
  <2> QED
    BY <1>1, <1>2, <1>3, <1>4, <1>5, <2>1, OneConnection
<1> QED
  BY <1>2, <1>3, <1>4, <1>6, <1>7 DEF IsOpen

\* close(), with c left of the connection.
LEMMA ClosesMoves ==
  ASSUME IInv, NEW p \in Client, NEW c \in Connections(Messages), NEW N, NEW n \in Int,
         PeerCloses(p, c), Carries(conn[p], c, "client", N), Carried(c) <= Carried(conn[p]) + n
  PROVE  ClientMoves(p, N, n) /\ ~IsOpen(conn'[p], "client")
<1>1. PICK d \in Closings(c, "client") : conn' = [conn EXCEPT ![p] = d]
  BY DEF PeerCloses
<1>2. /\ IsOpen(conn[p], "client") /\ conn[p] \in Connections(Messages)
      /\ UNCHANGED <<registry, sockets, running>>
  BY DEF PeerCloses, IInv, TypeOK
<1>3. /\ d \in Connections(Messages) /\ \A e \in Ends : Carries(c, d, e, {})
      /\ d["client"].end # "open" /\ (c["server"].data = <<>> => d["client"].end = "fin")
      /\ Carried(d) <= Carried(c)
  BY <1>1, ClientClosed
<1>4. d["client"].end \in {"fin", "rst", "finrst"}
  BY <1>1, ClosingsIsConnection, ClientEnd
<1>5. Carries(conn[p], d, "client", N)
  <2>1. Carries(conn[p], d, "client", N \union {})
    BY <1>3, CarriesOn, ClientEnd
  <2>2. N \union {} = N
    OBVIOUS
  <2> QED
    BY <2>1, <2>2
<1>6. /\ Carried(conn[p]) \in Nat /\ Carried(c) \in Nat /\ Carried(d) \in Nat
      /\ Carried(c) = Len(c["client"].data) + Len(c["server"].data)
      /\ Len(c["client"].data) \in Nat /\ Len(c["server"].data) \in Nat
      /\ c["server"].data \in Seq(Messages) /\ d["client"].data \in Seq(Messages)
  BY <1>2, <1>3, CountsAreNat
<1>7. Carried(d) <= Carried(conn[p]) + n
  <2>1. \A x, y, z \in Nat : x <= y /\ y <= z + n => x <= z + n
    OBVIOUS
  <2> QED
    BY <1>3, <1>6, <2>1
<1>8. d["client"].end # "idle" /\ conn[p]["client"].end # "idle"
  BY <1>2, <1>4 DEF IsOpen
<1>9. /\ d \in Connections(Messages)
      /\ conn' = [conn EXCEPT ![p] = d]
  BY <1>1, <1>3
<1>10. UNCHANGED <<registry, sockets, running>>
  BY <1>2
<1>11. ClientMoves(p, N, n) /\ conn'[p] = d
  BY <1>5, <1>7, <1>8, <1>9, <1>10, OneConnection
<1> QED
  BY <1>3, <1>11 DEF IsOpen

\* A step of a client that sends requests and removals keeps what the messages say.
LEMMA ClientSays ==
  ASSUME XInv, NEW p \in Client, NEW N, NEW n, ClientMoves(p, N, n),
         \A m \in N : m.type \in Requests \union {"REQ_REM"}
  PROVE  \A q \in Client : Polite(q)' /\ Introduced(q)' /\ Dismissed(q)'
<1>1. /\ UNCHANGED <<clients, told, active_fd_set, fds>>
      /\ \A q \in Client \ {p} : conn'[q] = conn[q]
  BY DEF ClientMoves, OnlyClient, registry
<1>2. \A q \in Client : Polite(q) /\ Introduced(q) /\ Dismissed(q)
  BY DEF XInv
<1>3. \A q \in Client : Out(q)' <=> Out(q)
  BY <1>1 DEF Out, Registered, Unwatched, Watched
<1>4. ASSUME NEW q \in Client \ {p}
      PROVE  Polite(q)' /\ Introduced(q)' /\ Dismissed(q)'
  BY <1>1, <1>2, <1>3 DEF Polite, Introduced, Dismissed
<1>5. /\ From(conn'[p]["client"].data, conn[p]["client"].data, N)
      /\ From(conn'[p]["server"].data, conn[p]["server"].data, {})
  BY ClientEnd DEF ClientMoves, Carries
<1>6. Polite(p)'
  BY <1>2, <1>5 DEF Polite, From
<1>7. Introduced(p)' /\ Dismissed(p)'
  <2>1. \A k \in 1 .. Len(conn'[p]["server"].data) :
          \E l \in 1 .. Len(conn[p]["server"].data) :
            conn'[p]["server"].data[k] = conn[p]["server"].data[l]
    BY <1>5 DEF From
  <2>2. Introduced(p)'
    BY <1>1, <1>2, <2>1 DEF Introduced
  <2>3. Dismissed(p)'
    BY <1>1, <1>2, <1>3, <2>1 DEF Dismissed
  <2> QED
    BY <2>2, <2>3
<1> QED
  BY <1>4, <1>6, <1>7

\* What a client may send is a request or a removal.
LEMMA AllowedTypes ==
  ASSUME IInv, NEW p \in Client, NEW m \in Allowed(p)
  PROVE  m \in Messages /\ m.type \in Requests \union {"REQ_REM"}
<1>1. m \in Messages
  BY AllowedIsMessage DEF IInv, TypeOK
<1>2. m.type \in Requests \union {"REQ_REM"}
  BY DEF Allowed, REQ_REM, Msg
<1> QED
  BY <1>1, <1>2

\* Every step of a client is one of its moves.
LEMMA PeerStepSays ==
  ASSUME XInv, PeerStep
  PROVE  \A q \in Client : Polite(q)' /\ Introduced(q)' /\ Dismissed(q)'
<1>1. PICK p \in Client : \/ PeerConnect(p) \/ PeerSend(p) \/ PeerReceive(p)
                          \/ PeerClose(p) \/ PeerSendsLast(p)
  BY DEF PeerStep
<1>2. IInv /\ conn[p] \in Connections(Messages)
  BY DEF XInv, TInv, IInv, TypeOK
<1>3. Carried(conn[p]) \in Nat /\ Carried(conn[p]) + 0 = Carried(conn[p]) /\ 0 \in Int /\ 1 \in Int
  <2>1. Carried(conn[p]) \in Nat
    BY <1>2, CountsAreNat
  <2>2. \A x \in Nat : x + 0 = x
    OBVIOUS
  <2> QED
    BY <2>1, <2>2
<1> DEFINE Sendable == {m \in Messages : m.type \in Requests \union {"REQ_REM"}}
<1>4. \E N \in SUBSET Sendable : \E n \in Int : ClientMoves(p, N, n)
  <2>1. CASE PeerConnect(p)
    BY <1>2, <1>3, <2>1, ConnectMoves
  <2>2. CASE PeerSend(p)
    <3>1. PICK m \in Allowed(p) : PeerSends(p, m)
      BY <2>2 DEF PeerSend, MaySend
    <3>2. m \in Messages /\ m \in Sendable
      BY <1>2, AllowedTypes
    <3>3. ClientMoves(p, {m}, 1)
      BY <1>2, <3>1, <3>2, SendsMoves
    <3> QED
      BY <1>3, <3>2, <3>3
  <2>3. CASE PeerReceive(p)
    BY <1>2, <1>3, <2>3, ReceiveMoves
  <2>4. CASE PeerClose(p)
    <3>1. PICK c \in {conn[p]} \union PeerReads(conn[p]) : PeerCloses(p, c)
      BY <2>4 DEF PeerClose
    <3>2. /\ c \in Connections(Messages) /\ Carries(conn[p], c, "client", {})
          /\ Carried(c) <= Carried(conn[p]) + 0
      <4>1. CASE c = conn[p]
        BY <1>2, <1>3, <4>1, CarriesItself
      <4>2. CASE c \in PeerReads(conn[p])
        BY <1>2, <1>3, <4>2, ReadsLess
      <4> QED
        BY <3>1, <4>1, <4>2
    <3>3. ClientMoves(p, {}, 0)
      BY <1>2, <1>3, <3>1, <3>2, ClosesMoves
    <3> QED
      BY <1>3, <3>3
  <2>5. CASE PeerSendsLast(p)
    <3>1. PICK m \in Allowed(p) : \E c \in Sent(conn[p], "client", m) : PeerCloses(p, c)
      BY <2>5 DEF PeerSendsLast, MaySend
    <3>2. PICK c \in Sent(conn[p], "client", m) : PeerCloses(p, c)
      BY <3>1
    <3>3. m \in Messages /\ m \in Sendable
      BY <1>2, AllowedTypes
    <3>4. /\ c \in Connections(Messages) /\ Carries(conn[p], c, "client", {m})
          /\ Carried(c) <= Carried(conn[p]) + 1
      BY <1>2, <3>2, <3>3, ClientSent
    <3>5. ClientMoves(p, {m}, 1)
      BY <1>2, <1>3, <3>2, <3>4, ClosesMoves
    <3> QED
      BY <1>3, <3>3, <3>5
  <2> QED
    BY <1>1, <2>1, <2>2, <2>3, <2>4, <2>5
<1>5. PICK N \in SUBSET Sendable : \E n \in Int : ClientMoves(p, N, n)
  BY <1>4
<1>6. PICK n \in Int : ClientMoves(p, N, n)
  BY <1>5
<1>7. \A m \in N : m.type \in Requests \union {"REQ_REM"}
  OBVIOUS
<1> QED
  BY <1>6, <1>7, ClientSays

\* An answer goes to the client that is served, if it has not closed its connection,
\* and to nobody else.
LEMMA AnswerGoes ==
  ASSUME IInv, NEW i \in Fd, NEW t, NEW m \in Messages, Answer(i, t, m), NEW o, o = fds[i]
  PROVE  /\ o \in Client
         /\ \A p \in Client \ {o} : conn'[p]["server"].data = conn[p]["server"].data
         /\ conn'[o]["server"].data =
              IF IsOpen(conn[o], "client") THEN Append(conn[o]["server"].data, m)
              ELSE conn[o]["server"].data
<1>1. o \in Client /\ conn \in [Client -> Connections(Messages)]
  BY ServedDescriptor DEF Answer, Link, IInv, TypeOK
<1>2. PICK c \in Received(conn[o], "server") : Send(o, c, m)
  BY DEF Answer, Link
<1>3. /\ c \in Connections(Messages) /\ c["server"] = conn[o]["server"]
      /\ c["client"].end = conn[o]["client"].end
  BY <1>1, <1>2, ServerReceived
<1>4. CASE conn' \in {[conn EXCEPT ![o] = d] : d \in Sent(c, "server", m)}
  <2>1. PICK d \in Sent(c, "server", m) : conn' = [conn EXCEPT ![o] = d]
    BY <1>4
  <2>2. IsOpen(c, "client") => d["server"].data = Append(c["server"].data, m)
    BY <1>3, <2>1, ServerSent
  <2>3. ~IsOpen(c, "client") => d["server"].data = c["server"].data
    <3>1. ASSUME c["client"].end # "open" PROVE d["server"].data = c["server"].data
      <4>1. d \in {SetEnd(c, "client", "finrst"), c, SetEnd(c, "client", "broken")}
        BY <2>1, <3>1, ServerEnd DEF Sent, IsOpen, ErrorReturned
      <4>2. \A x \in {"finrst", "broken"} : SetEnd(c, "client", x)["server"] = c["server"]
        <5>1. {"finrst", "broken"} \subseteq StreamStates
          BY DEF StreamStates
        <5> QED
          BY <1>3, <5>1, SetEndIsConnection, ClientEnd
      <4> QED
        BY <4>1, <4>2
    <3> QED
      BY <3>1 DEF IsOpen
  <2>4. conn'[o] = d /\ \A p \in Client \ {o} : conn'[p] = conn[p]
    BY <1>1, <2>1
  <2>5. IsOpen(c, "client") <=> IsOpen(conn[o], "client")
    BY <1>3 DEF IsOpen
  <2> QED
    BY <1>1, <1>3, <2>2, <2>3, <2>4, <2>5
<1>5. CASE /\ RaisesSigPipe(c, "server")
           /\ \E how \in [Client -> {"rst", "finrst"}] :
               conn' = [q \in Client |->
                          IF conn[q] = Idle THEN Idle
                          ELSE Closed(IF q = o THEN c ELSE conn[q], "server", how[q])]
  <2>1. PICK how \in [Client -> {"rst", "finrst"}] :
          conn' = [q \in Client |->
                     IF conn[q] = Idle THEN Idle
                     ELSE Closed(IF q = o THEN c ELSE conn[q], "server", how[q])]
    BY <1>5
  <2>2. ASSUME NEW q \in Client
        PROVE  conn'[q]["server"].data = conn[q]["server"].data
    <3>1. CASE conn[q] = Idle
      BY <2>1, <3>1
    <3>2. CASE conn[q] # Idle
      <4>1. PICK b : b = IF q = o THEN c ELSE conn[q]
        OBVIOUS
      <4>2. b \in Connections(Messages) /\ how[q] \in {"rst", "finrst"}
        BY <1>1, <1>3, <4>1
      <4>3. conn'[q] = Closed(b, "server", how[q])
        BY <2>1, <3>2, <4>1
      <4>4. b["server"] = conn[q]["server"]
        BY <1>3, <4>1
      <4> QED
        BY <4>2, <4>3, <4>4, ClosedIsConnection, ServerEnd
    <3> QED
      BY <3>1, <3>2
  <2>3. ~IsOpen(conn[o], "client")
    BY <1>3, <1>5, ServerEnd DEF RaisesSigPipe, IsOpen
  <2> QED
    BY <1>1, <2>2, <2>3
<1> QED
  BY <1>1, <1>2, <1>4, <1>5 DEF Send

\* What happens to the bytes on their way to a client once it has been answered.
GoesAfter(s, t) ==
  \/ t = s
  \/ \E i \in 1 .. Len(s) : t = SubSeq(s, i + 1, Len(s))
  \/ \E m \in Messages : m.type # "RES_ADD" /\ t = Append(s, m)

\* Nothing of that puts a RES_ADD behind another message.
LEMMA FirstComesFirst ==
  ASSUME NEW s \in Seq(Messages), NEW t, ComesFirst(s), GoesAfter(s, t)
  PROVE  ComesFirst(t)
<1>1. CASE t = s
  BY <1>1
<1>2. CASE \E i \in 1 .. Len(s) : t = SubSeq(s, i + 1, Len(s))
  <2>1. PICK i \in 1 .. Len(s) : t = SubSeq(s, i + 1, Len(s))
    BY <1>2
  <2>2. /\ Len(t) = Len(s) - i
        /\ \A k \in 1 .. Len(t) : t[k] = s[i + k] /\ i + k \in 1 .. Len(s) /\ i + k # 1
    BY <2>1
  <2> QED
    BY <2>2 DEF ComesFirst
<1>3. CASE \E m \in Messages : m.type # "RES_ADD" /\ t = Append(s, m)
  <2>1. PICK m \in Messages : m.type # "RES_ADD" /\ t = Append(s, m)
    BY <1>3
  <2>2. \A k \in 1 .. Len(t) : t[k] = m \/ (k \in 1 .. Len(s) /\ t[k] = s[k])
    BY <2>1
  <2> QED
    BY <2>1, <2>2 DEF ComesFirst
<1> QED
  BY <1>1, <1>2, <1>3 DEF GoesAfter

\* No bytes, no RES_ADD; one message is the first.
LEMMA OneComesFirst ==
  /\ ComesFirst(<<>>)
  /\ \A m : ComesFirst(Append(<<>>, m))
  /\ \A s \in Seq(Messages) : \A k \in 0 .. Len(s) :
       ComesFirst(s) => ComesFirst(SubSeq(s, 1, k))
<1>1. ComesFirst(<<>>)
  BY DEF ComesFirst
<1>2. ASSUME NEW m
      PROVE  ComesFirst(Append(<<>>, m))
  <2>1. PICK t : t = Append(<<>>, m)
    OBVIOUS
  <2>2. Len(t) = 1
    BY <2>1
  <2> QED
    BY <2>1, <2>2 DEF ComesFirst
<1>3. ASSUME NEW s \in Seq(Messages), NEW k \in 0 .. Len(s), ComesFirst(s)
      PROVE  ComesFirst(SubSeq(s, 1, k))
  <2>1. PICK t : t = SubSeq(s, 1, k)
    OBVIOUS
  <2>2. \A x \in 1 .. Len(t) : x \in 1 .. Len(s) /\ t[x] = s[x]
    BY <2>1
  <2> QED
    BY <1>3, <2>1, <2>2 DEF ComesFirst
<1> QED
  BY <1>1, <1>2, <1>3

\* A connection that has been answered, or that nothing happened to.
LEMMA StaysGreeted ==
  ASSUME XInv, NEW p \in Client, Unanswered(p)' => Unanswered(p),
         \/ conn'[p]["server"].data = conn[p]["server"].data
         \/ conn'[p]["server"].data = <<>>
         \/ ~Unanswered(p)' /\ GoesAfter(conn[p]["server"].data, conn'[p]["server"].data)
  PROVE  Greeted(p)'
<1>1. Greeted(p) /\ conn[p]["server"].data \in Seq(Messages)
  BY CountsAreNat DEF XInv, TInv, IInv, TypeOK
<1>2. ASSUME GoesAfter(conn[p]["server"].data, conn'[p]["server"].data)
      PROVE  ComesFirst(conn'[p]["server"].data)
  <2>1. PICK s, t : s = conn[p]["server"].data /\ t = conn'[p]["server"].data
    OBVIOUS
  <2> QED
    BY <1>1, <1>2, <2>1, FirstComesFirst DEF Greeted
<1>3. ComesFirst(conn'[p]["server"].data)
  <2>1. ComesFirst(<<>>)
    BY OneComesFirst
  <2> QED
    BY <1>1, <1>2, <2>1 DEF Greeted
<1> QED
  BY <1>1, <1>3 DEF Greeted

\* The server answers a message with anything but RES_ADD.
LEMMA AnswerGreets ==
  ASSUME XInv, NEW i \in Fd, NEW t, NEW m \in Messages, Answer(i, t, m), m.type \in ReplyTypes(t),
         \A p \in Client : ServerMoves(p)
  PROVE  \A p \in Client : Greeted(p)'
<1>1. PICK o : o = fds[i]
  OBVIOUS
<1>2. /\ TInv /\ IInv /\ Serving(i) /\ UNCHANGED backlog
      /\ HasData(conn[o], "server") /\ Incoming(conn[o], "server").type = t
  BY <1>1 DEF XInv, TInv, Answer, sockets, Link
<1>3. /\ o \in Client /\ conn[o] \in Connections(Messages)
      /\ \A k \in 1 .. Len(backlog) : backlog[k] # o
  BY <1>1, <1>2, ServedEntry
<1>4. m.type # "RES_ADD"
  <2> DEFINE s == conn[o]["client"].data
  <2>1. s \in Seq(Messages) /\ s # <<>> /\ Incoming(conn[o], "server") = Head(s)
    BY <1>2, <1>3, CountsAreNat, ServerEnd DEF HasData, Incoming
  <2>2. 1 \in 1 .. Len(s) /\ s[1].type = t
    BY <1>2, <2>1
  <2>3. t \in Requests \union {"REQ_REM"}
    BY <1>3, <2>2 DEF XInv, Polite
  <2>4. "RES_ADD" \notin Requests
    BY ServerAssumption DEF RequestTypes
  <2> QED
    BY <2>3, <2>4 DEF ReplyTypes, StatusTypes
<1>5. /\ \A p \in Client \ {o} : conn'[p]["server"].data = conn[p]["server"].data
      /\ \/ conn'[o]["server"].data = Append(conn[o]["server"].data, m)
         \/ conn'[o]["server"].data = conn[o]["server"].data
  <2>1. /\ \A p \in Client \ {o} : conn'[p]["server"].data = conn[p]["server"].data
        /\ conn'[o]["server"].data =
             IF IsOpen(conn[o], "client") THEN Append(conn[o]["server"].data, m)
             ELSE conn[o]["server"].data
    BY <1>1, <1>2, AnswerGoes
  <2> QED
    BY <2>1
<1>6. ~Unanswered(o)
  BY <1>1, <1>2, <1>3, ServedEntry DEF Unanswered, Waiting, IInv, ClientsApart
<1>7. ASSUME NEW p \in Client
      PROVE  Greeted(p)'
  <2>1. Unanswered(p)' => Unanswered(p)
    BY DEF ServerMoves
  <2>2. CASE p = o
    BY <1>4, <1>5, <1>6, <2>1, <2>2, StaysGreeted DEF GoesAfter
  <2>3. CASE p # o
    BY <1>5, <2>1, <2>3, StaysGreeted
  <2> QED
    BY <2>2, <2>3
<1> QED
  BY <1>7

\* Every step of the server greets first.
LEMMA ServerGreets ==
  ASSUME XInv, ServerStep
  PROVE  \A p \in Client : Greeted(p)'
<1>1. /\ TInv /\ IInv /\ conn \in [Client -> Connections(Messages)]
      /\ \A p \in Client : ServerMoves(p)
  BY ServerStepMoves DEF XInv, TInv, IInv, TypeOK
<1>2. ASSUME NEW p \in Client, conn'[p]["server"].data = conn[p]["server"].data
      PROVE  Greeted(p)'
  <2>1. Unanswered(p)' => Unanswered(p)
    BY <1>1 DEF ServerMoves
  <2> QED
    BY <1>2, <2>1, StaysGreeted
<1>3. ASSUME NEW o, o = Head(backlog), Serving(server_socket), backlog' = Tail(backlog),
             NEW m \in Messages, NEW c \in Sent(conn[o], "server", m),
             NEW d \in {c} \union Closings(c, "server"), conn' = [conn EXCEPT ![o] = d]
      PROVE  \A p \in Client : Greeted(p)'
  <2>1. o \in Client /\ o \in Waiting /\ Waiting' = Waiting \ {o}
    BY <1>1, <1>3, HeadIsTaken
  <2>2. conn[o]["server"].data = <<>>
    BY <2>1 DEF XInv, Greeted, Unanswered
  <2>3. /\ c \in Connections(Messages) /\ c["client"].end # "idle"
        /\ c["server"].data \in {conn[o]["server"].data, Append(conn[o]["server"].data, m)}
    BY <1>1, <1>3, <2>1, ServerSent
  <2>4. ComesFirst(c["server"].data) /\ c["server"].data \in Seq(Messages)
    <3>1. ComesFirst(<<>>) /\ ComesFirst(Append(<<>>, m))
      BY OneComesFirst
    <3> QED
      BY <2>2, <2>3, <3>1, CountsAreNat
  <2>5. d["client"].end # "idle" /\ ComesFirst(d["server"].data)
    <3>1. CASE d = c
      BY <2>3, <2>4, <3>1
    <3>2. CASE d \in Closings(c, "server")
      <4>1. PICK k \in 0 .. Len(c["server"].data) :
              d["server"].data = SubSeq(c["server"].data, 1, k)
        BY <2>3, <3>2, ClosingsIsConnection, ServerEnd
      <4>2. d["client"].end = c["client"].end
        BY <2>3, <3>2, ServerClosed
      <4>3. ComesFirst(SubSeq(c["server"].data, 1, k))
        BY <2>4, OneComesFirst
      <4> QED
        BY <2>3, <4>1, <4>2, <4>3
    <3> QED
      BY <1>3, <3>1, <3>2
  <2>6. conn'[o] = d /\ \A p \in Client \ {o} : conn'[p] = conn[p]
    BY <1>1, <1>3, <2>1
  <2>7. Greeted(o)'
    BY <2>1, <2>5, <2>6 DEF Greeted, Unanswered
  <2> QED
    BY <1>2, <2>6, <2>7
<1>4. CASE Select \/ AcceptFails
  BY <1>2, <1>4 DEF Select, AcceptFails
<1>5. PICK o : o = Head(backlog)
  OBVIOUS
<1>6. CASE Admit
  <2> DEFINE m == Msg("RES_ADD", <<next_client_id>>)
  <2>1. next_client_id \in Int /\ "RES_ADD" \in ResponseTypes
    BY <1>1 DEF IInv, TypeOK, ResponseTypes
  <2>2. m \in Messages
    BY <2>1, MessageTypes
  <2> HIDE DEF m
  <2>3. PICK c \in Sent(conn[o], "server", m) : conn' = [conn EXCEPT ![o] = c]
    BY <1>5, <1>6 DEF Admit, m
  <2>4. Serving(server_socket) /\ backlog' = Tail(backlog)
    BY <1>6 DEF Admit
  <2> QED
    BY <1>3, <1>5, <2>2, <2>3, <2>4
<1>7. CASE Refuse
  <2> DEFINE m == Msg("ERROR(01)", <<>>)
  <2>1. m \in Messages
    BY MessageTypes DEF ResponseTypes
  <2>2. PICK c \in Sent(conn[o], "server", m) :
          conn' \in {[conn EXCEPT ![o] = d] : d \in Closings(c, "server")}
    BY <1>5, <1>7 DEF Refuse
  <2> HIDE DEF m
  <2>3. PICK d \in Closings(c, "server") : conn' = [conn EXCEPT ![o] = d]
    BY <2>2
  <2>4. Serving(server_socket) /\ backlog' = Tail(backlog)
    BY <1>7 DEF Refuse
  <2> QED
    BY <1>3, <1>5, <2>1, <2>3, <2>4
<1>8. CASE Disconnect \/ ReceiveError
  <2>1. PICK i \in Fd : Serving(i) /\ DropConnection(i) /\ ~HasData(Link(i), "server")
    BY <1>8 DEF Disconnect, ReceiveError, AtEof, AtReset
  <2>2. PICK q : q = fds[i]
    OBVIOUS
  <2>3. q \in Client
    BY <1>1, <2>1, <2>2, ServedDescriptor
  <2>4. PICK d \in Closings(conn[q], "server") : conn' = [conn EXCEPT ![q] = d]
    BY <2>1, <2>2 DEF DropConnection, CloseFd, Link
  <2>5. d = Closed(conn[q], "server", "finrst")
    BY <2>1, <2>2, <2>4 DEF Closings, Link
  <2>6. d["server"].data = conn[q]["server"].data
    BY <1>1, <2>3, <2>5, ClosedIsConnection, ServerEnd
  <2>7. conn'[q] = d /\ \A p \in Client \ {q} : conn'[p] = conn[p]
    BY <1>1, <2>3, <2>4
  <2> QED
    BY <1>2, <2>6, <2>7
<1>9. CASE Remove
  <2> DEFINE m == Msg("OK(01)", <<>>)
  <2>1. m \in Messages /\ m.type \in ReplyTypes("REQ_REM")
    BY MessageTypes DEF ResponseTypes, ReplyTypes, Msg
  <2>2. PICK i \in Fd : Answer(i, "REQ_REM", m)
    BY <1>9 DEF Remove
  <2> HIDE DEF m
  <2> QED
    BY <1>1, <2>1, <2>2, AnswerGreets
<1>10. CASE RemoveUnknown \/ Info \/ Status \/ Up \/ None \/ Down \/ Echo
  <2>1. \E i \in Fd : \E t : \E m \in Messages : Answer(i, t, m) /\ m.type \in ReplyTypes(t)
    BY <1>1, <1>10, QuietReplies
  <2>2. PICK i \in Fd : \E t : \E m \in Messages : Answer(i, t, m) /\ m.type \in ReplyTypes(t)
    BY <2>1
  <2>3. PICK t : \E m \in Messages : Answer(i, t, m) /\ m.type \in ReplyTypes(t)
    BY <2>2
  <2>4. PICK m \in Messages : Answer(i, t, m) /\ m.type \in ReplyTypes(t)
    BY <2>3
  <2> QED
    BY <1>1, <2>4, AnswerGreets
<1> QED
  BY <1>4, <1>6, <1>7, <1>8, <1>9, <1>10 DEF ServerStep

\* A client reads what it was sent, or closes it away.
LEMMA PeerGreets ==
  ASSUME XInv, PeerStep
  PROVE  \A q \in Client : Greeted(q)'
<1>1. PICK p \in Client : \/ PeerConnect(p) \/ PeerSend(p) \/ PeerReceive(p)
                          \/ PeerClose(p) \/ PeerSendsLast(p)
  BY DEF PeerStep
<1>2. IInv /\ conn \in [Client -> Connections(Messages)] /\ \A q \in Client : Greeted(q)
  BY DEF XInv, TInv, IInv, TypeOK
<1>3. ASSUME NEW d, conn' = [conn EXCEPT ![p] = d], UNCHANGED backlog,
             \/ d["server"].data = <<>>
             \/ /\ d["client"].end = conn[p]["client"].end
                /\ GoesAfter(conn[p]["server"].data, d["server"].data)
                /\ conn[p]["server"].data = <<>> => d["server"].data = <<>>
      PROVE  \A q \in Client : Greeted(q)'
  <2>1. conn'[p] = d /\ \A q \in Client \ {p} : conn'[q] = conn[q]
    BY <1>2, <1>3
  <2>2. ASSUME NEW q \in Client \ {p} PROVE Greeted(q)'
    BY <1>2, <1>3, <2>1, StaysGreeted DEF Unanswered, Waiting
  <2>3. CASE d["server"].data = <<>>
    <3>1. ComesFirst(<<>>)
      BY OneComesFirst
    <3>2. Greeted(p)'
      BY <2>1, <2>3, <3>1 DEF Greeted
    <3> QED
      BY <2>2, <3>2
  <2>4. CASE d["server"].data # <<>>
    <3>1. Unanswered(p)' <=> Unanswered(p)
      BY <1>3, <2>1, <2>4 DEF Unanswered, Waiting
    <3>2. ~Unanswered(p)
      BY <1>2, <1>3, <2>4 DEF Greeted
    <3>3. Greeted(p)'
      BY <1>3, <2>1, <2>4, <3>1, <3>2, StaysGreeted
    <3> QED
      BY <2>2, <3>3
  <2> QED
    BY <2>3, <2>4
<1>4. PeerSend(p) \/ PeerReceive(p) \/ PeerClose(p) \/ PeerSendsLast(p) => UNCHANGED backlog
  BY DEF PeerSend, PeerSends, PeerReceive, PeerClose, PeerSendsLast, PeerCloses, sockets
<1>5. CASE PeerConnect(p)
  <2>1. \A q \in Client \ {p} : conn'[q] = conn[q] /\ (Unanswered(q)' <=> Unanswered(q))
    BY <1>2, <1>5, ConnectMoves DEF ClientMoves, OnlyClient
  <2>2. Established["server"].data = <<>> /\ conn'[p] = Established
    BY <1>2, <1>5, ServerEnd DEF PeerConnect, Established
  <2>3. ComesFirst(<<>>)
    BY OneComesFirst
  <2>4. Greeted(p)'
    BY <2>2, <2>3 DEF Greeted
  <2>5. ASSUME NEW q \in Client \ {p} PROVE Greeted(q)'
    BY <2>1, StaysGreeted
  <2> QED
    BY <2>4, <2>5
<1>6. CASE PeerSend(p)
  <2>1. PICK m \in Allowed(p) : PeerSends(p, m)
    BY <1>6 DEF PeerSend, MaySend
  <2>2. PICK d \in Sent(conn[p], "client", m) : conn' = [conn EXCEPT ![p] = d]
    BY <2>1 DEF PeerSends
  <2>3. m \in Messages
    BY <1>2, AllowedTypes
  <2>4. d["server"].data = conn[p]["server"].data /\ d["client"].end = conn[p]["client"].end
    BY <1>2, <2>2, <2>3, ClientSent
  <2> QED
    BY <1>3, <1>4, <1>6, <2>2, <2>4 DEF GoesAfter
<1>7. CASE PeerReceive(p)
  <2>1. PICK d \in PeerReads(conn[p]) : conn' = [conn EXCEPT ![p] = d]
    BY <1>7 DEF PeerReceive
  <2>2. d["client"] = conn[p]["client"] /\ (~HasData(conn[p], "client") => d["server"].data = <<>>)
    BY <1>2, <2>1, ReadsLess
  <2>3. CASE HasData(conn[p], "client")
    <3>1. d \in Received(conn[p], "client")
      BY <2>1, <2>3 DEF PeerReads
    <3>2. \E k \in 1 .. Len(conn[p]["server"].data) :
            d["server"].data = SubSeq(conn[p]["server"].data, k + 1, Len(conn[p]["server"].data))
      <4>1. PICK c : c = conn[p]
        OBVIOUS
      <4>2. c \in Connections(Messages) /\ d \in Received(c, "client") /\ "client" \in Ends
        BY <1>2, <3>1, <4>1, ClientEnd
      <4>3. \E k \in 1 .. Len(c[Peer("client")].data) :
              d[Peer("client")].data =
                SubSeq(c[Peer("client")].data, k + 1, Len(c[Peer("client")].data))
        BY <4>2, ReceivedIsConnection
      <4> QED
        BY <4>1, <4>3, ClientEnd
    <3>3. conn[p]["server"].data # <<>>
      BY <2>3, ClientEnd DEF HasData
    <3> QED
      BY <1>3, <1>4, <1>7, <2>1, <2>2, <3>2, <3>3 DEF GoesAfter
  <2>4. CASE ~HasData(conn[p], "client")
    BY <1>3, <1>4, <1>7, <2>1, <2>2, <2>4
  <2> QED
    BY <2>3, <2>4
<1>8. ASSUME NEW c \in Connections(Messages), PeerCloses(p, c), UNCHANGED backlog
      PROVE  \A q \in Client : Greeted(q)'
  <2>1. PICK d \in Closings(c, "client") : conn' = [conn EXCEPT ![p] = d]
    BY <1>8 DEF PeerCloses
  <2>2. d["server"].data = <<>>
    BY <2>1, ClientClosed
  <2> QED
    BY <1>3, <1>8, <2>1, <2>2
<1>9. CASE PeerClose(p)
  <2>1. PICK c \in {conn[p]} \union PeerReads(conn[p]) : PeerCloses(p, c)
    BY <1>9 DEF PeerClose
  <2>2. c \in Connections(Messages)
    BY <1>2, <2>1, ReadsLess
  <2> QED
    BY <1>4, <1>8, <1>9, <2>1, <2>2
<1>10. CASE PeerSendsLast(p)
  <2>1. PICK m \in Allowed(p) : \E c \in Sent(conn[p], "client", m) : PeerCloses(p, c)
    BY <1>10 DEF PeerSendsLast, MaySend
  <2>2. PICK c \in Sent(conn[p], "client", m) : PeerCloses(p, c)
    BY <2>1
  <2>3. m \in Messages
    BY <1>2, AllowedTypes
  <2>4. c \in Connections(Messages)
    BY <1>2, <2>2, <2>3, ClientSent
  <2> QED
    BY <1>4, <1>8, <1>10, <2>2, <2>4
<1> QED
  BY <1>1, <1>5, <1>6, <1>7, <1>9, <1>10

\* Nobody has sent anything when main() enters its loop.
LEMMA InitSays == ASSUME Init PROVE XInv
<1>1. TInv
  BY InitTable
<1>2. \A p \in Client : conn[p]["client"].data = <<>> /\ conn[p]["server"].data = <<>>
  BY ClientEnd, ServerEnd DEF Init, Idle
<1>3. \A p \in Client : Len(conn[p]["client"].data) = 0 /\ Len(conn[p]["server"].data) = 0
  BY <1>2
<1>4. \A p \in Client : Polite(p) /\ Introduced(p) /\ Dismissed(p)
  BY <1>3 DEF Polite, Introduced, Dismissed
<1>5. \A p \in Client : Greeted(p)
  BY <1>2, <1>3 DEF Greeted, ComesFirst
<1> QED
  BY <1>1, <1>4, <1>5 DEF XInv

\* Every step keeps what the messages say.
LEMMA NextSays == ASSUME XInv, [Next]_vars PROVE XInv'
<1>1. TInv'
  BY NextTable DEF XInv
<1>2. \A p \in Client : Polite(p)' /\ Introduced(p)' /\ Dismissed(p)'
  <2>1. CASE ServerStep
    BY <2>1, ServerStepSays
  <2>2. CASE PeerStep
    BY <2>2, PeerStepSays
  <2>3. CASE UNCHANGED vars
    BY <2>3 DEF vars, registry, sockets, XInv, Polite, Introduced, Dismissed, Out, Registered,
                Unwatched, Watched
  <2> QED
    BY <2>1, <2>2, <2>3 DEF Next
<1>3. \A p \in Client : Greeted(p)'
  <2>1. CASE ServerStep
    BY <2>1, ServerGreets
  <2>2. CASE PeerStep
    BY <2>2, PeerGreets
  <2>3. CASE UNCHANGED vars
    BY <2>3 DEF vars, sockets, XInv, Greeted, Unanswered, Waiting
  <2> QED
    BY <2>1, <2>2, <2>3 DEF Next
<1> QED
  BY <1>1, <1>2, <1>3 DEF XInv

-----------------------------------------------------------------------------
(* What the two sides of a connection know of it. *)

\* A RES_ADD is under way to the client.
Promised(p) ==
  \E k \in 1 .. Len(conn[p]["server"].data) : conn[p]["server"].data[k].type = "RES_ADD"

\* What recv() gives a client first.
LEMMA FirstIncoming ==
  ASSUME IInv, NEW p \in Client, HasData(conn[p], "client")
  PROVE  /\ 1 \in 1 .. Len(conn[p]["server"].data)
         /\ Incoming(conn[p], "client") = conn[p]["server"].data[1]
<1> DEFINE s == conn[p]["server"].data
<1>1. s \in Seq(Messages) /\ s # <<>> /\ Incoming(conn[p], "client") = Head(s)
  BY CountsAreNat, ClientEnd DEF IInv, TypeOK, HasData, Incoming
<1> HIDE DEF s
<1>2. 1 \in 1 .. Len(s) /\ Head(s) = s[1]
  BY <1>1
<1> QED
  BY <1>1, <1>2 DEF s

\* RES_ADD tells a client its identifier, OK(01) that the server is done with it.
LEMMA IncomingSays ==
  ASSUME XInv, NEW p \in Client, HasData(conn[p], "client")
  PROVE  /\ Incoming(conn[p], "client").type = "RES_ADD" =>
              told[p] # NoId /\ Incoming(conn[p], "client").args[1] = told[p]
         /\ Incoming(conn[p], "client").type = "OK(01)" => told[p] # NoId /\ Out(p)
<1>1. /\ 1 \in 1 .. Len(conn[p]["server"].data)
      /\ Incoming(conn[p], "client") = conn[p]["server"].data[1]
      /\ Introduced(p) /\ Dismissed(p)
  BY FirstIncoming DEF XInv, TInv
<1>2. Msg("RES_ADD", <<told[p]>>).args[1] = told[p]
  BY DEF Msg
<1> QED
  BY <1>1, <1>2 DEF Introduced, Dismissed

\* A client whose first message is not RES_ADD is not sent one any more.
LEMMA NothingPromised ==
  ASSUME XInv, NEW p \in Client, HasData(conn[p], "client"),
         Incoming(conn[p], "client").type # "RES_ADD"
  PROVE  ~Promised(p)
<1>1. /\ Incoming(conn[p], "client") = conn[p]["server"].data[1]
      /\ ComesFirst(conn[p]["server"].data)
  BY FirstIncoming DEF XInv, TInv, Greeted
<1> QED
  BY <1>1 DEF Promised, ComesFirst

\* The load of a connection is a number, and counts the message that the client can read.
LEMMA LoadCounts ==
  ASSUME IInv, NEW p \in Client
  PROVE  /\ Load(p) \in Nat
         /\ HasData(conn[p], "client") => Load(p) >= 1
<1> DEFINE s == conn[p]["client"].data
           r == conn[p]["server"].data
<1>1. /\ s \in Seq(Messages) /\ r \in Seq(Messages) /\ Len(s) \in Nat /\ Len(r) \in Nat
      /\ Carried(conn[p]) \in Nat /\ Carried(conn[p]) = Len(s) + Len(r)
  BY CountsAreNat DEF IInv, TypeOK
<1>2. PICK u \in {0, 1} : Load(p) = Carried(conn[p]) + u
  BY DEF Load
<1>3. Load(p) = Len(s) + Len(r) + u
  BY <1>1, <1>2
<1>4. HasData(conn[p], "client") => 1 \in 1 .. Len(r)
  BY FirstIncoming
<1> HIDE DEF s, r
<1> QED
  BY <1>1, <1>3, <1>4

\* The client does something else, and nothing on this connection.
LEMMA RestMoves ==
  ASSUME IInv, UNCHANGED vars, NEW p \in Client
  PROVE  /\ ClientMoves(p, {}, 0)
         /\ conn'[p] = conn[p]
<1>1. UNCHANGED <<registry, conn, fds, backlog, running>>
  BY DEF vars, sockets
<1>2. Load(p)' = Load(p)
  BY <1>1 DEF Load, Unanswered, Waiting
<1>3. Load(p) \in Nat /\ Load(p)' \in Nat
  BY <1>2, LoadCounts
<1>4. Carries(conn[p], conn'[p], "client", {})
  BY <1>1, CarriesItself
<1>5. OnlyClient(p)
  BY <1>1 DEF OnlyClient, Unanswered, Waiting
<1> QED
  BY <1>1, <1>2, <1>3, <1>4, <1>5 DEF ClientMoves

\* What sends less also sends no more.
LEMMA MovesMore ==
  ASSUME IInv, NEW p \in Client, NEW N, NEW M, NEW n \in Int, NEW k \in Int,
         ClientMoves(p, N, n), N \subseteq M, n <= k
  PROVE  ClientMoves(p, M, k)
<1>1. Load(p) \in Nat
  BY LoadCounts
<1>2. Carries(conn[p], conn'[p], "client", M)
  BY DEF ClientMoves, Carries, From
<1>3. Load(p)' <= Load(p) + k
  BY <1>1 DEF ClientMoves
<1> QED
  BY <1>2, <1>3 DEF ClientMoves

\* There is room for one message more.
LEMMA RoomToSend ==
  ASSUME IInv, NEW p \in Client, NEW m \in Allowed(p), Load(p) < MaxPending
  PROVE  m \in MaySend(p)
<1>1. /\ Len(conn[p]["client"].data) \in Nat /\ Len(conn[p]["server"].data) \in Nat
      /\ Carried(conn[p]) = Len(conn[p]["client"].data) + Len(conn[p]["server"].data)
  BY CountsAreNat DEF IInv, TypeOK
<1>2. PICK u \in {0, 1} : Load(p) = Carried(conn[p]) + u
  BY DEF Load
<1>3. MaxPending \in Nat
  BY ServerAssumption
<1>4. \A x, y, z \in Nat : \A v \in {0, 1} : x + y + v < z => x + y < z
  OBVIOUS
<1>5. Len(conn[p]["client"].data) + Len(conn[p]["server"].data) + u < MaxPending
  BY <1>1, <1>2
<1>6. Len(conn[p]["client"].data) + Len(conn[p]["server"].data) < MaxPending
  BY <1>1, <1>3, <1>4, <1>5
<1> QED
  BY <1>6 DEF MaySend

\* send() of a message that the client may send.
LEMMA SendIsStep ==
  ASSUME IInv, NEW p \in Client, NEW m \in Allowed(p), Load(p) < MaxPending, PeerSends(p, m)
  PROVE  /\ PeerStep /\ ClientMoves(p, {m}, 1)
         /\ IsOpen(conn[p], "client") /\ IsOpen(conn'[p], "client")
         /\ conn'[p]["server"].data = conn[p]["server"].data
<1>1. m \in MaySend(p) /\ m \in Messages
  BY RoomToSend, AllowedTypes
<1>2. PeerStep
  BY <1>1 DEF PeerStep, PeerSend
<1> QED
  BY <1>1, <1>2, SendsMoves

\* close() after it.
LEMMA LastSendIsStep ==
  ASSUME IInv, NEW p \in Client, NEW m \in Allowed(p), Load(p) < MaxPending,
         NEW c \in Sent(conn[p], "client", m), PeerCloses(p, c)
  PROVE  /\ PeerStep /\ ClientMoves(p, {m}, 1)
         /\ ~IsOpen(conn'[p], "client")
<1>1. m \in MaySend(p) /\ m \in Messages /\ conn[p] \in Connections(Messages)
  BY RoomToSend, AllowedTypes DEF IInv, TypeOK
<1>2. PeerStep
  BY <1>1 DEF PeerStep, PeerSendsLast
<1>3. /\ c \in Connections(Messages) /\ Carries(conn[p], c, "client", {m})
      /\ Carried(c) <= Carried(conn[p]) + 1
  BY <1>1, ClientSent
<1> QED
  BY <1>2, <1>3, ClosesMoves

\* close(), perhaps after a recv() that returned data.
LEMMA CloseIsStep ==
  ASSUME IInv, NEW p \in Client, NEW c \in {conn[p]} \union Received(conn[p], "client"),
         PeerCloses(p, c)
  PROVE  /\ PeerStep /\ ClientMoves(p, {}, 0)
         /\ ~IsOpen(conn'[p], "client")
<1>1. conn[p] \in Connections(Messages)
  BY DEF IInv, TypeOK
<1>2. c \in {conn[p]} \union PeerReads(conn[p])
  <2>1. CASE c = conn[p]
    BY <2>1
  <2>2. CASE c \in Received(conn[p], "client")
    <3>1. HasData(conn[p], "client")
      <4>1. conn[p][Peer("client")].data \in Seq(Messages) /\ Peer("client") \in Ends
        BY <1>1, ServerEnd, ClientEnd, CountsAreNat
      <4>2. conn[p][Peer("client")].data # <<>>
        BY <2>2, <4>1 DEF Received
      <4> QED
        BY <4>2 DEF HasData
    <3> QED
      BY <2>2, <3>1 DEF PeerReads
  <2> QED
    BY <2>1, <2>2
<1>3. PeerStep
  BY <1>2 DEF PeerStep, PeerClose
<1>4. /\ c \in Connections(Messages) /\ Carries(conn[p], c, "client", {})
      /\ Carried(c) <= Carried(conn[p]) + 0
  <2>1. Carried(conn[p]) \in Nat
    BY <1>1, CountsAreNat
  <2>2. \A x \in Nat : x + 0 = x
    OBVIOUS
  <2>3. CASE c = conn[p]
    BY <1>1, <2>1, <2>2, <2>3, CarriesItself
  <2>4. CASE c \in PeerReads(conn[p])
    BY <1>1, <2>1, <2>2, <2>4, ReadsLess
  <2> QED
    BY <1>2, <2>3, <2>4
<1>5. 0 \in Int
  OBVIOUS
<1> QED
  BY <1>3, <1>4, <1>5, ClosesMoves

\* Where nothing is under way no RES_ADD is.
LEMMA EmptyPromisesNothing ==
  ASSUME NEW p, ~HasData(conn[p], "client")
  PROVE  ~Promised(p)
<1>1. conn[p]["server"].data = <<>>
  BY DEF HasData, Peer
<1>2. Len(<<>>) = 0
  OBVIOUS
<1>3. 1 .. 0 = {}
  OBVIOUS
<1> QED
  BY <1>1, <1>2, <1>3 DEF Promised

\* close() without a reset: the client had read all it was sent.
LEMMA ClosesSilently ==
  ASSUME IInv, NEW p \in Client, PeerCloses(p, conn[p]), conn'[p]["client"].end = "fin"
  PROVE  ~Promised(p)
<1>1. PICK d \in Closings(conn[p], "client") : conn' = [conn EXCEPT ![p] = d]
  BY DEF PeerCloses
<1>2. conn \in [Client -> Connections(Messages)]
  BY DEF IInv, TypeOK
<1>3. conn[p] \in Connections(Messages) /\ conn'[p] = d
  BY <1>1, <1>2
<1>4. conn[p]["server"].data = <<>> <=> d["client"].end = "fin"
  BY <1>3, ClientClosed
<1> QED
  BY <1>3, <1>4, EmptyPromisesNothing DEF HasData, Peer

-----------------------------------------------------------------------------
(* What a step makes of what is under way. *)

\* A RES_ADD is put under way when the client gets its identifier, and stays until the
\* client reads it or is gone.
LEMMA ServerPromises ==
  ASSUME XInv, NEW p \in Client, ServerMoves(p)
  PROVE  /\ told[p] # NoId /\ Promised(p)' => Promised(p)
         /\ told[p] # NoId /\ Promised(p) /\ IsOpen(conn[p], "client") => Promised(p)'
         /\ told'[p] # told[p] /\ IsOpen(conn[p], "client") => Promised(p)'
<1>1. Polite(p) /\ "RES_ADD" \notin Requests
  BY ServerAssumption DEF XInv, RequestTypes
<1>2. ASSUME told[p] # NoId, Promised(p)'
      PROVE  Promised(p)
  <2>1. PICK k \in 1 .. Len(conn'[p]["server"].data) :
          conn'[p]["server"].data[k].type = "RES_ADD"
    BY <1>2 DEF Promised
  <2>2. ASSUME NEW m, ServerSays(p, m)
        PROVE  m.type # "RES_ADD"
    <3>1. \A t : "RES_ADD" \in ReplyTypes(t) => t = "RES_ADD"
      BY DEF ReplyTypes, StatusTypes
    <3>2. Msg("ERROR(01)", <<>>).type # "RES_ADD"
      BY DEF Msg
    <3> QED
      BY <1>1, <1>2, <2>2, <3>1, <3>2 DEF ServerSays, Polite
  <2>3. \E l \in 1 .. Len(conn[p]["server"].data) :
          conn'[p]["server"].data[k] = conn[p]["server"].data[l]
    <3>1. PICK N \in SUBSET Messages :
            Carries(conn[p], conn'[p], "server", N) /\ \A m \in N : ServerSays(p, m)
      BY DEF ServerMoves
    <3> QED
      BY <2>1, <2>2, <3>1 DEF Carries, From
  <2> QED
    BY <2>1, <2>3 DEF Promised
<1>3. ASSUME told[p] # NoId, Promised(p), IsOpen(conn[p], "client")
      PROVE  Promised(p)'
  <2>1. From(conn[p]["server"].data, conn'[p]["server"].data, {})
    BY <1>3 DEF ServerMoves
  <2> QED
    BY <1>3, <2>1 DEF Promised, From
<1>4. ASSUME told'[p] # told[p], IsOpen(conn[p], "client")
      PROVE  Promised(p)'
  <2>1. PICK k \in 1 .. Len(conn'[p]["server"].data) :
          conn'[p]["server"].data[k] = Msg("RES_ADD", <<told'[p]>>)
    BY <1>4 DEF ServerMoves
  <2>2. conn'[p]["server"].data[k].type = "RES_ADD"
    BY <2>1 DEF Msg
  <2> QED
    BY <2>2 DEF Promised
<1> QED
  BY <1>2, <1>3, <1>4

-----------------------------------------------------------------------------
(* How many messages of some types are under way, from all the clients or to all *)
(* of them.                                                                      *)

\* Where the messages of types T are that end e of the connections c has sent.
PlacesOf(c, e, T) ==
  {x \in Client \X Nat :
     x[2] \in 1 .. Len(c[x[1]][e].data) /\ c[x[1]][e].data[x[2]].type \in T}

NumberOf(c, e, T) == Cardinality(PlacesOf(c, e, T))
Number(e, T) == NumberOf(conn, e, T)

\* One, for a message of type t when that is one of T.
One(t, T) == IF t \in T THEN 1 ELSE 0

\* The first of the messages s, when some are gone, and the one behind the first n.
Gone(s, k, T) == IF k > 0 THEN One(s[1].type, T) ELSE 0
Added(s, n, T) == IF Len(s) = n + 1 THEN One(s[n + 1].type, T) ELSE 0

\* They are finitely many.
LEMMA PlacesAreFinite ==
  ASSUME NEW c \in [Client -> Connections(Messages)], NEW e \in Ends, NEW T
  PROVE  IsFiniteSet(PlacesOf(c, e, T)) /\ NumberOf(c, e, T) \in Nat
<1> DEFINE row == [p \in Client |-> {p} \X (1 .. Len(c[p][e].data))]
           Rows == {row[p] : p \in Client}
<1>1. IsFiniteSet(Client)
  BY ServerAssumption
<1>2. IsFiniteSet(Rows)
  <2>1. row \in Surjection(Client, Rows)
    BY DEF Surjection
  <2> QED
    BY <1>1, <2>1, FS_Surjection
<1>3. \A R \in Rows : IsFiniteSet(R)
  <2>1. ASSUME NEW p \in Client
        PROVE  IsFiniteSet(row[p])
    <3> DEFINE K == 1 .. Len(c[p][e].data)
    <3>1. Len(c[p][e].data) \in Int /\ 1 \in Int
      BY CarriedIsNat
    <3>2. IsFiniteSet(K)
      BY <3>1, FS_Interval
    <3>3. IsFiniteSet({p})
      BY FS_Singleton
    <3> HIDE DEF K
    <3>4. IsFiniteSet({p} \X K)
      BY <3>2, <3>3, FS_Product
    <3> QED
      BY <3>4 DEF K
  <2> QED
    BY <2>1
<1>4. IsFiniteSet(UNION Rows)
  BY <1>2, <1>3, FS_UNION
<1>5. PlacesOf(c, e, T) \subseteq UNION Rows
  <2>1. ASSUME NEW x \in PlacesOf(c, e, T)
        PROVE  x \in row[x[1]] /\ x[1] \in Client
    BY DEF PlacesOf
  <2> QED
    BY <2>1
<1> QED
  BY <1>4, <1>5, FS_Subset, FS_CardinalityType DEF NumberOf

\* A set loses l and gains g, if anything: its size follows.
LEMMA SizeMoves ==
  ASSUME NEW S, NEW T, IsFiniteSet(T), NEW g, NEW l, NEW f \in Injection(S \ {g}, T \ {l})
  PROVE  Cardinality(S) + (IF l \in T THEN 1 ELSE 0)
           <= Cardinality(T) + (IF g \in S THEN 1 ELSE 0)
<1>1. /\ IsFiniteSet(T \ {l})
      /\ Cardinality(T \ {l}) = IF l \in T THEN Cardinality(T) - 1 ELSE Cardinality(T)
  BY FS_RemoveElement
<1>3. IsFiniteSet(S \ {g}) /\ Cardinality(S \ {g}) <= Cardinality(T \ {l})
  BY <1>1, FS_Injection
<1>4. /\ IsFiniteSet((S \ {g}) \union {g})
      /\ Cardinality((S \ {g}) \union {g}) = Cardinality(S \ {g}) + 1
  BY <1>3, FS_AddElement
<1>5. g \in S => (S \ {g}) \union {g} = S
  OBVIOUS
<1>6. g \notin S => S \ {g} = S
  OBVIOUS
<1>7. IsFiniteSet(S) /\ Cardinality(S) = Cardinality(S \ {g}) + (IF g \in S THEN 1 ELSE 0)
  <2>1. CASE g \in S
    BY <1>4, <1>5, <2>1
  <2>2. CASE g \notin S
    <3>1. Cardinality(S) \in Nat
      BY <1>3, <1>6, <2>2, FS_CardinalityType
    <3> QED
      BY <1>3, <1>6, <2>2, <3>1
  <2> QED
    BY <2>1, <2>2
<1>8. /\ Cardinality(S \ {g}) \in Nat /\ Cardinality(T \ {l}) \in Nat /\ Cardinality(T) \in Nat
  BY <1>1, <1>3, FS_CardinalityType
<1> QED
  BY <1>1, <1>3, <1>7, <1>8

\* One sequence changes: of what the end of o had sent, the first k messages are gone
\* and the n after them are left, with perhaps one new behind them. Of the other
\* sequences some may be gone.
Shifts(c, d, e, o, k, n) ==
  /\ \A p \in Client \ {o} : d[p][e].data \in {c[p][e].data, <<>>}
  /\ k + n <= Len(c[o][e].data) /\ Len(d[o][e].data) \in {n, n + 1}
  /\ \A x \in 1 .. n : d[o][e].data[x] = c[o][e].data[x + k]

LEMMA NumberShifts ==
  ASSUME NEW c \in [Client -> Connections(Messages)], NEW d \in [Client -> Connections(Messages)],
         NEW e \in Ends, NEW T, NEW o \in Client, NEW k \in Nat, NEW n \in Nat,
         Shifts(c, d, e, o, k, n)
  PROVE  NumberOf(d, e, T) + Gone(c[o][e].data, k, T)
           <= NumberOf(c, e, T) + Added(d[o][e].data, n, T)
<1> DEFINE S == PlacesOf(d, e, T)
           R == PlacesOf(c, e, T)
           g == <<o, n + 1>>
           l == <<o, IF k > 0 THEN 1 ELSE 0>>
           s == c[o][e].data
           t == d[o][e].data
           f == [x \in S \ {g} |-> IF x[1] = o THEN <<o, x[2] + k>> ELSE x]
<1>1. Len(s) \in Nat /\ Len(t) \in Nat
  BY CarriedIsNat
<1>2. IsFiniteSet(R)
  BY PlacesAreFinite
<1>0. ASSUME NEW m \in 1 .. n
      PROVE  t[m] = s[m + k] /\ m + k \in 1 .. Len(s)
  BY <1>1 DEF Shifts
<1>3. ASSUME NEW x \in S \ {g}
      PROVE  f[x] \in R \ {l}
  <2>1. /\ x \in Client \X Nat /\ x[2] \in 1 .. Len(d[x[1]][e].data)
        /\ d[x[1]][e].data[x[2]].type \in T
    BY <1>3 DEF PlacesOf
  <2>2. CASE x[1] = o
    <3>1. x[2] \in 1 .. Len(t) /\ x[2] # n + 1
      BY <1>3, <2>1, <2>2
    <3>2. x[2] \in 1 .. n
      BY <1>1, <3>1 DEF Shifts
    <3>3. t[x[2]] = s[x[2] + k] /\ x[2] + k \in 1 .. Len(s)
      BY <1>0, <3>2
    <3>4. <<o, x[2] + k>> \in R
      BY <2>1, <2>2, <3>3 DEF PlacesOf
    <3>5. <<o, x[2] + k>> # l
      BY <3>2
    <3> QED
      BY <2>2, <3>4, <3>5
  <2>3. CASE x[1] # o
    <3>1. d[x[1]][e].data = c[x[1]][e].data
      BY <2>1, <2>3 DEF Shifts
    <3>2. x \in R
      BY <2>1, <3>1 DEF PlacesOf
    <3> QED
      BY <2>3, <3>2
  <2> QED
    BY <2>2, <2>3
<1>4. f \in [S \ {g} -> R \ {l}]
  BY <1>3
<1>5. ASSUME NEW x \in S \ {g}, NEW y \in S \ {g}, f[x] = f[y]
      PROVE  x = y
  <2>1. x \in Client \X Nat /\ y \in Client \X Nat
    BY <1>5 DEF PlacesOf
  <2>2. x = <<x[1], x[2]>> /\ y = <<y[1], y[2]>> /\ x[2] \in Nat /\ y[2] \in Nat
    BY <2>1
  <2> QED
    BY <1>5, <2>2
<1>6. l \in R <=> k > 0 /\ s[1].type \in T
  <2>1. k > 0 => 1 \in 1 .. Len(s) /\ l = <<o, 1>>
    BY <1>1 DEF Shifts
  <2>2. ~(k > 0) => l = <<o, 0>> /\ 0 \notin 1 .. Len(s)
    BY <1>1
  <2>3. \A i \in {0, 1} : <<o, i>> \in R <=> i \in 1 .. Len(s) /\ s[i].type \in T
    BY DEF PlacesOf
  <2> HIDE DEF l, R
  <2> QED
    BY <2>1, <2>2, <2>3
<1>7. g \in S <=> Len(t) = n + 1 /\ t[n + 1].type \in T
  BY <1>1 DEF PlacesOf, Shifts
<1> HIDE DEF S, R, g, l, f
<1>8. f \in Injection(S \ {g}, R \ {l})
  BY <1>4, <1>5 DEF Injection, IsInjective
<1>9. Cardinality(S) + (IF l \in R THEN 1 ELSE 0) <= Cardinality(R) + (IF g \in S THEN 1 ELSE 0)
  BY <1>2, <1>8, SizeMoves
<1> QED
  BY <1>6, <1>7, <1>9 DEF S, R, NumberOf, One, Gone, Added

\* Where nothing is sent, and what was sent stays or is gone.
LEMMA SameNumber ==
  ASSUME NEW c \in [Client -> Connections(Messages)], NEW d \in [Client -> Connections(Messages)],
         NEW e \in Ends, NEW T, \A p \in Client : d[p][e].data \in {c[p][e].data, <<>>}
  PROVE  NumberOf(d, e, T) <= NumberOf(c, e, T)
<1>1. PlacesOf(d, e, T) \subseteq PlacesOf(c, e, T)
  BY DEF PlacesOf
<1> QED
  BY <1>1, PlacesAreFinite, FS_Subset DEF NumberOf

\* recv() takes the first message at least.
LEMMA ReceiveNumbers ==
  ASSUME NEW c \in [Client -> Connections(Messages)], NEW o \in Client, NEW e \in Ends,
         NEW r \in Received(c[o], e), NEW d, d = [c EXCEPT ![o] = r]
  PROVE  /\ d \in [Client -> Connections(Messages)]
         /\ \A T : NumberOf(d, e, T) <= NumberOf(c, e, T)
         /\ \A T : NumberOf(d, Peer(e), T) + One(Incoming(c[o], e).type, T) <= NumberOf(c, Peer(e), T)
<1> DEFINE p == Peer(e)
           s == c[o][p].data
<1>1. /\ r \in Connections(Messages) /\ r[e] = c[o][e]
      /\ \E k \in 1 .. Len(s) : r[p].data = SubSeq(s, k + 1, Len(s))
  BY ReceivedIsConnection
<1>2. p \in Ends
  BY PeerIsOther
<1>3. /\ d \in [Client -> Connections(Messages)] /\ d[o] = r
      /\ \A q \in Client \ {o} : d[q] = c[q]
  BY <1>1
<1>4. s \in Seq(Messages) /\ Len(s) \in Nat /\ c[o][e].data \in Seq(Messages)
      /\ Len(c[o][e].data) \in Nat
  BY <1>2, CarriedIsNat
<1>5. ASSUME NEW T
      PROVE  NumberOf(d, e, T) <= NumberOf(c, e, T)
  BY <1>1, <1>3, SameNumber
<1>6. ASSUME NEW T
      PROVE  NumberOf(d, p, T) + One(s[1].type, T) <= NumberOf(c, p, T)
  <2>1. PICK k \in 1 .. Len(s) : r[p].data = SubSeq(s, k + 1, Len(s))
    BY <1>1
  <2> DEFINE n == Len(s) - k
             t == d[o][p].data
  <2>2. k \in Nat /\ n \in Nat /\ k + n <= Len(s) /\ k > 0
    BY <1>4
  <2>3. Len(t) = n /\ \A x \in 1 .. n : t[x] = s[x + k]
    <3>1. t = SubSeq(s, k + 1, Len(s))
      BY <1>3, <2>1
    <3> HIDE DEF s
    <3> QED
      BY <1>4, <3>1, TailIsPart
  <2>4. Len(t) \in {n, n + 1} /\ Len(t) # n + 1
    BY <2>2, <2>3
  <2>5. \A q \in Client \ {o} : d[q][p].data \in {c[q][p].data, <<>>}
    BY <1>3
  <2>8. Shifts(c, d, p, o, k, n)
    BY <2>2, <2>3, <2>4, <2>5 DEF Shifts
  <2> HIDE DEF n, p
  <2>6. NumberOf(d, p, T) + Gone(c[o][p].data, k, T)
          <= NumberOf(c, p, T) + Added(d[o][p].data, n, T)
    BY <1>2, <1>3, <2>2, <2>8, NumberShifts
  <2>7. NumberOf(c, p, T) \in Nat
    BY <1>2, PlacesAreFinite
  <2> QED
    BY <2>2, <2>4, <2>6, <2>7 DEF Gone, Added, p, n
<1>7. Incoming(c[o], e) = s[1]
  BY <1>1, <1>4 DEF Incoming
<1> QED
  BY <1>3, <1>5, <1>6, <1>7

\* send() adds a message at most.
LEMMA SendNumbers ==
  ASSUME NEW c \in [Client -> Connections(Messages)], NEW o \in Client, NEW e \in Ends,
         NEW m \in Messages, NEW r \in Sent(c[o], e, m), NEW d, d = [c EXCEPT ![o] = r]
  PROVE  /\ d \in [Client -> Connections(Messages)]
         /\ \A T : NumberOf(d, e, T) <= NumberOf(c, e, T) + One(m.type, T)
         /\ \A T : NumberOf(d, Peer(e), T) <= NumberOf(c, Peer(e), T)
<1> DEFINE s == c[o][e].data
<1>1. /\ r \in Connections(Messages) /\ r[Peer(e)].data = c[o][Peer(e)].data
      /\ r[e].data \in {s, Append(s, m)}
  BY SentIsConnection
<1>2. Peer(e) \in Ends
  BY PeerIsOther
<1>3. /\ d \in [Client -> Connections(Messages)] /\ d[o] = r
      /\ \A q \in Client \ {o} : d[q] = c[q]
  BY <1>1
<1>4. s \in Seq(Messages) /\ Len(s) \in Nat
  BY CarriedIsNat
<1>5. ASSUME NEW T
      PROVE  NumberOf(d, Peer(e), T) <= NumberOf(c, Peer(e), T)
  BY <1>1, <1>2, <1>3, SameNumber
<1>6. ASSUME NEW T
      PROVE  NumberOf(d, e, T) <= NumberOf(c, e, T) + One(m.type, T)
  <2> DEFINE n == Len(s)
             t == d[o][e].data
  <2>1. NumberOf(c, e, T) \in Nat /\ One(m.type, T) \in {0, 1}
    BY PlacesAreFinite DEF One
  <2>2. CASE t = s
    <3>1. NumberOf(d, e, T) <= NumberOf(c, e, T)
      BY <1>3, <2>2, SameNumber
    <3>2. NumberOf(d, e, T) \in Nat
      BY <1>3, PlacesAreFinite
    <3> QED
      BY <2>1, <3>1, <3>2
  <2>3. CASE t = Append(s, m)
    <3>1. 0 \in Nat /\ n \in Nat /\ 0 + n <= Len(s) /\ Len(t) = n + 1 /\ t[n + 1] = m
      BY <1>4, <2>3
    <3>2. \A x \in 1 .. n : t[x] = s[x + 0]
      BY <1>4, <2>3
    <3>3. Len(t) \in {n, n + 1} /\ ~(0 > 0)
      BY <3>1
    <3>4. \A q \in Client \ {o} : d[q][e].data \in {c[q][e].data, <<>>}
      BY <1>3
    <3>7. Shifts(c, d, e, o, 0, n)
      BY <3>1, <3>2, <3>3, <3>4 DEF Shifts
    <3> HIDE DEF n
    <3>5. NumberOf(d, e, T) + Gone(c[o][e].data, 0, T)
            <= NumberOf(c, e, T) + Added(d[o][e].data, n, T)
      BY <1>3, <3>1, <3>7, NumberShifts
    <3>6. NumberOf(d, e, T) \in Nat
      BY <1>3, PlacesAreFinite
    <3> QED
      BY <2>1, <3>1, <3>3, <3>5, <3>6 DEF Gone, Added
  <2> QED
    BY <1>1, <1>3, <2>2, <2>3
<1> QED
  BY <1>3, <1>5, <1>6

\* close() adds none.
LEMMA CloseNumbers ==
  ASSUME NEW c \in [Client -> Connections(Messages)], NEW o \in Client, NEW e \in Ends,
         NEW r \in Closings(c[o], e), NEW d, d = [c EXCEPT ![o] = r]
  PROVE  /\ d \in [Client -> Connections(Messages)]
         /\ \A T : NumberOf(d, e, T) <= NumberOf(c, e, T)
         /\ \A T : NumberOf(d, Peer(e), T) <= NumberOf(c, Peer(e), T)
<1>1. /\ r \in Connections(Messages) /\ r[Peer(e)].data = <<>>
      /\ \E k \in 0 .. Len(c[o][e].data) : r[e].data = SubSeq(c[o][e].data, 1, k)
  BY ClosingsIsConnection
<1>2. Peer(e) \in Ends
  BY PeerIsOther
<1>3. /\ d \in [Client -> Connections(Messages)] /\ d[o] = r
      /\ \A q \in Client \ {o} : d[q] = c[q]
  BY <1>1
<1>4. ASSUME NEW T
      PROVE  NumberOf(d, Peer(e), T) <= NumberOf(c, Peer(e), T)
  BY <1>1, <1>2, <1>3, SameNumber
<1>5. ASSUME NEW T
      PROVE  NumberOf(d, e, T) <= NumberOf(c, e, T)
  <2> DEFINE s == c[o][e].data
             t == d[o][e].data
  <2>1. s \in Seq(Messages) /\ Len(s) \in Nat
    BY CarriedIsNat
  <2>2. PICK k \in 0 .. Len(s) : t = SubSeq(s, 1, k)
    BY <1>1, <1>3
  <2>3. /\ 0 \in Nat /\ k \in Nat /\ 0 + k <= Len(s) /\ Len(t) = k
        /\ \A x \in 1 .. k : t[x] = s[x + 0]
    BY <2>1, <2>2
  <2>4. Len(t) \in {k, k + 1} /\ ~(0 > 0) /\ Len(t) # k + 1
    BY <2>3
  <2>5. \A q \in Client \ {o} : d[q][e].data \in {c[q][e].data, <<>>}
    BY <1>3
  <2>8. Shifts(c, d, e, o, 0, k)
    BY <2>3, <2>4, <2>5 DEF Shifts
  <2>6. NumberOf(d, e, T) + Gone(c[o][e].data, 0, T)
          <= NumberOf(c, e, T) + Added(d[o][e].data, k, T)
    BY <1>3, <2>3, <2>8, NumberShifts
  <2>7. NumberOf(d, e, T) \in Nat /\ NumberOf(c, e, T) \in Nat
    BY <1>3, PlacesAreFinite
  <2> QED
    BY <2>4, <2>6, <2>7 DEF Gone, Added
<1> QED
  BY <1>3, <1>4, <1>5

\* The server has read messages of p, the first of them of type t, and answers m.
LEMMA AnswerNumbers ==
  ASSUME IInv, NEW i \in Fd, NEW t, NEW m \in Messages, Answer(i, t, m)
  PROVE  /\ \A T : Number("server", T)' <= Number("server", T) + One(m.type, T)
         /\ \A T : Number("client", T)' + One(t, T) <= Number("client", T)
<1> DEFINE o == fds[i]
<1>1. /\ o \in Client /\ conn \in [Client -> Connections(Messages)]
      /\ HasData(conn[o], "server") /\ Incoming(conn[o], "server").type = t
  BY ServedDescriptor DEF Answer, Link, IInv, TypeOK
<1>2. PICK c \in Received(conn[o], "server") : Send(o, c, m)
  BY DEF Answer, Link
<1> DEFINE b == [conn EXCEPT ![o] = c]
<1>3. /\ b \in [Client -> Connections(Messages)]
      /\ \A T : NumberOf(b, "server", T) <= NumberOf(conn, "server", T)
      /\ \A T : NumberOf(b, "client", T) + One(t, T) <= NumberOf(conn, "client", T)
  <2>1. Peer("server") = "client"
    BY ServerEnd
  <2> HIDE DEF b, o
  <2> QED
    BY <1>1, <2>1, ReceiveNumbers, ServerEnd DEF b
<1>4. ASSUME NEW T
      PROVE  /\ NumberOf(conn', "server", T) <= NumberOf(b, "server", T) + One(m.type, T)
             /\ NumberOf(conn', "client", T) <= NumberOf(b, "client", T)
             /\ NumberOf(conn', "server", T) \in Nat /\ NumberOf(conn', "client", T) \in Nat
  <2>1. CASE conn' \in {[conn EXCEPT ![o] = d] : d \in Sent(c, "server", m)}
    <3>1. PICK d \in Sent(c, "server", m) : conn' = [conn EXCEPT ![o] = d]
      BY <2>1
    <3>2. conn' = [b EXCEPT ![o] = d] /\ b[o] = c
      BY <1>1, <3>1
    <3> HIDE DEF b, o
    <3>3. /\ conn' \in [Client -> Connections(Messages)]
          /\ \A U : NumberOf(conn', "server", U) <= NumberOf(b, "server", U) + One(m.type, U)
          /\ \A U : NumberOf(conn', Peer("server"), U) <= NumberOf(b, Peer("server"), U)
      BY <1>1, <1>3, <3>1, <3>2, SendNumbers, ServerEnd
    <3> QED
      BY <3>3, PlacesAreFinite, ServerEnd, ClientEnd
  <2>2. CASE \E how \in [Client -> {"rst", "finrst"}] :
               conn' = [q \in Client |->
                          IF conn[q] = Idle THEN Idle
                          ELSE Closed(IF q = o THEN c ELSE conn[q], "server", how[q])]
    <3>1. PICK how \in [Client -> {"rst", "finrst"}] :
            conn' = [q \in Client |->
                       IF conn[q] = Idle THEN Idle
                       ELSE Closed(IF q = o THEN c ELSE conn[q], "server", how[q])]
      BY <2>2
    <3>2. ASSUME NEW q \in Client
          PROVE  /\ conn'[q] \in Connections(Messages)
                 /\ conn'[q]["server"].data \in {b[q]["server"].data, <<>>}
                 /\ conn'[q]["client"].data \in {b[q]["client"].data, <<>>}
      <4>1. b[q] = IF q = o THEN c ELSE conn[q]
        BY <1>1
      <4>2. CASE conn[q] = Idle
        BY <1>1, <3>1, <4>2, ServerEnd, ClientEnd DEF Idle
      <4>3. CASE conn[q] # Idle
        <5>1. conn'[q] = Closed(b[q], "server", how[q])
          BY <3>1, <4>1, <4>3
        <5>2. b[q] \in Connections(Messages) /\ how[q] \in {"rst", "finrst"}
          BY <1>3
        <5> QED
          BY <5>1, <5>2, ClosedIsConnection, ServerEnd
      <4> QED
        BY <4>2, <4>3
    <3>3. DOMAIN conn' = Client /\ conn' = [q \in DOMAIN conn' |-> conn'[q]]
      BY <3>1
    <3>4. conn' \in [Client -> Connections(Messages)]
      BY <3>2, <3>3
    <3> HIDE DEF b
    <3>5. /\ NumberOf(conn', "server", T) <= NumberOf(b, "server", T)
          /\ NumberOf(conn', "client", T) <= NumberOf(b, "client", T)
      BY <1>3, <3>2, <3>4, SameNumber, ServerEnd, ClientEnd
    <3>6. /\ NumberOf(conn', "server", T) \in Nat /\ NumberOf(conn', "client", T) \in Nat
          /\ NumberOf(b, "server", T) \in Nat
      BY <1>3, <3>4, PlacesAreFinite, ServerEnd, ClientEnd
    <3> QED
      BY <3>5, <3>6 DEF One
  <2> QED
    BY <1>2, <2>1, <2>2 DEF Send
<1>5. ASSUME NEW T
      PROVE  /\ NumberOf(conn', "server", T) <= NumberOf(conn, "server", T) + One(m.type, T)
             /\ NumberOf(conn', "client", T) + One(t, T) <= NumberOf(conn, "client", T)
  <2>1. /\ NumberOf(b, "server", T) \in Nat /\ NumberOf(b, "client", T) \in Nat
        /\ NumberOf(conn, "server", T) \in Nat /\ NumberOf(conn, "client", T) \in Nat
    BY <1>1, <1>3, PlacesAreFinite, ServerEnd, ClientEnd
  <2>2. One(t, T) \in {0, 1} /\ One(m.type, T) \in {0, 1}
    BY DEF One
  <2>3. /\ NumberOf(conn', "server", T) \in Nat /\ NumberOf(conn', "client", T) \in Nat
        /\ NumberOf(conn', "server", T) <= NumberOf(b, "server", T) + One(m.type, T)
        /\ NumberOf(conn', "client", T) <= NumberOf(b, "client", T)
        /\ NumberOf(b, "server", T) <= NumberOf(conn, "server", T)
        /\ NumberOf(b, "client", T) + One(t, T) <= NumberOf(conn, "client", T)
    BY <1>3, <1>4
  <2>4. \A x, y, z \in Nat : \A u \in {0, 1} :
          /\ x <= y + u /\ y <= z => x <= z + u
          /\ x <= y /\ y + u <= z => x + u <= z
    OBVIOUS
  <2> HIDE DEF b
  <2> QED
    BY <2>1, <2>2, <2>3, <2>4
<1> QED
  BY <1>5 DEF Number

\* A step that answers nobody sends no more than a RES_ADD or an ERROR(01), and takes
\* nothing back.
LEMMA LoopNumbers ==
  ASSUME IInv, Select \/ AcceptFails \/ Refuse \/ Admit \/ Disconnect \/ ReceiveError,
         NEW T, "RES_ADD" \notin T, "ERROR(01)" \notin T
  PROVE  /\ Number("server", T)' <= Number("server", T)
         /\ Number("client", T)' <= Number("client", T)
         /\ UNCHANGED history
<1>1. UNCHANGED history
  BY DEF Select, AcceptFails, Refuse, Admit, Disconnect, ReceiveError, DropConnection
<1>2. /\ conn \in [Client -> Connections(Messages)]
      /\ Number("server", T) \in Nat /\ Number("client", T) \in Nat
  BY PlacesAreFinite, ServerEnd, ClientEnd DEF IInv, TypeOK, Number
<1>3. CASE Select \/ AcceptFails
  <2>1. conn' = conn
    BY <1>3 DEF Select, AcceptFails
  <2> QED
    BY <1>1, <1>2, <2>1 DEF Number
<1>4. ASSUME NEW m \in Messages, m.type \notin T, Serving(server_socket),
             NEW o, o = Head(backlog),
             NEW c \in Sent(conn[o], "server", m), NEW d, d = [conn EXCEPT ![o] = c]
      PROVE  /\ d \in [Client -> Connections(Messages)] /\ o \in Client
             /\ NumberOf(d, "server", T) <= Number("server", T)
             /\ NumberOf(d, "client", T) <= Number("client", T)
  <2>1. o \in Client
    BY <1>4, HeadOfBacklog
  <2>2. /\ d \in [Client -> Connections(Messages)]
        /\ NumberOf(d, "server", T) <= NumberOf(conn, "server", T) + One(m.type, T)
        /\ NumberOf(d, "client", T) <= NumberOf(conn, "client", T)
    BY <1>2, <1>4, <2>1, SendNumbers, ServerEnd
  <2>3. NumberOf(d, "server", T) \in Nat
    BY <2>2, PlacesAreFinite, ServerEnd
  <2> QED
    BY <1>2, <1>4, <2>1, <2>2, <2>3 DEF One, Number
<1>5. CASE Admit
  <2> DEFINE m == Msg("RES_ADD", <<next_client_id>>)
  <2>1. m \in Messages /\ m.type \notin T
    <3>1. next_client_id \in Int /\ "RES_ADD" \in ResponseTypes
      BY DEF IInv, TypeOK, ResponseTypes
    <3> QED
      BY <3>1, MessageTypes DEF Msg
  <2> HIDE DEF m
  <2>2. PICK o : o = Head(backlog)
    OBVIOUS
  <2>3. PICK c \in Sent(conn[o], "server", m) : conn' = [conn EXCEPT ![o] = c]
    BY <1>5, <2>2 DEF Admit, m
  <2>4. Serving(server_socket)
    BY <1>5 DEF Admit
  <2>5. /\ NumberOf(conn', "server", T) <= Number("server", T)
        /\ NumberOf(conn', "client", T) <= Number("client", T)
    BY <1>4, <2>1, <2>2, <2>3, <2>4
  <2> QED
    BY <1>1, <2>5 DEF Number
<1>6. CASE Refuse
  <2> DEFINE m == Msg("ERROR(01)", <<>>)
  <2>1. m \in Messages /\ m.type \notin T
    BY MessageTypes DEF ResponseTypes, Msg
  <2>2. PICK o : o = Head(backlog)
    OBVIOUS
  <2>3. PICK c \in Sent(conn[o], "server", m) :
          conn' \in {[conn EXCEPT ![o] = d] : d \in Closings(c, "server")}
    BY <1>6, <2>2 DEF Refuse
  <2>4. PICK d \in Closings(c, "server") : conn' = [conn EXCEPT ![o] = d]
    BY <2>3
  <2> HIDE DEF m
  <2> DEFINE b == [conn EXCEPT ![o] = c]
  <2>5. Serving(server_socket)
    BY <1>6 DEF Refuse
  <2>6. /\ b \in [Client -> Connections(Messages)] /\ o \in Client
        /\ NumberOf(b, "server", T) <= Number("server", T)
        /\ NumberOf(b, "client", T) <= Number("client", T)
    BY <1>4, <2>1, <2>2, <2>3, <2>5
  <2>7. conn' = [b EXCEPT ![o] = d] /\ b[o] = c
    BY <1>2, <2>4, <2>6
  <2> HIDE DEF b
  <2>8. /\ conn' \in [Client -> Connections(Messages)]
        /\ NumberOf(conn', "server", T) <= NumberOf(b, "server", T)
        /\ NumberOf(conn', "client", T) <= NumberOf(b, "client", T)
    BY <2>4, <2>6, <2>7, CloseNumbers, ServerEnd
  <2>9. /\ NumberOf(conn', "server", T) \in Nat /\ NumberOf(conn', "client", T) \in Nat
        /\ NumberOf(b, "server", T) \in Nat /\ NumberOf(b, "client", T) \in Nat
    BY <2>6, <2>8, PlacesAreFinite, ServerEnd, ClientEnd
  <2>10. \A x, y, z \in Nat : x <= y /\ y <= z => x <= z
    OBVIOUS
  <2>11. /\ NumberOf(conn', "server", T) <= Number("server", T)
         /\ NumberOf(conn', "client", T) <= Number("client", T)
    BY <1>2, <2>6, <2>8, <2>9, <2>10
  <2> QED
    BY <1>1, <2>11 DEF Number
<1>7. CASE Disconnect \/ ReceiveError
  <2>1. PICK i \in Fd : Serving(i) /\ DropConnection(i)
    BY <1>7 DEF Disconnect, ReceiveError
  <2>2. PICK o : o = fds[i]
    OBVIOUS
  <2>3. o \in Client
    BY <2>1, <2>2, ServedDescriptor
  <2>4. PICK d \in Closings(conn[o], "server") : conn' = [conn EXCEPT ![o] = d]
    BY <2>1, <2>2 DEF DropConnection, CloseFd, Link
  <2>5. /\ NumberOf(conn', "server", T) <= NumberOf(conn, "server", T)
        /\ NumberOf(conn', "client", T) <= NumberOf(conn, "client", T)
    BY <1>2, <2>3, <2>4, CloseNumbers, ServerEnd
  <2> QED
    BY <1>1, <2>5 DEF Number
<1> QED
  BY <1>3, <1>5, <1>6, <1>7

\* The requests that make SCII add a value to its history.
Turns == {"REQ_UP", "REQ_DOWN"}

\* Until the history is full: every value that SE adds to its own is reported by a
\* message with the state of the production, and every value that SCII adds to its
\* own takes a request for it away.
LEMMA ServerStepNumbers ==
  ASSUME XInv, ServerStep, history_index < HISTORY_SIZE
  PROVE  /\ Number("server", StatusTypes)' + history_index
              <= Number("server", StatusTypes) + history_index'
         /\ server_type = "SCII" =>
              Number("client", Turns)' + history_index' <= Number("client", Turns) + history_index
<1>1. /\ IInv /\ history_index \in Nat
      /\ Number("server", StatusTypes) \in Nat /\ Number("client", Turns) \in Nat
  BY PlacesAreFinite, ServerEnd, ClientEnd DEF XInv, TInv, IInv, TypeOK, Number
<1>2. /\ Number("server", StatusTypes)' \in Nat /\ Number("client", Turns)' \in Nat
  <2>1. IInv'
    BY <1>1, NextIInv DEF Next
  <2> QED
    BY <2>1, PlacesAreFinite, ServerEnd, ClientEnd DEF IInv, TypeOK, Number
<1>3. \A v : AddValue(v) => history_index' = history_index + 1
  BY DEF AddValue
<1>4. CASE Select \/ AcceptFails \/ Refuse \/ Admit \/ Disconnect \/ ReceiveError
  <2>1. UNCHANGED history /\ Number("server", StatusTypes)' <= Number("server", StatusTypes)
    <3>1. "RES_ADD" \notin StatusTypes /\ "ERROR(01)" \notin StatusTypes
      BY DEF StatusTypes
    <3> QED
      BY <1>1, <1>4, <3>1, LoopNumbers
  <2>2. Number("client", Turns)' <= Number("client", Turns)
    <3>1. "RES_ADD" \notin Turns /\ "ERROR(01)" \notin Turns
      BY DEF Turns
    <3> QED
      BY <1>1, <1>4, <3>1, LoopNumbers
  <2> QED
    BY <1>1, <1>2, <2>1, <2>2 DEF history
<1>5. ASSUME NEW i \in Fd, NEW t, NEW m \in Messages, Answer(i, t, m)
      PROVE  /\ Number("server", StatusTypes)' <= Number("server", StatusTypes) + One(m.type, StatusTypes)
             /\ Number("client", Turns)' + One(t, Turns) <= Number("client", Turns)
             /\ t \in Requests \union {"REQ_REM"}
  <2>1. \A T : /\ Number("server", T)' <= Number("server", T) + One(m.type, T)
               /\ Number("client", T)' + One(t, T) <= Number("client", T)
    BY <1>1, <1>5, AnswerNumbers
  <2>2. t \in Requests \union {"REQ_REM"}
    <3> DEFINE p == fds[i]
               s == conn[p]["client"].data
    <3>1. p \in Client /\ Link(i) = conn[p] /\ HasData(conn[p], "server")
      BY <1>1, <1>5, ServedDescriptor DEF Answer, Link
    <3>2. s \in Seq(Messages) /\ s # <<>> /\ Incoming(conn[p], "server") = Head(s)
      BY <1>1, <3>1, CountsAreNat, ServerEnd DEF IInv, TypeOK, HasData, Incoming
    <3>3. 1 \in 1 .. Len(s) /\ s[1].type = t
      BY <1>5, <3>1, <3>2 DEF Answer
    <3>4. Polite(p)
      BY <3>1 DEF XInv
    <3> QED
      BY <3>3, <3>4 DEF Polite
  <2> QED
    BY <2>1, <2>2
<1>6. ASSUME NEW i \in Fd, NEW t, NEW m \in Messages, Answer(i, t, m), UNCHANGED history,
             m.type \notin StatusTypes
      PROVE  /\ Number("server", StatusTypes)' + history_index
                  <= Number("server", StatusTypes) + history_index'
             /\ Number("client", Turns)' + history_index' <= Number("client", Turns) + history_index
  <2>1. /\ Number("server", StatusTypes)' <= Number("server", StatusTypes) + 0
        /\ Number("client", Turns)' + One(t, Turns) <= Number("client", Turns)
        /\ One(t, Turns) \in {0, 1} /\ history_index' = history_index
    BY <1>5, <1>6 DEF One, history
  <2> QED
    BY <1>1, <1>2, <2>1
<1>7. latest \in Int
  BY <1>1, LevelsAreNumbers DEF IInv, TypeOK
<1>8. CASE Remove \/ RemoveUnknown
  <2> DEFINE m == Msg("OK(01)", <<>>)
             n == Msg("ERROR(02)", <<>>)
  <2>1. m \in Messages /\ n \in Messages /\ m.type \notin StatusTypes /\ n.type \notin StatusTypes
    BY MessageTypes DEF ResponseTypes, StatusTypes, Msg
  <2>2. PICK i \in Fd : Answer(i, "REQ_REM", m) \/ Answer(i, "REQ_REM", n)
    BY <1>8 DEF Remove, RemoveUnknown
  <2>3. UNCHANGED history
    BY <1>8 DEF Remove, RemoveUnknown
  <2> HIDE DEF m, n
  <2> QED
    BY <1>6, <2>1, <2>2, <2>3
<1>9. CASE Info \/ None
  <2> DEFINE m == Msg("RES_INFOSE", <<latest>>)
             n == Msg("RES_INFOSCII", <<latest>>)
             k == Msg("RES_NONE", <<latest>>)
  <2>1. /\ m \in Messages /\ n \in Messages /\ k \in Messages
        /\ m.type \notin StatusTypes /\ n.type \notin StatusTypes /\ k.type \notin StatusTypes
    BY <1>7, MessageTypes DEF ResponseTypes, StatusTypes, Msg
  <2>2. PICK i \in Fd : \/ Answer(i, "REQ_INFOSE", m) \/ Answer(i, "REQ_INFOSCII", n)
                        \/ Answer(i, "REQ_NONE", k)
    BY <1>9 DEF Info, None
  <2>3. UNCHANGED history
    BY <1>9 DEF Info, None
  <2> HIDE DEF m, n, k
  <2> QED
    BY <1>6, <2>1, <2>2, <2>3
<1>10. CASE Echo
  <2>1. PICK i \in Fd :
          /\ HasData(Link(i), "server") /\ UNCHANGED history
          /\ Answer(i, Incoming(Link(i), "server").type, Incoming(Link(i), "server"))
    BY <1>10 DEF Echo
  <2> DEFINE m == Incoming(Link(i), "server")
  <2>2. m \in Messages
    <3>1. Link(i) \in Connections(Messages)
      BY <1>1, <2>1, ServedDescriptor DEF Answer
    <3> QED
      BY <2>1, <3>1, IncomingIsMessage
  <2> HIDE DEF m
  <2>3. Answer(i, m.type, m)
    BY <2>1 DEF m
  <2>4. m.type \in Requests \union {"REQ_REM"}
    BY <1>5, <2>2, <2>3
  <2>5. m.type \notin StatusTypes
    BY <2>4, ServerAssumption DEF RequestTypes, StatusTypes
  <2> QED
    BY <1>6, <2>1, <2>2, <2>3, <2>5
<1>11. CASE Status
  <2> DEFINE m == RES_STATUS(latest)
  <2>1. m \in Messages
    BY MessageTypes DEF ResponseTypes, StatusTypes, RES_STATUS
  <2>2. PICK i \in Fd : Answer(i, "REQ_STATUS", m) /\ \E v \in Levels : AddValue(v)
    BY <1>11 DEF Status
  <2>3. server_type # "SCII" /\ history_index' = history_index + 1
    BY <1>3, <1>11, <2>2 DEF Status
  <2> HIDE DEF m
  <2>4. /\ Number("server", StatusTypes)' <= Number("server", StatusTypes) + One(m.type, StatusTypes)
        /\ One(m.type, StatusTypes) \in {0, 1}
    BY <1>5, <2>1, <2>2 DEF One
  <2> QED
    BY <1>1, <1>2, <2>3, <2>4
<1>12. CASE Up \/ Down
  <2>1. PICK i \in Fd, v \in Levels, t \in {"RES_UP", "RES_DOWN"}, r \in Turns :
          Answer(i, r, Msg(t, <<latest, v>>)) /\ AddValue(v)
    BY <1>12 DEF Up, Down, Turns
  <2> DEFINE m == Msg(t, <<latest, v>>)
  <2>2. m \in Messages /\ m.type \notin StatusTypes
    BY <1>7, LevelsAreNumbers, MessageTypes DEF ResponseTypes, StatusTypes, Msg
  <2>3. Answer(i, r, m) /\ history_index' = history_index + 1
    BY <1>3, <2>1
  <2> HIDE DEF m
  <2>4. /\ Number("server", StatusTypes)' <= Number("server", StatusTypes) + 0
        /\ Number("client", Turns)' + 1 <= Number("client", Turns)
    BY <1>5, <2>2, <2>3 DEF One
  <2> QED
    BY <1>1, <1>2, <2>3, <2>4
<1> QED
  BY <1>4, <1>8, <1>9, <1>10, <1>11, <1>12 DEF ServerStep

\* At first there are none.
LEMMA NoneAtFirst ==
  ASSUME Init, NEW e \in Ends, NEW T
  PROVE  Number(e, T) = 0
<1>1. \A p \in Client : Len(conn[p][e].data) = 0
  BY Len(<<>>) = 0 DEF Init, Idle
<1>2. \A x \in Nat : x \notin 1 .. 0
  OBVIOUS
<1>3. PlacesOf(conn, e, T) = {}
  BY <1>1, <1>2 DEF PlacesOf
<1> QED
  BY <1>3, FS_EmptySet DEF Number, NumberOf

\* A step leaves the history alone, and no more messages of types T than there were.
NoMore(T) ==
  /\ Number("server", T)' <= Number("server", T)
  /\ Number("client", T)' <= Number("client", T)
  /\ UNCHANGED history

\* connect() and recv().
LEMMA ReadingNumbers ==
  ASSUME IInv, NEW p \in Client, PeerConnect(p) \/ PeerReceive(p), NEW T
  PROVE  /\ NoMore(T)
         /\ PeerReceive(p) /\ HasData(conn[p], "client") =>
              Number("server", T)' + One(Incoming(conn[p], "client").type, T) <= Number("server", T)
<1>1. conn \in [Client -> Connections(Messages)] /\ "client" \in Ends /\ "server" \in Ends
  BY ServerEnd, ClientEnd DEF IInv, TypeOK
<1>2. UNCHANGED history
  BY DEF PeerConnect, PeerReceive
<1>3. CASE PeerReceive(p) /\ HasData(conn[p], "client")
  <2>1. PICK r \in Received(conn[p], "client") : conn' = [conn EXCEPT ![p] = r]
    BY <1>3 DEF PeerReceive, PeerReads
  <2>2. /\ NumberOf(conn', "client", T) <= NumberOf(conn, "client", T)
        /\ NumberOf(conn', "server", T) + One(Incoming(conn[p], "client").type, T)
             <= NumberOf(conn, "server", T)
        /\ conn' \in [Client -> Connections(Messages)]
    BY <1>1, <2>1, ReceiveNumbers, ClientEnd
  <2>3. NumberOf(conn', "server", T) \in Nat /\ NumberOf(conn, "server", T) \in Nat
    BY <1>1, <2>2, PlacesAreFinite
  <2>4. One(Incoming(conn[p], "client").type, T) \in {0, 1}
    BY DEF One
  <2>5. \A x, y \in Nat : \A u \in {0, 1} : x + u <= y => x <= y
    OBVIOUS
  <2>6. NumberOf(conn', "server", T) <= NumberOf(conn, "server", T)
    BY <2>2, <2>3, <2>4, <2>5
  <2> QED
    BY <1>2, <2>2, <2>6 DEF NoMore, Number
<1>4. CASE ~(PeerReceive(p) /\ HasData(conn[p], "client"))
  <2>1. PICK r \in Connections(Messages) :
          /\ conn' = [conn EXCEPT ![p] = r]
          /\ \A e \in Ends : r[e].data \in {conn[p][e].data, <<>>}
    <3>1. CASE PeerConnect(p)
      <4>1. Established \in Connections(Messages) /\ \A e \in Ends : Established[e].data = <<>>
        BY DEF Established, Connections, StreamStates
      <4> QED
        BY <3>1, <4>1 DEF PeerConnect
    <3>2. CASE PeerReceive(p)
      <4>1. /\ conn[p] \in Connections(Messages) /\ ~HasData(conn[p], "client")
            /\ "broken" \in StreamStates /\ Peer("client") \in Ends
        BY <1>1, <1>4, <3>2, ClientEnd DEF StreamStates
      <4>2. /\ ErrorReturned(conn[p], "client") \in Connections(Messages)
            /\ \A e \in Ends : ErrorReturned(conn[p], "client")[e].data = conn[p][e].data
        <5>1. /\ SetEnd(conn[p], "server", "broken") \in Connections(Messages)
              /\ SetEnd(conn[p], "server", "broken")["client"] = conn[p]["client"]
              /\ SetEnd(conn[p], "server", "broken")["server"].data = conn[p]["server"].data
          BY <4>1, SetEndIsConnection, ServerEnd
        <5>2. \A e \in Ends : e = "client" \/ e = "server"
          BY DEF Ends
        <5> QED
          BY <5>1, <5>2, ClientEnd DEF ErrorReturned
      <4> QED
        BY <3>2, <4>1, <4>2 DEF PeerReceive, PeerReads
    <3> QED
      BY <3>1, <3>2
  <2>2. /\ conn' \in [Client -> Connections(Messages)]
        /\ \A q \in Client : \A e \in Ends : conn'[q][e].data \in {conn[q][e].data, <<>>}
    BY <1>1, <2>1
  <2>3. /\ NumberOf(conn', "server", T) <= NumberOf(conn, "server", T)
        /\ NumberOf(conn', "client", T) <= NumberOf(conn, "client", T)
    BY <1>1, <2>2, SameNumber
  <2> QED
    BY <1>2, <1>4, <2>3 DEF NoMore, Number
<1> QED
  BY <1>3, <1>4

\* send().
LEMMA SendingNumbers ==
  ASSUME IInv, NEW p \in Client, NEW m \in Messages, PeerSends(p, m), NEW T
  PROVE  /\ m.type \notin T => NoMore(T)
         /\ Number("client", T)' <= Number("client", T) + 1
         /\ UNCHANGED history
<1>1. conn \in [Client -> Connections(Messages)] /\ "client" \in Ends /\ "server" \in Ends
  BY ServerEnd, ClientEnd DEF IInv, TypeOK
<1>2. PICK r \in Sent(conn[p], "client", m) : conn' = [conn EXCEPT ![p] = r]
  BY DEF PeerSends
<1>3. UNCHANGED history
  BY DEF PeerSends
<1>4. /\ NumberOf(conn', "client", T) <= NumberOf(conn, "client", T) + One(m.type, T)
      /\ NumberOf(conn', "server", T) <= NumberOf(conn, "server", T)
      /\ conn' \in [Client -> Connections(Messages)]
  BY <1>1, <1>2, SendNumbers, ClientEnd
<1>5. NumberOf(conn', "client", T) \in Nat /\ NumberOf(conn, "client", T) \in Nat
  BY <1>1, <1>4, PlacesAreFinite
<1>6. CASE m.type \in T
  BY <1>3, <1>4, <1>5, <1>6 DEF One, Number
<1>7. CASE m.type \notin T
  BY <1>3, <1>4, <1>5, <1>7 DEF One, Number, NoMore
<1> QED
  BY <1>6, <1>7

\* close().
LEMMA ClosingNumbers ==
  ASSUME IInv, NEW p \in Client, NEW c, PeerCloses(p, c), NEW T,
         \/ c \in {conn[p]} \union Received(conn[p], "client")
         \/ \E m \in Messages : m.type \notin T /\ c \in Sent(conn[p], "client", m)
  PROVE  NoMore(T)
<1>1. conn \in [Client -> Connections(Messages)] /\ "client" \in Ends /\ "server" \in Ends
  BY ServerEnd, ClientEnd DEF IInv, TypeOK
<1>2. PICK r \in Closings(c, "client") : conn' = [conn EXCEPT ![p] = r]
  BY DEF PeerCloses
<1>3. UNCHANGED history
  BY DEF PeerCloses
<1> DEFINE b == [conn EXCEPT ![p] = c]
<1>4. /\ b \in [Client -> Connections(Messages)]
      /\ NumberOf(b, "server", T) <= NumberOf(conn, "server", T)
      /\ NumberOf(b, "client", T) <= NumberOf(conn, "client", T)
  <2>1. CASE c = conn[p]
    <3>1. b = conn
      BY <1>1, <2>1
    <3>2. \A q \in Client : \A e \in Ends : b[q][e].data \in {conn[q][e].data, <<>>}
      BY <3>1
    <3> HIDE DEF b
    <3> QED
      BY <1>1, <3>1, <3>2, SameNumber
  <2>2. CASE c \in Received(conn[p], "client")
    <3> HIDE DEF b
    <3>1. /\ b \in [Client -> Connections(Messages)]
          /\ NumberOf(b, "client", T) <= NumberOf(conn, "client", T)
          /\ NumberOf(b, "server", T) + One(Incoming(conn[p], "client").type, T)
               <= NumberOf(conn, "server", T)
      BY <1>1, <2>2, ReceiveNumbers, ClientEnd DEF b
    <3>2. NumberOf(b, "server", T) \in Nat /\ NumberOf(conn, "server", T) \in Nat
      BY <1>1, <3>1, PlacesAreFinite
    <3>3. One(Incoming(conn[p], "client").type, T) \in {0, 1}
      BY DEF One
    <3>4. \A x, y \in Nat : \A u \in {0, 1} : x + u <= y => x <= y
      OBVIOUS
    <3> QED
      BY <3>1, <3>2, <3>3, <3>4
  <2>3. CASE \E m \in Messages : m.type \notin T /\ c \in Sent(conn[p], "client", m)
    <3>1. PICK m \in Messages : m.type \notin T /\ c \in Sent(conn[p], "client", m)
      BY <2>3
    <3> HIDE DEF b
    <3>2. /\ b \in [Client -> Connections(Messages)]
          /\ NumberOf(b, "client", T) <= NumberOf(conn, "client", T) + One(m.type, T)
          /\ NumberOf(b, "server", T) <= NumberOf(conn, "server", T)
      BY <1>1, <3>1, SendNumbers, ClientEnd DEF b
    <3>3. One(m.type, T) = 0 /\ NumberOf(conn, "client", T) \in Nat
      BY <1>1, <3>1, PlacesAreFinite DEF One
    <3> QED
      BY <3>2, <3>3
  <2> QED
    BY <2>1, <2>2, <2>3
<1>5. conn' = [b EXCEPT ![p] = r] /\ b[p] = c
  BY <1>1, <1>2
<1> HIDE DEF b
<1>6. /\ conn' \in [Client -> Connections(Messages)]
      /\ NumberOf(conn', "client", T) <= NumberOf(b, "client", T)
      /\ NumberOf(conn', "server", T) <= NumberOf(b, "server", T)
  BY <1>1, <1>2, <1>4, <1>5, CloseNumbers, ClientEnd
<1>7. /\ NumberOf(conn', "server", T) \in Nat /\ NumberOf(conn', "client", T) \in Nat
      /\ NumberOf(b, "server", T) \in Nat /\ NumberOf(b, "client", T) \in Nat
      /\ NumberOf(conn, "server", T) \in Nat /\ NumberOf(conn, "client", T) \in Nat
  BY <1>1, <1>4, <1>6, PlacesAreFinite
<1>8. \A x, y, z \in Nat : x <= y /\ y <= z => x <= z
  OBVIOUS
<1>9. /\ NumberOf(conn', "server", T) <= NumberOf(conn, "server", T)
      /\ NumberOf(conn', "client", T) <= NumberOf(conn, "client", T)
  BY <1>4, <1>6, <1>7, <1>8
<1> QED
  BY <1>3, <1>9 DEF NoMore, Number

-----------------------------------------------------------------------------
(* The reports of SCII: each one, and the history they tell a client alone.  *)

ReportTypes == {"RES_INFOSCII", "RES_UP", "RES_NONE", "RES_DOWN"}

\* The reports of a sequence to which a message is added.
LEMMA ReportsOfAppend ==
  ASSUME NEW s \in Seq(Messages), NEW m \in Messages
  PROVE  /\ \A k \in 1 .. Len(s) : Append(s, m)[k] = s[k]
         /\ Append(s, m)[Len(s) + 1] = m /\ Len(s) \in Nat
         /\ m.type \notin ReportTypes => Reports(Append(s, m)) = Reports(s)
         /\ m.type \in ReportTypes =>
              Reports(Append(s, m)) = Reports(s) \union {Len(s) + 1}
<1> DEFINE t == Append(s, m)
           n == Len(s)
<1>1. /\ n \in Nat /\ Len(t) = n + 1 /\ t[n + 1] = m
      /\ \A k \in 1 .. n : t[k] = s[k]
  OBVIOUS
<1>2. /\ \A k : k \in 1 .. n + 1 <=> k \in 1 .. n \/ k = n + 1
      /\ n + 1 \notin 1 .. n
  BY <1>1
<1> HIDE DEF t, n
<1>3. \A k : k \in Reports(t) <=> k \in 1 .. n + 1 /\ t[k].type \in ReportTypes
  BY <1>1 DEF Reports, ReportTypes
<1>4. \A k : k \in Reports(s) <=> k \in 1 .. n /\ s[k].type \in ReportTypes
  BY DEF Reports, ReportTypes, n
<1>5. ASSUME m.type \notin ReportTypes
      PROVE  Reports(t) = Reports(s)
  <2>1. ASSUME NEW k PROVE k \in Reports(t) <=> k \in Reports(s)
    BY <1>1, <1>2, <1>3, <1>4, <1>5
  <2> QED
    BY <2>1
<1>6. ASSUME m.type \in ReportTypes
      PROVE  Reports(t) = Reports(s) \union {n + 1}
  <2>1. ASSUME NEW k PROVE k \in Reports(t) <=> k \in Reports(s) \union {n + 1}
    BY <1>1, <1>2, <1>3, <1>4, <1>6
  <2> QED
    BY <2>1
<1> QED
  BY <1>1, <1>5, <1>6 DEF t, n

\* The reports of a sequence are sound one by one.
Sound(s) == \A k \in Reports(s) : SoundReport(s[k])

\* Another message, sound if it is a report, leaves them so.
LEMMA SoundGrows ==
  ASSUME NEW s \in Seq(Messages), NEW m \in Messages, Sound(s),
         m.type \in ReportTypes => SoundReport(m)
  PROVE  Sound(Append(s, m))
<1> DEFINE t == Append(s, m)
<1>1. /\ Reports(t) = IF m.type \in ReportTypes THEN Reports(s) \union {Len(s) + 1} ELSE Reports(s)
      /\ t[Len(s) + 1] = m /\ \A k \in Reports(s) : t[k] = s[k]
  BY ReportsOfAppend DEF Reports
<1> HIDE DEF t
<1>2. Sound(t)
  BY <1>1 DEF Sound
<1> QED
  BY <1>2 DEF t

\* Where nothing is reported, any value will do.
LEMMA NoneTellsAny == ASSUME NEW s, NEW v, Reports(s) = {} PROVE OneHistory(s, v)
  BY DEF OneHistory

\* Another message changes nothing.
LEMMA HistoryStays ==
  ASSUME NEW s \in Seq(Messages), NEW m \in Messages, NEW v, OneHistory(s, v),
         m.type \notin ReportTypes
  PROVE  OneHistory(Append(s, m), v)
<1> DEFINE t == Append(s, m)
<1>1. Reports(t) = Reports(s) /\ \A k \in Reports(s) : t[k] = s[k]
  BY ReportsOfAppend DEF Reports
<1> HIDE DEF t
<1>2. OneHistory(t, v)
  BY <1>1 DEF OneHistory, IsFirst
<1> QED
  BY <1>2 DEF t

\* A report that starts where the history ended takes it on.
LEMMA HistoryGrows ==
  ASSUME NEW s \in Seq(Messages), NEW m \in Messages, OneHistory(s, Before(m)),
         m.type \in ReportTypes
  PROVE  OneHistory(Append(s, m), After(m))
<1> DEFINE t == Append(s, m)
           n == Len(s)
<1>1. /\ Reports(t) = Reports(s) \union {n + 1} /\ n \in Nat /\ t[n + 1] = m
      /\ \A k \in Reports(s) : t[k] = s[k] /\ k \in Int /\ k < n + 1
  BY ReportsOfAppend DEF Reports
<1> HIDE DEF t, n
<1>2. ASSUME NEW k \in Reports(t), NEW later, later = {j \in Reports(t) : j > k}
      PROVE  /\ later = {} => After(t[k]) = After(m)
             /\ \A j \in later : IsFirst(j, later) => After(t[k]) = Before(t[j])
  <2>1. CASE k = n + 1
    <3>1. later = {}
      <4>1. \A j \in Reports(t) : ~(j > k)
        <5>1. \A j \in Reports(s) : j \in Int /\ j < n + 1
          BY <1>1
        <5>2. \A j \in Int : j < n + 1 => ~(j > n + 1)
          BY <1>1
        <5>3. ~(n + 1 > n + 1)
          BY <1>1
        <5> QED
          BY <1>1, <2>1, <5>1, <5>2, <5>3
      <4> QED
        BY <1>2, <4>1
    <3> QED
      BY <1>1, <2>1, <3>1
  <2>2. CASE k \in Reports(s)
    <3> DEFINE before == {j \in Reports(s) : j > k}
    <3>1. t[k] = s[k] /\ later = before \union {n + 1}
      BY <1>1, <1>2, <2>2
    <3>2. /\ before = {} => After(s[k]) = Before(m)
          /\ \A j \in before : IsFirst(j, before) => After(s[k]) = Before(s[j])
      BY <2>2 DEF OneHistory
    <3>3. \A j \in before : t[j] = s[j] /\ j \in Int /\ j < n + 1
      BY <1>1
    <3> HIDE DEF before
    <3>4. ASSUME NEW j \in later, IsFirst(j, later)
          PROVE  After(t[k]) = Before(t[j])
      <4>1. CASE j \in before
        <5>1. IsFirst(j, before)
          BY <3>1, <3>4, <4>1 DEF IsFirst
        <5> QED
          BY <3>1, <3>2, <3>3, <4>1, <5>1
      <4>2. CASE j \notin before
        <5>1. j = n + 1
          BY <3>1, <4>2
        <5>2. before = {}
          <6>1. \A i \in before : n + 1 <= i
            BY <3>1, <3>4, <5>1 DEF IsFirst
          <6> QED
            BY <1>1, <3>3, <6>1
        <5> QED
          BY <1>1, <3>1, <3>2, <5>1, <5>2
      <4> QED
        BY <4>1, <4>2
    <3> QED
      BY <3>1, <3>2, <3>4
  <2> QED
    BY <1>1, <2>1, <2>2
<1>3. OneHistory(t, After(m))
  BY <1>2 DEF OneHistory
<1> QED
  BY <1>3 DEF t

\* What is left when the first messages have been read ends where it did.
LEMMA HistoryOfRest ==
  ASSUME NEW s \in Seq(Messages), NEW v, NEW i \in 1 .. Len(s)
  PROVE  /\ OneHistory(s, v) => OneHistory(SubSeq(s, i + 1, Len(s)), v)
         /\ Sound(s) => Sound(SubSeq(s, i + 1, Len(s)))
         /\ Reports(s) = {} => Reports(SubSeq(s, i + 1, Len(s))) = {}
<1> DEFINE t == SubSeq(s, i + 1, Len(s))
           n == Len(s)
<1>1. n \in Nat /\ Len(t) = n - i /\ \A k \in 1 .. n - i : t[k] = s[k + i]
  BY TailIsPart
<1>2. i \in Int /\ 1 <= i /\ i <= n
  BY <1>1
<1> HIDE DEF t, n
<1>3. \A k : k \in Reports(t) <=> k \in 1 .. n - i /\ s[k + i].type \in ReportTypes
  BY <1>1 DEF Reports, ReportTypes
<1>4. \A k : k \in Reports(s) <=> k \in 1 .. n /\ s[k].type \in ReportTypes
  BY DEF Reports, ReportTypes, n
<1>5. ASSUME NEW k \in Reports(t)
      PROVE  k + i \in Reports(s) /\ t[k] = s[k + i] /\ k \in Int
  <2>1. k \in 1 .. n - i /\ s[k + i].type \in ReportTypes
    BY <1>3
  <2>2. k + i \in 1 .. n /\ k \in Int
    BY <1>1, <1>2, <2>1
  <2> QED
    BY <1>1, <1>4, <2>1, <2>2
<1>6. ASSUME NEW j \in Reports(s), j > i
      PROVE  j - i \in Reports(t) /\ (j - i) + i = j /\ t[j - i] = s[j]
  <2>1. j \in 1 .. n /\ s[j].type \in ReportTypes
    BY <1>4
  <2>2. j - i \in 1 .. n - i /\ (j - i) + i = j
    BY <1>1, <1>2, <1>6, <2>1
  <2> QED
    BY <1>1, <1>3, <2>1, <2>2
<1>7. ASSUME OneHistory(s, v), NEW k \in Reports(t),
             NEW later, later = {j \in Reports(t) : j > k}
      PROVE  /\ later = {} => After(t[k]) = v
             /\ \A j \in later : IsFirst(j, later) => After(t[k]) = Before(t[j])
  <2> DEFINE whole == {j \in Reports(s) : j > k + i}
  <2>1. k + i \in Reports(s) /\ t[k] = s[k + i] /\ k \in Int /\ 1 <= k
    BY <1>3, <1>5
  <2>2. /\ whole = {} => After(s[k + i]) = v
        /\ \A j \in whole : IsFirst(j, whole) => After(s[k + i]) = Before(s[j])
    BY <1>7, <2>1 DEF OneHistory
  <2>3. ASSUME NEW j \in later
        PROVE  j + i \in whole /\ t[j] = s[j + i] /\ j \in Int
    <3>1. j + i \in Reports(s) /\ t[j] = s[j + i] /\ j \in Int /\ j > k
      BY <1>5, <1>7, <2>3
    <3>2. j + i > k + i
      BY <1>2, <2>1, <3>1
    <3> QED
      BY <3>1, <3>2
  <2>4. ASSUME NEW j \in whole
        PROVE  j - i \in later /\ (j - i) + i = j /\ j \in Int
    <3>1. j \in Reports(s) /\ j > k + i /\ j \in Int
      BY <1>1, <1>4
    <3>2. j > i /\ j - i > k
      BY <1>2, <2>1, <3>1
    <3> QED
      BY <1>6, <1>7, <3>1, <3>2
  <2> HIDE DEF whole
  <2>5. later = {} => whole = {}
    BY <2>4
  <2>6. ASSUME NEW j \in later, IsFirst(j, later)
        PROVE  After(t[k]) = Before(t[j])
    <3>1. j + i \in whole /\ t[j] = s[j + i] /\ j \in Int
      BY <2>3
    <3>2. ASSUME NEW l \in whole PROVE j + i <= l
      <4>1. l - i \in later /\ (l - i) + i = l /\ l \in Int
        BY <2>4
      <4>2. j <= l - i
        BY <2>6, <4>1 DEF IsFirst
      <4> QED
        BY <1>2, <3>1, <4>1, <4>2
    <3>3. IsFirst(j + i, whole)
      BY <3>1, <3>2 DEF IsFirst
    <3> QED
      BY <2>1, <2>2, <3>1, <3>3
  <2> QED
    BY <2>1, <2>2, <2>5, <2>6
<1>8. OneHistory(s, v) => OneHistory(t, v)
  BY <1>7 DEF OneHistory
<1>9. (Reports(s) = {} => Reports(t) = {}) /\ (Sound(s) => Sound(t))
  BY <1>5 DEF Sound
<1> QED
  BY <1>8, <1>9 DEF t

\* What happens to the bytes on their way to a client, reports apart.
Goes(s, t) ==
  \/ t = s
  \/ Reports(t) = {}
  \/ \E i \in 1 .. Len(s) : t = SubSeq(s, i + 1, Len(s))
  \/ \E m \in Messages : m.type \notin ReportTypes /\ t = Append(s, m)

\* It takes no history on, and starts none.
LEMMA GoesOn ==
  ASSUME NEW s \in Seq(Messages), NEW t, Goes(s, t), NEW v
  PROVE  /\ OneHistory(s, v) => OneHistory(t, v)
         /\ Sound(s) => Sound(t)
         /\ Reports(s) = {} => Reports(t) = {}
<1>1. CASE t = s
  BY <1>1
<1>2. CASE Reports(t) = {}
  BY <1>2, NoneTellsAny DEF Sound
<1>3. CASE \E i \in 1 .. Len(s) : t = SubSeq(s, i + 1, Len(s))
  BY <1>3, HistoryOfRest
<1>4. CASE \E m \in Messages : m.type \notin ReportTypes /\ t = Append(s, m)
  BY <1>4, HistoryStays, SoundGrows, ReportsOfAppend
<1> QED
  BY <1>1, <1>2, <1>3, <1>4 DEF Goes

\* Reports are under way only from SCII to a client that was admitted and has not
\* closed its connection, and are sound one by one.
ReportsTo(p) ==
  /\ Reports(conn[p]["server"].data) # {} =>
       told[p] # NoId /\ IsOpen(conn[p], "client") /\ server_type = "SCII"
  /\ Sound(conn[p]["server"].data)

\* To the only client there has been they tell one history.
HistoryTo(p) == Alone(p) => OneHistory(conn[p]["server"].data, latest)
Histories == \A p \in Client : HistoryTo(p)

\* The inductive invariant of the reports.
RInv ==
  /\ XInv
  /\ \A p \in Client : ReportsTo(p)

\* What a step does to the reports to p: they stay sound, and a history that has room
\* stays one.
Tells(p) ==
  /\ ReportsTo(p)'
  /\ history_index < HISTORY_SIZE /\ HistoryTo(p) => HistoryTo(p)'

\* No bytes, no reports.
LEMMA NoBytes == Reports(<<>>) = {}
<1>1. Len(<<>>) = 0
  OBVIOUS
<1>2. 1 .. 0 = {}
  OBVIOUS
<1> QED
  BY <1>1, <1>2 DEF Reports

\* A step that reports nothing.
LEMMA QuietHistory ==
  ASSUME NEW p \in Client, ReportsTo(p), conn[p] \in Connections(Messages),
         Goes(conn[p]["server"].data, conn'[p]["server"].data),
         latest' = latest \/ server_type = "SE",
         \A q \in Client : told[q] # NoId => told'[q] # NoId,
         \/ Reports(conn'[p]["server"].data) = {}
         \/ IsOpen(conn[p], "client") => IsOpen(conn'[p], "client")
  PROVE  Tells(p)
<1>1. PICK s, t : s = conn[p]["server"].data /\ t = conn'[p]["server"].data
  OBVIOUS
<1>2. s \in Seq(Messages)
  BY <1>1, CountsAreNat
<1>3. /\ OneHistory(s, latest) => OneHistory(t, latest)
      /\ Sound(s) => Sound(t)
      /\ Reports(s) = {} => Reports(t) = {}
  BY <1>1, <1>2, GoesOn
<1>4. server_type = "SE" => Reports(t) = {}
  BY <1>1, <1>3 DEF ReportsTo
<1>5. OneHistory(s, latest) => OneHistory(t, latest')
  BY <1>3, <1>4, NoneTellsAny
<1>6. Reports(t) # {} => told'[p] # NoId /\ IsOpen(conn'[p], "client") /\ server_type = "SCII"
  BY <1>1, <1>3 DEF ReportsTo
<1>7. ReportsTo(p)'
  BY <1>1, <1>3, <1>6 DEF ReportsTo
<1>8. Alone(p)' => Alone(p)
  BY DEF Alone
<1>9. HistoryTo(p) => HistoryTo(p)'
  BY <1>1, <1>5, <1>8 DEF HistoryTo
<1> QED
  BY <1>7, <1>9 DEF Tells

\* An answer that is no report.
LEMMA AnswerHistory ==
  ASSUME RInv, NEW i \in Fd, NEW t, NEW m \in Messages, Answer(i, t, m),
         m.type \notin ReportTypes, ServerStep, UNCHANGED told,
         latest' = latest \/ server_type = "SE"
  PROVE  \A p \in Client : Tells(p)
<1>1. TInv /\ IInv /\ conn \in [Client -> Connections(Messages)]
  BY DEF RInv, XInv, TInv, IInv, TypeOK
<1>2. \A p \in Client : ServerMoves(p)
  BY <1>1, ServerStepMoves
<1>3. ASSUME NEW p \in Client
      PROVE  Goes(conn[p]["server"].data, conn'[p]["server"].data)
  <2>1. PICK o : o = fds[i]
    OBVIOUS
  <2>2. conn'[p]["server"].data \in {conn[p]["server"].data, Append(conn[p]["server"].data, m)}
    BY <1>1, <2>1, AnswerGoes
  <2> QED
    BY <2>2 DEF Goes
<1>4. ASSUME NEW p \in Client
      PROVE  Tells(p)
  <2>1. IsOpen(conn[p], "client") => IsOpen(conn'[p], "client")
    BY <1>2 DEF ServerMoves
  <2>2. ReportsTo(p) /\ conn[p] \in Connections(Messages)
    BY <1>1 DEF RInv
  <2> QED
    BY <1>3, <2>1, <2>2, QuietHistory
<1> QED
  BY <1>4

\* A report that starts from the value the server holds and ends, while the history
\* has room, at the one it goes on with.
LEMMA ReportHistory ==
  ASSUME RInv, NEW i \in Fd, NEW t, NEW m \in Messages, Answer(i, t, m),
         m.type \in ReportTypes, ServerStep, UNCHANGED told, server_type = "SCII",
         SoundReport(m), Before(m) = latest,
         history_index < HISTORY_SIZE => After(m) = latest'
  PROVE  \A p \in Client : Tells(p)
<1>1. TInv /\ IInv /\ conn \in [Client -> Connections(Messages)]
  BY DEF RInv, XInv, TInv, IInv, TypeOK
<1>2. PICK o : o = fds[i]
  OBVIOUS
<1>3. o \in Client /\ told[o] # NoId
  BY <1>1, <1>2, ServedDescriptor DEF Answer, TInv, ServedOK
<1>4. PICK s, r : s = conn[o]["server"].data /\ r = conn'[o]["server"].data
  OBVIOUS
<1>5. s \in Seq(Messages) /\ ReportsTo(o)
  BY <1>1, <1>3, <1>4, CountsAreNat DEF RInv
<1>6. ASSUME NEW p \in Client PROVE IsOpen(conn'[p], "client") <=> IsOpen(conn[p], "client")
  BY <1>1, ServerStepMoves DEF ServerMoves
<1>7. r = IF IsOpen(conn[o], "client") THEN Append(s, m) ELSE s
  BY <1>1, <1>2, <1>4, AnswerGoes
<1>8. Tells(o)
  <2>1. CASE IsOpen(conn[o], "client")
    <3>1. Sound(r)
      BY <1>4, <1>5, <1>7, <2>1, SoundGrows DEF ReportsTo
    <3>2. history_index < HISTORY_SIZE /\ OneHistory(s, latest) => OneHistory(r, latest')
      BY <1>5, <1>7, <2>1, HistoryGrows
    <3>3. ReportsTo(o)'
      BY <1>3, <1>4, <1>6, <2>1, <3>1 DEF ReportsTo
    <3>4. Alone(o)' => Alone(o)
      BY DEF Alone
    <3>5. history_index < HISTORY_SIZE /\ HistoryTo(o) => HistoryTo(o)'
      BY <1>4, <3>2, <3>4 DEF HistoryTo
    <3> QED
      BY <3>3, <3>5 DEF Tells
  <2>2. CASE ~IsOpen(conn[o], "client")
    <3>1. Reports(s) = {} /\ r = s
      BY <1>4, <1>5, <1>7, <2>2 DEF ReportsTo
    <3>2. OneHistory(r, latest') /\ Sound(r)
      BY <3>1, NoneTellsAny DEF Sound
    <3> QED
      BY <1>3, <1>4, <3>1, <3>2 DEF Tells, ReportsTo, HistoryTo
  <2> QED
    BY <2>1, <2>2
<1>9. ASSUME NEW p \in Client, p # o
      PROVE  Tells(p)
  <2>1. conn'[p]["server"].data = conn[p]["server"].data
    BY <1>1, <1>2, <1>9, AnswerGoes
  <2>2. ReportsTo(p)
    BY <1>9 DEF RInv
  <2>3. ReportsTo(p)'
    BY <1>6, <2>1, <2>2 DEF ReportsTo
  <2>4. ~Alone(p)'
    BY <1>3, <1>9 DEF Alone
  <2> QED
    BY <2>3, <2>4 DEF Tells, HistoryTo
<1> QED
  BY <1>8, <1>9

\* A part of a sequence of messages without a report has none.
LEMMA BeginningReportsNone ==
  ASSUME NEW s \in Seq(Messages), Reports(s) = {}, NEW k \in 0 .. Len(s)
  PROVE  Reports(SubSeq(s, 1, k)) = {}
<1> DEFINE t == SubSeq(s, 1, k)
           n == Len(s)
<1>1. n \in Nat /\ k \in 0 .. n /\ Len(t) = k /\ \A x \in 1 .. k : t[x] = s[x]
  OBVIOUS
<1>2. \A x \in 1 .. k : x \in 1 .. n
  BY <1>1
<1> HIDE DEF t
<1>3. \A x : x \in Reports(t) => x \in 1 .. k /\ t[x].type \in ReportTypes
  BY <1>1 DEF Reports, ReportTypes
<1>4. \A x \in 1 .. n : s[x].type \notin ReportTypes
  BY DEF Reports, ReportTypes, n
<1>5. \A x : x \notin Reports(t)
  BY <1>1, <1>2, <1>3, <1>4
<1> QED
  BY <1>5 DEF t

\* A step that answers nobody tells the clients no history.
LEMMA LoopHistory ==
  ASSUME RInv, Select \/ AcceptFails \/ Refuse \/ Admit \/ Disconnect \/ ReceiveError
  PROVE  \A p \in Client : Tells(p)
<1>1. TInv /\ IInv /\ conn \in [Client -> Connections(Messages)]
  BY DEF RInv, XInv, TInv, IInv, TypeOK
<1>2. \A p \in Client : ServerMoves(p)
  BY <1>1, ServerStepMoves DEF ServerStep
<1>3. UNCHANGED history
  BY DEF Select, AcceptFails, Refuse, Admit, Disconnect, ReceiveError, DropConnection
<1>4. ASSUME NEW p \in Client
      PROVE  told[p] # NoId => told'[p] # NoId
  BY <1>2 DEF ServerMoves
<1>5. ASSUME NEW p \in Client
      PROVE  Goes(conn[p]["server"].data, conn'[p]["server"].data)
  <2>1. CASE Select \/ AcceptFails
    BY <2>1 DEF Select, AcceptFails, Goes
  <2>2. PICK o : o = Head(backlog)
    OBVIOUS
  <2>3. CASE Admit
    <3> DEFINE m == Msg("RES_ADD", <<next_client_id>>)
    <3>1. m \in Messages /\ m.type \notin ReportTypes
      <4>1. next_client_id \in Int /\ "RES_ADD" \in ResponseTypes
        BY <1>1 DEF IInv, TypeOK, ResponseTypes
      <4> QED
        BY <4>1, MessageTypes DEF Msg, ReportTypes
    <3> HIDE DEF m
    <3>2. PICK c \in Sent(conn[o], "server", m) : conn' = [conn EXCEPT ![o] = c]
      BY <2>2, <2>3 DEF Admit, m
    <3>3. o \in Client
      BY <1>1, <2>2, <2>3, HeadOfBacklog DEF Admit
    <3>4. c["server"].data \in {conn[o]["server"].data, Append(conn[o]["server"].data, m)}
      BY <1>1, <3>1, <3>2, <3>3, SentIsConnection, ServerEnd
    <3>5. conn'[o] = c /\ (p # o => conn'[p] = conn[p])
      BY <1>1, <3>2, <3>3
    <3> QED
      BY <3>1, <3>4, <3>5 DEF Goes
  <2>4. CASE Refuse
    <3> DEFINE m == Msg("ERROR(01)", <<>>)
    <3>1. m \in Messages /\ m.type \notin ReportTypes
      BY MessageTypes DEF ResponseTypes, Msg, ReportTypes
    <3>2. PICK c \in Sent(conn[o], "server", m) :
            conn' \in {[conn EXCEPT ![o] = d] : d \in Closings(c, "server")}
      BY <2>2, <2>4 DEF Refuse
    <3> HIDE DEF m
    <3>3. PICK d \in Closings(c, "server") : conn' = [conn EXCEPT ![o] = d]
      BY <3>2
    <3>4. o \in Client /\ told[o] = NoId
      BY <1>1, <2>2, <2>4, HeadOfBacklog DEF Refuse
    <3>5. /\ c \in Connections(Messages)
          /\ c["server"].data \in {conn[o]["server"].data, Append(conn[o]["server"].data, m)}
      BY <1>1, <3>1, <3>2, <3>4, SentIsConnection, ServerEnd
    <3>6. Reports(conn[o]["server"].data) = {} /\ conn[o]["server"].data \in Seq(Messages)
      BY <1>1, <3>4, CountsAreNat DEF RInv, ReportsTo
    <3>7. Reports(c["server"].data) = {} /\ c["server"].data \in Seq(Messages)
      <4>1. PICK s : s = conn[o]["server"].data
        OBVIOUS
      <4>2. s \in Seq(Messages) /\ Reports(s) = {}
        BY <3>6, <4>1
      <4>3. Reports(Append(s, m)) = {}
        BY <3>1, <4>2, ReportsOfAppend
      <4> QED
        BY <3>5, <4>1, <4>2, <4>3, CountsAreNat
    <3>8. PICK k \in 0 .. Len(c["server"].data) :
            d["server"].data = SubSeq(c["server"].data, 1, k)
      BY <3>3, <3>5, ClosingsIsConnection, ServerEnd
    <3>9. Reports(d["server"].data) = {}
      BY <3>7, <3>8, BeginningReportsNone
    <3>10. conn'[o] = d /\ (p # o => conn'[p] = conn[p])
      BY <1>1, <3>3, <3>4
    <3> QED
      BY <3>9, <3>10 DEF Goes
  <2>5. CASE Disconnect \/ ReceiveError
    <3>1. PICK i \in Fd : Serving(i) /\ DropConnection(i) /\ ~HasData(Link(i), "server")
      BY <2>5 DEF Disconnect, ReceiveError, AtEof, AtReset
    <3>2. PICK q : q = fds[i]
      OBVIOUS
    <3>3. q \in Client
      BY <1>1, <3>1, <3>2, ServedDescriptor
    <3>4. PICK d \in Closings(conn[q], "server") : conn' = [conn EXCEPT ![q] = d]
      BY <3>1, <3>2 DEF DropConnection, CloseFd, Link
    <3>5. d = Closed(conn[q], "server", "finrst")
      BY <3>1, <3>2, <3>4 DEF Closings, Link
    <3>6. d["server"].data = conn[q]["server"].data
      BY <1>1, <3>3, <3>5, ClosedIsConnection, ServerEnd
    <3>7. conn'[q] = d /\ (p # q => conn'[p] = conn[p])
      BY <1>1, <3>3, <3>4
    <3> QED
      BY <3>6, <3>7 DEF Goes
  <2> QED
    BY <2>1, <2>3, <2>4, <2>5
<1>6. ASSUME NEW p \in Client
      PROVE  Tells(p)
  <2>1. IsOpen(conn[p], "client") => IsOpen(conn'[p], "client")
    BY <1>2 DEF ServerMoves
  <2>2. ReportsTo(p) /\ conn[p] \in Connections(Messages) /\ latest' = latest
    BY <1>1, <1>3 DEF RInv, history
  <2> QED
    BY <1>4, <1>5, <2>1, <2>2, QuietHistory
<1> QED
  BY <1>6

\* The answers of the server.
LEMMA AnswersHistory ==
  ASSUME RInv, ServerStep,
         \/ Remove \/ RemoveUnknown \/ Info \/ Status \/ Up \/ None \/ Down \/ Echo
  PROVE  \A p \in Client : Tells(p)
<1>1. IInv /\ XInv
  BY DEF RInv, XInv, TInv
<1>2. /\ latest \in Levels /\ latest \in Int
      /\ \A v : AddValue(v) /\ history_index < HISTORY_SIZE => latest' = v
  BY <1>1, LevelsAreNumbers DEF IInv, TypeOK, AddValue
<1>3. UNCHANGED told
  BY DEF Remove, RemoveUnknown, Info, Status, Up, None, Down, Echo, registry
<1>4. server_type = "SCII" => Levels \subseteq 0 .. 100
  BY ServerAssumption
<1>5. CASE Remove \/ RemoveUnknown
  <2> DEFINE m == Msg("OK(01)", <<>>)
             n == Msg("ERROR(02)", <<>>)
  <2>1. m \in Messages /\ n \in Messages /\ m.type \notin ReportTypes /\ n.type \notin ReportTypes
    BY MessageTypes DEF ResponseTypes, ReportTypes, Msg
  <2>2. PICK i \in Fd : Answer(i, "REQ_REM", m) \/ Answer(i, "REQ_REM", n)
    BY <1>5 DEF Remove, RemoveUnknown
  <2>3. latest' = latest
    BY <1>5 DEF Remove, RemoveUnknown, history
  <2> HIDE DEF m, n
  <2> QED
    BY <1>3, <2>1, <2>2, <2>3, AnswerHistory
<1>6. CASE Status
  <2> DEFINE m == RES_STATUS(latest)
  <2>1. m \in Messages /\ m.type \notin ReportTypes
    BY MessageTypes DEF ResponseTypes, StatusTypes, RES_STATUS, ReportTypes, Msg
  <2>2. PICK i \in Fd : Answer(i, "REQ_STATUS", m)
    BY <1>6 DEF Status
  <2>3. server_type = "SE"
    BY <1>6 DEF Status
  <2> HIDE DEF m
  <2> QED
    BY <1>3, <2>1, <2>2, <2>3, AnswerHistory
<1>7. CASE Echo
  <2>1. PICK i \in Fd :
          /\ HasData(Link(i), "server") /\ UNCHANGED history
          /\ Answer(i, Incoming(Link(i), "server").type, Incoming(Link(i), "server"))
    BY <1>7 DEF Echo
  <2> DEFINE m == Incoming(Link(i), "server")
             p == fds[i]
             s == conn[p]["client"].data
  <2>2. p \in Client /\ Link(i) = conn[p] /\ Link(i) \in Connections(Messages)
    BY <1>1, <2>1, ServedDescriptor DEF Answer, Link
  <2>3. m \in Messages
    BY <2>1, <2>2, IncomingIsMessage
  <2>4. s \in Seq(Messages) /\ s # <<>> /\ m = Head(s)
    BY <2>1, <2>2, CountsAreNat, ServerEnd DEF HasData, Incoming
  <2>5. 1 \in 1 .. Len(s) /\ s[1] = m
    BY <2>4
  <2>6. m.type \in Requests \union {"REQ_REM"}
    BY <1>1, <2>2, <2>5 DEF XInv, Polite
  <2>7. m.type \notin ReportTypes
    BY <2>6, ServerAssumption DEF RequestTypes, ReportTypes
  <2>8. Answer(i, m.type, m) /\ latest' = latest
    BY <2>1 DEF history
  <2> HIDE DEF m, p, s
  <2> QED
    BY <1>3, <2>3, <2>7, <2>8, AnswerHistory
<1>8. ASSUME server_type = "SCII", NEW i \in Fd, NEW r, NEW t \in ReportTypes,
             NEW a \in Seq(Int), NEW m, m = Msg(t, a), m \in Messages, Answer(i, r, m),
             NEW v \in Levels, a[1] = latest, a[Len(a)] = v,
             history_index < HISTORY_SIZE => latest' = v,
             t = "RES_UP" => latest <= v, t = "RES_DOWN" => latest >= v
      PROVE  \A p \in Client : Tells(p)
  <2>1. m.type = t /\ m.type \in ReportTypes /\ Before(m) = latest /\ After(m) = v
    BY <1>8 DEF Msg, Before, After
  <2>2. SoundReport(m)
    BY <1>4, <1>8, <2>1 DEF SoundReport
  <2> QED
    BY <1>3, <1>8, <2>1, <2>2, ReportHistory
<1>9. CASE Info \/ None
  <2> DEFINE a == <<latest>>
  <2>1. a \in Seq(Int) /\ a[1] = latest /\ Len(a) = 1
    BY <1>2
  <2>2. latest' = latest
    BY <1>9 DEF Info, None, history
  <2>3. PICK i \in Fd : \/ server_type = "SE" /\ Answer(i, "REQ_INFOSE", Msg("RES_INFOSE", a))
                        \/ server_type = "SCII" /\ Answer(i, "REQ_INFOSCII", Msg("RES_INFOSCII", a))
                        \/ server_type = "SCII" /\ Answer(i, "REQ_NONE", Msg("RES_NONE", a))
    BY <1>9 DEF Info, None
  <2>4. /\ Msg("RES_INFOSE", a) \in Messages /\ Msg("RES_INFOSE", a).type \notin ReportTypes
        /\ Msg("RES_INFOSCII", a) \in Messages /\ Msg("RES_NONE", a) \in Messages
    BY <1>2, MessageTypes DEF ResponseTypes, ReportTypes, Msg
  <2>5. "RES_INFOSCII" \in ReportTypes /\ "RES_NONE" \in ReportTypes
    BY DEF ReportTypes
  <2> HIDE DEF a
  <2>6. CASE server_type = "SE" /\ Answer(i, "REQ_INFOSE", Msg("RES_INFOSE", a))
    BY <1>3, <2>2, <2>4, <2>6, AnswerHistory
  <2>7. ASSUME server_type = "SCII", NEW r, NEW t \in {"RES_INFOSCII", "RES_NONE"},
               Answer(i, r, Msg(t, a))
        PROVE  \A p \in Client : Tells(p)
    <3>1. Msg(t, a) \in Messages /\ t \in ReportTypes /\ t # "RES_UP" /\ t # "RES_DOWN"
      BY <2>4, <2>5, <2>7
    <3>2. a[1] = latest /\ a[Len(a)] = latest /\ latest \in Levels
      BY <1>2, <2>1
    <3> QED
      BY <1>8, <2>1, <2>2, <2>7, <3>1, <3>2
  <2> QED
    BY <2>3, <2>6, <2>7
<1>10. CASE Up \/ Down
  <2>1. PICK i \in Fd, v \in Levels, t \in {"RES_UP", "RES_DOWN"}, r \in Turns :
          /\ server_type = "SCII" /\ AddValue(v)
          /\ Answer(i, r, Msg(t, <<latest, v>>))
          /\ t = "RES_UP" => latest <= v
          /\ t = "RES_DOWN" => latest >= v
    <3>1. CASE Up
      <4>1. PICK i \in Fd, v \in (latest .. 100) \intersect Levels :
              /\ server_type = "SCII" /\ AddValue(v)
              /\ Answer(i, "REQ_UP", Msg("RES_UP", <<latest, v>>))
        BY <3>1 DEF Up
      <4>2. v \in Levels /\ latest <= v
        BY <4>1
      <4> QED
        BY <4>1, <4>2 DEF Turns
    <3>2. CASE Down
      <4>1. PICK i \in Fd, v \in (0 .. latest) \intersect Levels :
              /\ server_type = "SCII" /\ AddValue(v)
              /\ Answer(i, "REQ_DOWN", Msg("RES_DOWN", <<latest, v>>))
        BY <3>2 DEF Down
      <4>2. v \in Levels /\ latest >= v
        BY <4>1
      <4> QED
        BY <4>1, <4>2 DEF Turns
    <3> QED
      BY <1>10, <3>1, <3>2
  <2>2. v \in Int /\ (history_index < HISTORY_SIZE => latest' = v)
    BY <1>2, <2>1, LevelsAreNumbers
  <2> DEFINE a == <<latest, v>>
  <2>3. a \in Seq(Int) /\ a[1] = latest /\ a[Len(a)] = v
    BY <1>2, <2>2
  <2>4. Msg(t, a) \in Messages /\ t \in ReportTypes
    BY <1>2, <2>2, MessageTypes DEF ResponseTypes, ReportTypes
  <2>5. Answer(i, r, Msg(t, a))
    BY <2>1
  <2> HIDE DEF a
  <2> QED
    BY <1>8, <2>1, <2>2, <2>3, <2>4, <2>5
<1> QED
  BY <1>5, <1>6, <1>7, <1>9, <1>10

\* A client reads the history, or closes it away, and does not add to it.
LEMMA PeerHistory ==
  ASSUME RInv, PeerStep
  PROVE  \A q \in Client : Tells(q)
<1>1. PICK p \in Client : \/ PeerConnect(p) \/ PeerSend(p) \/ PeerReceive(p)
                          \/ PeerClose(p) \/ PeerSendsLast(p)
  BY DEF PeerStep
<1>2. IInv /\ conn \in [Client -> Connections(Messages)] /\ \A q \in Client : ReportsTo(q)
  BY DEF RInv, XInv, TInv, IInv, TypeOK
<1>3. UNCHANGED <<told, latest>>
  BY <1>1 DEF PeerConnect, PeerSend, PeerSends, PeerReceive, PeerClose, PeerSendsLast, PeerCloses,
              registry, history
<1>4. ASSUME NEW d, conn' = [conn EXCEPT ![p] = d],
             Goes(conn[p]["server"].data, d["server"].data),
             Reports(d["server"].data) = {} \/ d["client"].end = conn[p]["client"].end
      PROVE  \A q \in Client : Tells(q)
  <2>1. ASSUME NEW q \in Client PROVE Tells(q)
    <3>1. conn'[q] = IF q = p THEN d ELSE conn[q]
      BY <1>2, <1>4
    <3>2. Goes(conn[q]["server"].data, conn'[q]["server"].data)
      BY <1>4, <3>1 DEF Goes
    <3>3. \/ Reports(conn'[q]["server"].data) = {}
          \/ IsOpen(conn[q], "client") => IsOpen(conn'[q], "client")
      BY <1>4, <3>1 DEF IsOpen
    <3> QED
      BY <1>2, <1>3, <3>2, <3>3, QuietHistory
  <2> QED
    BY <2>1
<1>5. CASE PeerConnect(p)
  <2>1. Established["server"].data = <<>> /\ conn' = [conn EXCEPT ![p] = Established]
    BY <1>5, ServerEnd DEF PeerConnect, Established
  <2> QED
    BY <1>4, <2>1, NoBytes DEF Goes
<1>6. CASE PeerSend(p)
  <2>1. PICK m \in Allowed(p) : PeerSends(p, m)
    BY <1>6 DEF PeerSend, MaySend
  <2>2. PICK d \in Sent(conn[p], "client", m) : conn' = [conn EXCEPT ![p] = d]
    BY <2>1 DEF PeerSends
  <2>3. m \in Messages
    BY <1>2, AllowedTypes
  <2>4. d["server"].data = conn[p]["server"].data /\ d["client"].end = conn[p]["client"].end
    BY <1>2, <2>2, <2>3, ClientSent
  <2> QED
    BY <1>4, <2>2, <2>4 DEF Goes
<1>7. CASE PeerReceive(p)
  <2>1. PICK d \in PeerReads(conn[p]) : conn' = [conn EXCEPT ![p] = d]
    BY <1>7 DEF PeerReceive
  <2>2. d["client"] = conn[p]["client"] /\ (~HasData(conn[p], "client") => d["server"].data = <<>>)
    BY <1>2, <2>1, ReadsLess
  <2>3. CASE HasData(conn[p], "client")
    <3>1. d \in Received(conn[p], "client")
      BY <2>1, <2>3 DEF PeerReads
    <3>2. \E k \in 1 .. Len(conn[p]["server"].data) :
            d["server"].data = SubSeq(conn[p]["server"].data, k + 1, Len(conn[p]["server"].data))
      <4>1. PICK c : c = conn[p]
        OBVIOUS
      <4>2. c \in Connections(Messages) /\ d \in Received(c, "client") /\ "client" \in Ends
        BY <1>2, <3>1, <4>1, ClientEnd
      <4>3. \E k \in 1 .. Len(c[Peer("client")].data) :
              d[Peer("client")].data =
                SubSeq(c[Peer("client")].data, k + 1, Len(c[Peer("client")].data))
        BY <4>2, ReceivedIsConnection
      <4> QED
        BY <4>1, <4>3, ClientEnd
    <3> QED
      BY <1>4, <2>1, <2>2, <3>2 DEF Goes
  <2>4. CASE ~HasData(conn[p], "client")
    BY <1>4, <2>1, <2>2, <2>4, NoBytes DEF Goes
  <2> QED
    BY <2>3, <2>4
<1>8. ASSUME NEW c \in Connections(Messages), PeerCloses(p, c)
      PROVE  \A q \in Client : Tells(q)
  <2>1. PICK d \in Closings(c, "client") : conn' = [conn EXCEPT ![p] = d]
    BY <1>8 DEF PeerCloses
  <2>2. d["server"].data = <<>>
    BY <2>1, ClientClosed
  <2> QED
    BY <1>4, <2>1, <2>2, NoBytes DEF Goes
<1>9. CASE PeerClose(p)
  <2>1. PICK c \in {conn[p]} \union PeerReads(conn[p]) : PeerCloses(p, c)
    BY <1>9 DEF PeerClose
  <2>2. c \in Connections(Messages)
    BY <1>2, <2>1, ReadsLess
  <2> QED
    BY <1>8, <2>1, <2>2
<1>10. CASE PeerSendsLast(p)
  <2>1. PICK m \in Allowed(p) : \E c \in Sent(conn[p], "client", m) : PeerCloses(p, c)
    BY <1>10 DEF PeerSendsLast, MaySend
  <2>2. PICK c \in Sent(conn[p], "client", m) : PeerCloses(p, c)
    BY <2>1
  <2>3. m \in Messages
    BY <1>2, AllowedTypes
  <2>4. c \in Connections(Messages)
    BY <1>2, <2>2, <2>3, ClientSent
  <2> QED
    BY <1>8, <2>2, <2>4
<1> QED
  BY <1>1, <1>5, <1>6, <1>7, <1>9, <1>10

\* Every step.
LEMMA StepTells ==
  ASSUME RInv, [Next]_vars
  PROVE  RInv' /\ \A p \in Client : Tells(p)
<1>1. XInv'
  BY NextSays DEF RInv
<1>2. \A p \in Client : Tells(p)
  <2>1. CASE ServerStep
    <3>1. CASE Select \/ AcceptFails \/ Refuse \/ Admit \/ Disconnect \/ ReceiveError
      BY <3>1, LoopHistory
    <3>2. CASE \/ Remove \/ RemoveUnknown \/ Info \/ Status \/ Up \/ None \/ Down \/ Echo
      BY <2>1, <3>2, AnswersHistory
    <3> QED
      BY <2>1, <3>1, <3>2 DEF ServerStep
  <2>2. CASE PeerStep
    BY <2>2, PeerHistory
  <2>3. CASE UNCHANGED vars
    BY <2>3 DEF vars, registry, history, RInv, ReportsTo, HistoryTo, Alone, Tells
  <2> QED
    BY <2>1, <2>2, <2>3 DEF Next
<1> QED
  BY <1>1, <1>2 DEF RInv, Tells

\* The reports that the clients have still to read are sound one by one, whatever the
\* history holds; as long as it has room, those to the only client that was ever
\* admitted tell one continuous history, which ends at the value the server holds.
THEOREM ReportsHold ==
  Spec => /\ []EveryReportIsSound
          /\ [](history_index < HISTORY_SIZE) => []ReportsTellOneHistory
<1>1. Init => RInv /\ Histories
  <2> SUFFICES ASSUME Init PROVE RInv /\ Histories
    OBVIOUS
  <2>1. XInv
    BY InitSays
  <2>2. \A p \in Client : conn[p]["server"].data = <<>>
    BY ServerEnd DEF Init, Idle
  <2>3. \A p \in Client : Reports(conn[p]["server"].data) = {}
    BY <2>2, NoBytes
  <2> QED
    BY <2>1, <2>3, NoneTellsAny DEF RInv, ReportsTo, Histories, HistoryTo, Sound
<1>2. RInv /\ [Next]_vars => RInv'
  BY StepTells
<1>3. RInv /\ [Next]_vars /\ history_index < HISTORY_SIZE /\ Histories => Histories'
  BY StepTells DEF Tells, Histories
<1>4. RInv => EveryReportIsSound
  BY DEF RInv, ReportsTo, EveryReportIsSound, Sound
<1>5. RInv /\ Histories => ReportsTellOneHistory
  BY <1>4 DEF Histories, HistoryTo, ReportsTellOneHistory
<1> QED
  BY <1>1, <1>2, <1>3, <1>4, <1>5, PTL DEF Spec
=============================================================================
