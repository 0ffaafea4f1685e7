--------------------------- MODULE Survey_proofs ---------------------------
(***************************************************************************)
(* Theorems about Survey: for any clients, questions, answers and limits   *)
(* of threads, the tallies of both servers are the answers given, a report *)
(* is of one moment, and a server ends only because accept() has thrown or *)
(* a client was killed.                                                    *)
(***************************************************************************)
EXTENDS Survey, Tcp_proofs, FiniteSetTheorems

-----------------------------------------------------------------------------
(* Connections. *)

AllConnections == Connections(Nat)

\* What the steps of the server leave of the connection c: the bytes that the client
\* has sent, and whether either socket is open.
SameForClient(c, d) ==
  /\ d \in AllConnections
  /\ d["client"].data = c["client"].data
  /\ d["server"].end = c["server"].end
  /\ IsOpen(d, "client") <=> IsOpen(c, "client")

\* The two ends of a connection.
LEMMA EndsAndPeers ==
  /\ "client" \in Ends /\ "server" \in Ends
  /\ Peer("client") = "server" /\ Peer("server") = "client"
BY DEF Ends, Peer

\* The connections that connect() finds and leaves.
LEMMA IdleAndEstablished ==
  Idle \in AllConnections /\ Established \in AllConnections
BY DEF Idle, Established, AllConnections, Connections, StreamStates, Ends

\* send() of the server.
LEMMA ServerSends ==
  ASSUME NEW c \in AllConnections, NEW m \in Nat, NEW d \in Sent(c, "server", m)
  PROVE  SameForClient(c, d)
<1>1. /\ d \in Connections(Nat) /\ d["client"].data = c["client"].data
      /\ d["server"].end = c["server"].end
      /\ IsOpen(d, "client") <=> IsOpen(c, "client")
  BY EndsAndPeers, SentIsConnection DEF AllConnections
<1> QED
  BY <1>1 DEF SameForClient, AllConnections

\* recv() of the server: end-of-file leaves a connection alone, an error marks it.
LEMMA ServerErrs ==
  ASSUME NEW c \in AllConnections, AtReset(c, "server")
  PROVE  SameForClient(c, ErrorReturned(c, "server"))
<1> DEFINE x == "broken"
           d == SetEnd(c, "client", x)
<1>1. x \in StreamStates
  BY DEF StreamStates
<1> HIDE DEF x
<1>2. d \in Connections(Nat) /\ d["server"] = c["server"]
                             /\ d["client"].data = c["client"].data /\ d["client"].end = x
  BY <1>1, EndsAndPeers, SetEndIsConnection DEF AllConnections
<1>3. ~IsOpen(c, "client") /\ x # "open"
  BY EndsAndPeers DEF AtReset, IsOpen, x
<1>4. ErrorReturned(c, "server") = d
  BY EndsAndPeers DEF ErrorReturned, x
<1> QED
  BY <1>2, <1>3, <1>4 DEF SameForClient, AllConnections, IsOpen

\* close() of the server.
LEMMA ServerCloses ==
  ASSUME NEW c \in AllConnections, NEW d \in Closings(c, "server")
  PROVE  d \in AllConnections
BY EndsAndPeers, ClosingsIsConnection DEF AllConnections

\* A respondent's client sends, or fails to.
LEMMA ClientSends ==
  ASSUME NEW c \in AllConnections, NEW m \in Nat, NEW d \in Sent(c, "client", m)
  PROVE  /\ d \in AllConnections
         /\ d["client"].end = c["client"].end
         /\ d["client"].data \in {c["client"].data, Append(c["client"].data, m)}
         /\ IsOpen(c, "server") => d = SetData(c, "client", Append(c["client"].data, m))
<1>1. /\ d \in Connections(Nat) /\ d["client"].end = c["client"].end
      /\ d["client"].data \in {c["client"].data, Append(c["client"].data, m)}
  BY EndsAndPeers, SentIsConnection DEF AllConnections
<1>2. IsOpen(c, "server") => d = SetData(c, "client", Append(c["client"].data, m))
  BY EndsAndPeers DEF Sent, IsOpen
<1> QED
  BY <1>1, <1>2 DEF AllConnections

\* What its end leaves: no bytes for it, a beginning of what it has sent.
LEMMA ClientCloses ==
  ASSUME NEW c \in AllConnections, NEW d \in Closings(c, "client")
  PROVE  /\ d \in AllConnections
         /\ \E k \in 0 .. Len(c["client"].data) : d["client"].data = SubSeq(c["client"].data, 1, k)
BY EndsAndPeers, ClosingsIsConnection DEF AllConnections

\* recv() or send() of the client has returned an error.
LEMMA ClientErrs ==
  ASSUME NEW c \in AllConnections
  PROVE  /\ ErrorReturned(c, "client") \in AllConnections
         /\ ErrorReturned(c, "client")["client"] = c["client"]
<1>1. "broken" \in StreamStates
  BY DEF StreamStates
<1>2. /\ SetEnd(c, "server", "broken") \in Connections(Nat)
      /\ SetEnd(c, "server", "broken")["client"] = c["client"]
  BY <1>1, EndsAndPeers, SetEndIsConnection DEF AllConnections
<1> QED
  BY <1>2, EndsAndPeers DEF ErrorReturned, AllConnections

\* One end takes a message out of what the other has sent.
LEMMA OneRead ==
  ASSUME NEW c \in AllConnections, NEW e \in Ends, c[e].data # <<>>
  PROVE  /\ Head(c[e].data) \in Nat
         /\ SetData(c, e, Tail(c[e].data)) \in AllConnections
         /\ SetData(c, e, Tail(c[e].data))[Peer(e)] = c[Peer(e)]
         /\ SetData(c, e, Tail(c[e].data))[e].data = Tail(c[e].data)
         /\ SetData(c, e, Tail(c[e].data))[e].end = c[e].end
<1> DEFINE t == Tail(c[e].data)
<1>1. c[e].data \in Seq(Nat)
  BY DEF AllConnections, Connections
<1>2. t \in Seq(Nat) /\ Head(c[e].data) \in Nat
  BY <1>1
<1> HIDE DEF t
<1>3. /\ SetData(c, e, t) \in Connections(Nat) /\ SetData(c, e, t)[Peer(e)] = c[Peer(e)]
      /\ SetData(c, e, t)[e].data = t /\ SetData(c, e, t)[e].end = c[e].end
  BY <1>2, SetDataIsConnection DEF AllConnections
<1> QED
  BY <1>2, <1>3 DEF t, AllConnections

\* The survey is sent in one piece.
LEMMA SurveyIsSent ==
  ASSUME NEW c \in AllConnections
  PROVE  SameForClient(c, SetData(c, "server", [k \in Question |-> k]))
<1> DEFINE s == [k \in Question |-> k]
<1>1. s \in Seq(Nat)
  BY SurveyAssumption DEF Question
<1> HIDE DEF s
<1>2. /\ SetData(c, "server", s) \in Connections(Nat)
      /\ SetData(c, "server", s)["client"] = c["client"]
      /\ SetData(c, "server", s)["server"].end = c["server"].end
  BY <1>1, EndsAndPeers, SetDataIsConnection DEF AllConnections
<1> QED
  BY <1>2 DEF s, SameForClient, AllConnections, IsOpen

-----------------------------------------------------------------------------
(* The inductive invariant. *)

\* Who is between lock and unlock holds the mutex, and an administrator is served.
MutexOK ==
  /\ \A p \in Respondent : at[p] \in {"load", "store", "unlock", "push"} => holder = p
  /\ adminAt \in {"copy", "list", "unlock"} => holder = "admin"
  /\ adminAt \in {"lock", "copy", "list", "unlock", "report", "flush", "close"} =>
       adminSock \in Administrator

\* p's thread has not counted an answer to question i yet.
NotYet(p, i) ==
  \/ at[p] \in {"none", "asking", "reading", "lock", "load", "store"} /\ i >= q[p]
  \/ at[p] = "unlock" /\ i > q[p]

\* What p's thread is about to write is right: nothing of p's is in the tally, and what
\* it has read from the tally is what is there.
CountOK(p) ==
  /\ at[p] \in {"lock", "load", "store"} => response[p] \in Answers
  /\ at[p] = "store" => old[p] = rCount[q[p]][response[p]]
  /\ \A i \in Question : NotYet(p, i) => counted[i][p] = {}

Sums == \A i \in Question : \A r \in Answers : rCount[i][r] = Cardinality(Counted(i, r))

TallyOK == Sums /\ \A p \in Respondent : CountOK(p)

Listed(s) == {p \in Respondent : \E k \in DOMAIN s : s[k] = p}

\* Whose name is listed has been counted for the last time, and the copies of the
\* administrator's thread are of one moment.
ReportOK ==
  /\ \A p \in Listed(addrList) \union Listed(myList) : at[p] \in {"closing", "ended"}
  /\ adminAt = "list" => myCount = rCount
  /\ adminAt \in {"unlock", "report", "flush", "close"} =>
       \A i \in Question : \A r \in Answers :
         Cardinality(Counted(i, r) \intersect Listed(myList)) <= myCount[i][r]

\* How many answers p's thread has read, if its stream is good.
Pos(p) == IF at[p] \in {"none", "asking", "reading"} THEN q[p] - 1 ELSE q[p]

Active == {"none", "asking", "reading", "lock", "load", "store", "unlock"}

\* The sequence d is what follows in the sequence g after its first n.
Follows(d, g, n) == \A j \in 1 .. Len(d) : n + j \in DOMAIN g /\ d[j] = g[n + j]

\* While p's thread may read, what it will read is what p's client has sent after that;
\* and as long as the client goes on, all of it.
FlowOK(p) ==
  up /\ at[p] \in Active =>
    LET d == conn[p]["client"].data IN
    /\ good[p] => Follows(d, given[p], Pos(p))
    /\ status[p] \in {"reading", "asked"} =>
         /\ good[p] /\ IsOpen(conn[p], "server") /\ IsOpen(conn[p], "client")
         /\ Len(given[p]) = Pos(p) + Len(d)

StartOK(p) ==
  status[p] = "start" =>
    at[p] = "none" /\ q[p] = 1 /\ given[p] = <<>> /\ good[p] /\ conn[p] = Idle

\* The answer in hand, and those counted, are those given to their questions.
AnswerOK(p) ==
  at[p] \in {"lock", "load", "store"} /\ good[p] =>
    q[p] \in DOMAIN given[p] /\ response[p] = given[p][q[p]]
CountedWereGiven(p) ==
  good[p] => \A i \in Question :
    counted[i][p] \subseteq {given[p][k] : k \in DOMAIN given[p] \intersect {i}}

StreamOK(p) == FlowOK(p) /\ StartOK(p) /\ AnswerOK(p) /\ CountedWereGiven(p)

IInv ==
  SurveyTypeOK /\ MutexOK /\ TallyOK /\ ReportOK /\ \A p \in Respondent : StreamOK(p)

-----------------------------------------------------------------------------
(* Types. *)

Threading(p) == Accept(p) \/ Thread(p)

\* What the end of a listening socket leaves of a connection that waits for accept().
LEMMA AbortedTypes ==
  ASSUME NEW c \in AllConnections
  PROVE  /\ Aborted(c, "server") \in AllConnections
         /\ ~IsOpen(Aborted(c, "server"), "server")
<1>1. <<>> \in Seq(Nat) /\ "rst" \in StreamStates /\ c \in Connections(Nat)
  BY DEF StreamStates, AllConnections
<1>2. PICK d : d = SetData(c, "client", <<>>)
  OBVIOUS
<1>3. d \in Connections(Nat)
  BY <1>1, <1>2, EndsAndPeers, SetDataIsConnection
<1>4. Aborted(c, "server") = SetEnd(d, "server", "rst")
  BY <1>2, EndsAndPeers DEF Aborted
<1>5. SetEnd(d, "server", "rst") \in Connections(Nat)
      /\ SetEnd(d, "server", "rst")["server"].end = "rst"
  BY <1>1, <1>3, EndsAndPeers, SetEndIsConnection
<1> QED
  BY <1>4, <1>5 DEF AllConnections, IsOpen

\* A process that ends closes the connections that it had open, and no other.
LEMMA DieTypes ==
  ASSUME SurveyTypeOK, Die
  PROVE  /\ up' = FALSE
         /\ conn' \in [Client -> AllConnections]
         /\ \A x \in Client : ~IsOpen(conn[x], "server") => conn'[x] = conn[x]
<1>1. conn \in [Client -> AllConnections]
  BY DEF SurveyTypeOK, AllConnections
<1>2. PICK f \in [Client -> UNION {Left(p) : p \in Client}] :
        conn' = f /\ \A p \in Client : f[p] \in Left(p)
  BY DEF Die
<1>3. ASSUME NEW x \in Client
      PROVE  f[x] \in AllConnections /\ (~IsOpen(conn[x], "server") => f[x] = conn[x])
  <2>1. CASE IsOpen(conn[x], "server")
    <3>1. conn[x] \in AllConnections
          /\ (f[x] = Aborted(conn[x], "server") \/ f[x] \in Closings(conn[x], "server"))
      BY <1>1, <1>2, <2>1 DEF Left
    <3> QED
      BY <3>1, <2>1, AbortedTypes, ServerCloses
  <2>2. CASE ~IsOpen(conn[x], "server")
    BY <1>1, <1>2, <2>2 DEF Left, Queued
  <2> QED
    BY <2>1, <2>2
<1>4. f \in [Client -> AllConnections]
  BY <1>2, <1>3
<1> QED
  BY <1>2, <1>3, <1>4 DEF Die

\* What a thread does to the connections.
LEMMA ThreadConn ==
  ASSUME SurveyTypeOK, NEW p \in Respondent, Threading(p)
  PROVE  /\ conn' \in [Client -> AllConnections]
         /\ \A x \in Client \ {p} : up' => conn'[x] = conn[x]
         /\ \A x \in Client \ {p} : ~IsOpen(conn[x], "server") => conn'[x] = conn[x]
         /\ up' \in BOOLEAN
<1> DEFINE c == conn[p]
           Goal == /\ conn' \in [Client -> AllConnections]
                   /\ \A x \in Client \ {p} : up' => conn'[x] = conn[x]
                   /\ \A x \in Client \ {p} : ~IsOpen(conn[x], "server") => conn'[x] = conn[x]
                   /\ up' \in BOOLEAN
<1>1. /\ conn \in [Client -> AllConnections] /\ p \in Client /\ c \in AllConnections
      /\ up \in BOOLEAN /\ q[p] \in Nat /\ up
  BY DEF SurveyTypeOK, AllConnections, Client, Question, Threading, Thread, Accept, Ask,
         ReadAnswer, ReadFails, ReadNothing, Lock, Load, Store, Unlock, Push, Close
<1>2. ASSUME NEW d \in AllConnections, conn' = [conn EXCEPT ![p] = d], UNCHANGED up
      PROVE  Goal
  BY <1>1, <1>2
<1>3. ASSUME UNCHANGED <<conn, up>>
      PROVE  Goal
  BY <1>1, <1>3
<1>4. ASSUME Die
      PROVE  Goal
  BY <1>4, DieTypes
<1>5. ASSUME NEW d \in Closings(c, "server"), conn' = [conn EXCEPT ![p] = d], UNCHANGED up
      PROVE  Goal
  BY <1>1, <1>2, <1>5, ServerCloses
<1>6. ASSUME NEW m \in Nat, NEW d \in Sent(c, "server", m), conn' = [conn EXCEPT ![p] = d],
             UNCHANGED up
      PROVE  Goal
  <2>1. d \in AllConnections
    BY <1>1, ServerSends DEF SameForClient
  <2> QED
    BY <1>2, <1>6, <2>1
<1> SUFFICES Goal
  OBVIOUS
<1> HIDE DEF Goal
<1>7. CASE Accept(p)
  BY <1>7, <1>3, <1>5 DEF Accept, Socket
<1>8. CASE Ask(p)
  <2>1. CASE SendPart(p)
    BY <1>1, <2>1, <1>4, <1>6 DEF SendPart
  <2>2. CASE SendSurvey(p)
    <3> DEFINE s == SetData(c, "server", [k \in Question |-> k])
    <3>1. s \in AllConnections
      BY <1>1, SurveyIsSent DEF SameForClient
    <3>2. UNCHANGED up /\ \E d \in {s} \union Sent(c, "server", 1) : conn' = [conn EXCEPT ![p] = d]
      BY <2>2 DEF SendSurvey, Socket
    <3> HIDE DEF s
    <3> QED
      BY <3>1, <3>2, <1>2, <1>6
  <2> QED
    BY <1>8, <2>1, <2>2 DEF Ask
<1>9. CASE ReadAnswer(p)
  <2>1. c["client"].data # <<>>
    BY <1>9, EndsAndPeers DEF ReadAnswer, HasData
  <2>2. SetData(c, "client", Tail(c["client"].data)) \in AllConnections
    BY <1>1, <2>1, EndsAndPeers, OneRead
  <2>3. conn' = [conn EXCEPT ![p] = SetData(c, "client", Tail(c["client"].data))] /\ UNCHANGED up
    BY <1>1, <1>9 DEF ReadAnswer
  <2> QED
    BY <2>2, <2>3, <1>2
<1>10. CASE ReadFails(p)
  <2>1. CASE UNCHANGED conn
    BY <2>1, <1>3, <1>10 DEF ReadFails
  <2>2. CASE AtReset(c, "server") /\ Socket(p, {ErrorReturned(c, "server")})
    <3>1. ErrorReturned(c, "server") \in AllConnections
      BY <1>1, <2>2, ServerErrs DEF SameForClient
    <3>2. conn' = [conn EXCEPT ![p] = ErrorReturned(c, "server")] /\ UNCHANGED up
      BY <1>10, <2>2 DEF Socket, ReadFails
    <3> QED
      BY <3>1, <3>2, <1>2
  <2> QED
    BY <1>10, <2>1, <2>2 DEF ReadFails
<1>11. CASE ReadNothing(p) \/ Lock(p) \/ Load(p) \/ Store(p) \/ Unlock(p) \/ Push(p)
  BY <1>11, <1>3 DEF ReadNothing, Lock, Load, Store, Unlock, Push
<1>12. CASE Close(p)
  BY <1>12, <1>5 DEF Close, Socket
<1> QED
  BY <1>7, <1>8, <1>9, <1>10, <1>11, <1>12 DEF Threading, Thread

\* What the administrators' thread does to them.
LEMMA AdminConn ==
  ASSUME SurveyTypeOK, MutexOK, Admin
  PROVE  /\ conn' \in [Client -> AllConnections]
         /\ \A x \in Respondent : up' => conn'[x] = conn[x]
         /\ \A x \in Respondent : ~IsOpen(conn[x], "server") => conn'[x] = conn[x]
         /\ up' \in BOOLEAN
<1> DEFINE Goal == /\ conn' \in [Client -> AllConnections]
                   /\ \A x \in Respondent : up' => conn'[x] = conn[x]
                   /\ \A x \in Respondent : ~IsOpen(conn[x], "server") => conn'[x] = conn[x]
                   /\ up' \in BOOLEAN
<1>1. /\ conn \in [Client -> AllConnections] /\ up \in BOOLEAN
      /\ Respondent \subseteq Client /\ Administrator \subseteq Client
      /\ Respondent \intersect Administrator = {}
  BY SurveyAssumption DEF SurveyTypeOK, AllConnections, Client
<1>2. ASSUME NEW p \in Administrator, NEW d \in AllConnections,
             conn' = [conn EXCEPT ![p] = d], UNCHANGED up
      PROVE  Goal
  BY <1>1, <1>2
<1>3. ASSUME UNCHANGED <<conn, up>>
      PROVE  Goal
  BY <1>1, <1>3
<1>4. ASSUME Die
      PROVE  Goal
  BY <1>1, <1>4, DieTypes
<1> SUFFICES Goal
  OBVIOUS
<1> HIDE DEF Goal
<1>5. CASE \/ \E p \in Administrator : AdminAccept(p)
           \/ AdminLock \/ AdminCopiesCount \/ AdminCopiesList \/ AdminUnlock
  BY <1>5, <1>3 DEF AdminAccept, AdminLock, AdminCopiesCount, AdminCopiesList, AdminUnlock,
                    AdminGoto
<1>6. CASE AdminReport
  <2>1. adminSock \in Administrator /\ conn[adminSock] \in AllConnections
    BY <1>1, <1>6 DEF MutexOK, AdminReport
  <2>2. CASE Die
    BY <2>2, <1>4
  <2>3. CASE Socket(adminSock, Flushed) /\ UNCHANGED up
    <3>1. PICK d \in Flushed : conn' = [conn EXCEPT ![adminSock] = d]
      BY <2>3 DEF Socket
    <3>2. d \in {conn[adminSock]} \union Sent(conn[adminSock], "server", 1)
      BY <3>1 DEF Flushed
    <3>3. d \in AllConnections
      BY <2>1, <3>2, ServerSends DEF SameForClient
    <3> QED
      BY <2>1, <2>3, <3>1, <3>3, <1>2
  <2> QED
    BY <1>6, <2>2, <2>3 DEF AdminReport
<1>7. CASE AdminClose
  <2>1. adminSock \in Administrator /\ conn[adminSock] \in AllConnections
    BY <1>1, <1>7 DEF MutexOK, AdminClose, AdminGoto
  <2>2. PICK d \in Closings(conn[adminSock], "server") : conn' = [conn EXCEPT ![adminSock] = d]
    BY <1>7 DEF AdminClose, Socket
  <2>3. d \in AllConnections
    BY <2>1, <2>2, ServerCloses
  <2> QED
    BY <1>7, <2>1, <2>2, <2>3, <1>2 DEF AdminClose
<1> QED
  BY <1>5, <1>6, <1>7 DEF Admin

Failing == AcceptThrows \/ AdminThrows

\* What the failure of an accept() does, to them and else.
LEMMA FailLeaves ==
  ASSUME SurveyTypeOK, Failing
  PROVE  /\ up /\ up' \in BOOLEAN /\ thrown' \in BOOLEAN /\ (thrown => thrown')
         /\ conn' \in [Client -> AllConnections]
         /\ \A x \in Respondent : up' => conn'[x] = conn[x]
         /\ \A x \in Client : ~IsOpen(conn[x], "server") => conn'[x] = conn[x]
         /\ \A x \in Client : up' => conn'[x] = conn[x] \/ ~IsOpen(conn'[x], "server")
         /\ UNCHANGED <<program, limit, created, at, q, part, response, good, old, holder, rCount,
                        addrList, counted, adminSock, myCount, myList, status, seen, given>>
         /\ adminAt' = adminAt \/ adminAt' = "none"
         /\ up' \/ thrown'
<1>1. conn \in [Client -> AllConnections] /\ up \in BOOLEAN /\ thrown \in BOOLEAN
  BY DEF SurveyTypeOK, AllConnections
<1>2. CASE AcceptThrows
  <2>1. /\ up' = FALSE /\ conn' \in [Client -> AllConnections]
        /\ \A x \in Client : ~IsOpen(conn[x], "server") => conn'[x] = conn[x]
    BY <1>2, DieTypes DEF AcceptThrows
  <2>2. /\ up /\ thrown' = TRUE /\ adminAt' = adminAt
        /\ UNCHANGED <<program, limit, created, at, q, part, response, good, old, holder, rCount,
                       addrList, counted, adminSock, myCount, myList, status, seen, given>>
    BY <1>2 DEF AcceptThrows, threads, tallies, admin, clients
  <2> QED
    BY <2>1, <2>2
<1>3. CASE AdminThrows
  <2>1. /\ up /\ up' = up /\ thrown' = thrown /\ adminAt' = "none"
        /\ UNCHANGED <<program, limit, created, at, q, part, response, good, old, holder, rCount,
                       addrList, counted, adminSock, myCount, myList, status, seen, given>>
        /\ conn' = [p \in Client |-> IF p \in Administrator /\ Queued(p)
                                      THEN Aborted(conn[p], "server") ELSE conn[p]]
    BY <1>3 DEF AdminThrows, AdminGoto, process, threads, tallies, clients
  <2>2. ASSUME NEW x \in Client
        PROVE  /\ conn'[x] \in AllConnections
               /\ x \in Respondent => conn'[x] = conn[x]
               /\ ~IsOpen(conn[x], "server") => conn'[x] = conn[x]
               /\ conn'[x] = conn[x] \/ ~IsOpen(conn'[x], "server")
    <3>1. conn[x] \in AllConnections
      BY <1>1
    <3>2. CASE x \in Administrator /\ Queued(x)
      <4>1. conn'[x] = Aborted(conn[x], "server") /\ IsOpen(conn[x], "server") /\ x \notin Respondent
        BY <2>1, <3>2, SurveyAssumption DEF Queued
      <4> QED
        BY <3>1, <4>1, AbortedTypes
    <3>3. CASE ~(x \in Administrator /\ Queued(x))
      BY <2>1, <3>1, <3>3
    <3> QED
      BY <3>2, <3>3
  <2>3. conn' \in [Client -> AllConnections]
    <3>1. DOMAIN conn' = Client /\ conn' = [x \in Client |-> conn'[x]]
      BY <2>1
    <3> QED
      BY <2>2, <3>1
  <2>4. Respondent \subseteq Client
    BY DEF Client
  <2> QED
    BY <1>1, <2>1, <2>2, <2>3, <2>4
<1> QED
  BY <1>2, <1>3 DEF Failing

ClientSide(p) == Connect(p) \/ ClientReads(p) \/ Killed(p) \/ (p \in Respondent /\ Answer(p))

\* What a client's process does to them: only its own changes.
LEMMA ClientConn ==
  ASSUME SurveyTypeOK, NEW p \in Client, ClientSide(p)
  PROVE  \E d \in AllConnections : conn' = [conn EXCEPT ![p] = d]
<1> DEFINE c == conn[p]
           Goal == \E d \in AllConnections : conn' = [conn EXCEPT ![p] = d]
<1>1. conn \in [Client -> AllConnections] /\ c \in AllConnections
  BY DEF SurveyTypeOK, AllConnections
<1>2. ASSUME NEW b \in AllConnections, NEW how, End(p, how, b)
      PROVE  Goal
  <2>1. PICK d \in Closings(b, "client") : conn' = [conn EXCEPT ![p] = d]
    BY <1>2 DEF End, Socket
  <2> QED
    BY <2>1, ClientCloses
<1> SUFFICES Goal
  OBVIOUS
<1>3. CASE UNCHANGED conn
  BY <1>1, <1>3
<1> HIDE DEF Goal
<1>4. ASSUME NEW d \in AllConnections, conn' = [conn EXCEPT ![p] = d]
      PROVE  Goal
  BY <1>4 DEF Goal
<1>5. CASE Connect(p)
  BY <1>3, <1>4, <1>5, IdleAndEstablished DEF Connect
<1>6. CASE ClientReads(p)
  <2>1. CASE /\ HasData(c, "client")
             /\ conn' = [conn EXCEPT ![p] = SetData(c, "server", Tail(c["server"].data))]
    <3>1. c["server"].data # <<>>
      BY <2>1, EndsAndPeers DEF HasData
    <3>2. SetData(c, "server", Tail(c["server"].data)) \in AllConnections
      BY <1>1, <3>1, EndsAndPeers, OneRead
    <3> QED
      BY <2>1, <3>2, <1>4
  <2>2. CASE \E how : End(p, how, c) \/ End(p, how, ErrorReturned(c, "client"))
    BY <1>1, <1>2, <2>2, ClientErrs
  <2> QED
    BY <1>6, <2>1, <2>2 DEF ClientReads
<1>7. CASE Killed(p)
  BY <1>1, <1>2, <1>7 DEF Killed
<1>8. CASE p \in Respondent /\ Answer(p)
  <2>1. PICK r \in {a \in Answers : <<p, a>> \in Opinions} :
          \/ \E how : End(p, how, c)
          \/ \E d \in {c} \union Sent(c, "client", r) :
               conn' = [conn EXCEPT ![p] = d] \/ \E how : End(p, how, d)
    BY <1>8 DEF Answer
  <2>2. r \in Nat
    BY SurveyAssumption
  <2>3. \A d \in {c} \union Sent(c, "client", r) : d \in AllConnections
    BY <1>1, <2>2, ClientSends
  <2> QED
    BY <1>1, <2>1, <2>3, <1>2, <1>4
<1> QED
  BY <1>5, <1>6, <1>7, <1>8 DEF ClientSide

\* A step of main() or of a respondent's thread.
LEMMA ThreadTypes ==
  ASSUME SurveyTypeOK, TallyOK, NEW p \in Respondent, Threading(p)
  PROVE  SurveyTypeOK'
<1> DEFINE Rest == /\ program' \in Programs /\ limit' \in ThreadLimits /\ thrown' \in BOOLEAN
                   /\ adminAt' = adminAt /\ adminSock' = adminSock /\ myCount' = myCount
                   /\ myList' = myList /\ status' = status /\ seen' = seen /\ given' = given
           Own == /\ created' \in 0 .. limit'
                  /\ at' \in [Respondent -> Places]
                  /\ q' \in [Respondent -> Question] /\ part' \in [Respondent -> 1 .. Parts]
                  /\ response' \in [Respondent -> Nat] /\ good' \in [Respondent -> BOOLEAN]
                  /\ holder' \in Respondent \union {"admin", "nobody"}
                  /\ rCount' \in [Question -> [Answers -> Nat]]
                  /\ old' \in [Respondent -> Nat]
                  /\ addrList' \in Seq(Respondent)
                  /\ counted' \in [Question -> [Respondent -> SUBSET Answers]]
<1>1. conn' \in [Client -> AllConnections] /\ up' \in BOOLEAN
  BY ThreadConn
<1>2. Rest
  BY DEF Threading, Thread, Accept, Ask, ReadAnswer, ReadFails, ReadNothing, Lock, Load, Store,
         Unlock, Push, Close, SurveyTypeOK, admin, clients, process
<1>3. Answers \subseteq Nat /\ Garbage \subseteq Nat /\ Parts \in Nat \ {0} /\ Questions \in Nat \ {0}
      /\ limit \in Nat
  BY SurveyAssumption DEF SurveyTypeOK
<1>4. ASSUME NextQuestion(p)
      PROVE  q' \in [Respondent -> Question] /\ at' \in [Respondent -> Places]
  BY <1>3, <1>4 DEF NextQuestion, Goto, SurveyTypeOK, Places, Question
<1>5. ASSUME NEW r, Got(p, r)
      PROVE  /\ q' \in [Respondent -> Question] /\ at' \in [Respondent -> Places]
             /\ response' \in [Respondent -> Nat]
  BY <1>3, <1>4, <1>5 DEF Got, Goto, SurveyTypeOK, Places
<1>6. Own
  <2>1. CASE Accept(p)
    <3>1. created' \in 0 .. limit /\ UNCHANGED limit
      <4>1. created \in 0 .. limit /\ UNCHANGED limit
        BY <2>1 DEF Accept, SurveyTypeOK, process
      <4>2. UNCHANGED created \/ (created < limit /\ created' = created + 1)
        BY <2>1 DEF Accept
      <4> QED
        BY <1>3, <4>1, <4>2
    <3>2. at' \in [Respondent -> Places]
      BY <2>1 DEF Accept, Goto, SurveyTypeOK, Places
    <3> QED
      BY <3>1, <3>2, <2>1 DEF Accept, SurveyTypeOK, tallies
  <2>2. CASE Ask(p)
    <3>1. at' \in [Respondent -> Places]
      <4>1. UNCHANGED at \/ Goto(p, "closing") \/ Goto(p, "reading")
        BY <2>2 DEF Ask, SendPart, SendSurvey
      <4> QED
        BY <4>1 DEF Goto, SurveyTypeOK, Places
    <3>2. 1 \in 1 .. Parts /\ part[p] \in 1 .. Parts
      BY <1>3 DEF SurveyTypeOK
    <3>3. part[p] < Parts => part[p] + 1 \in 1 .. Parts
      BY <3>2, <1>3
    <3>4. \/ UNCHANGED part
          \/ part[p] < Parts /\ part' = [part EXCEPT ![p] = @ + 1]
          \/ part' = [part EXCEPT ![p] = 1]
      BY <2>2 DEF Ask, SendPart, SendSurvey
    <3>5. part' \in [Respondent -> 1 .. Parts]
      BY <3>2, <3>3, <3>4 DEF SurveyTypeOK
    <3> QED
      BY <3>1, <3>5, <2>2 DEF Ask, SurveyTypeOK, tallies, process
  <2>3. CASE ReadAnswer(p)
    BY <1>3, <1>5, <2>3 DEF ReadAnswer, SurveyTypeOK, process, tallies
  <2>4. CASE ReadFails(p)
    BY <1>3, <1>5, <2>4 DEF ReadFails, SurveyTypeOK, process, tallies, Goto, Places
  <2>5. CASE ReadNothing(p)
    BY <1>3, <1>5, <2>5 DEF ReadNothing, SurveyTypeOK, process, tallies
  <2>6. CASE Lock(p)
    BY <1>3, <2>6 DEF Lock, SurveyTypeOK, process, tallies, Goto, Places
  <2>7. CASE Load(p)
    <3>1. q[p] \in Question /\ response[p] \in Answers
      BY <2>7 DEF Load, SurveyTypeOK, TallyOK, CountOK
    <3>2. rCount[q[p]][response[p]] \in Nat
      BY <3>1 DEF SurveyTypeOK
    <3> QED
      BY <1>3, <2>7, <3>2 DEF Load, SurveyTypeOK, process, tallies, Goto, Places
  <2>8. CASE Store(p)
    <3>1. response[p] \in Answers /\ old[p] + 1 \in Nat
      BY <2>8 DEF Store, SurveyTypeOK, TallyOK, CountOK
    <3>2. [rCount EXCEPT ![q[p]][response[p]] = old[p] + 1] \in [Question -> [Answers -> Nat]]
      BY <3>1 DEF SurveyTypeOK
    <3>3. [counted EXCEPT ![q[p]][p] = {response[p]}] \in [Question -> [Respondent -> SUBSET Answers]]
      BY <3>1 DEF SurveyTypeOK
    <3> QED
      BY <1>3, <2>8, <3>2, <3>3 DEF Store, SurveyTypeOK, process, Goto, Places
  <2>9. CASE Unlock(p)
    BY <1>3, <1>4, <2>9 DEF Unlock, SurveyTypeOK, process, tallies
  <2>10. CASE Push(p)
    <3>1. Append(addrList, p) \in Seq(Respondent)
      BY DEF SurveyTypeOK
    <3> QED
      BY <1>3, <2>10, <3>1 DEF Push, SurveyTypeOK, process, tallies, Goto, Places
  <2>11. CASE Close(p)
    BY <1>3, <2>11 DEF Close, SurveyTypeOK, process, tallies, Goto, Places
  <2> QED
    BY <2>1, <2>2, <2>3, <2>4, <2>5, <2>6, <2>7, <2>8, <2>9, <2>10, <2>11 DEF Threading, Thread
<1> QED
  BY <1>1, <1>2, <1>6 DEF SurveyTypeOK, AllConnections

\* A step of adminServer().
LEMMA AdminTypes ==
  ASSUME SurveyTypeOK, MutexOK, Admin
  PROVE  SurveyTypeOK'
<1>1. conn' \in [Client -> AllConnections] /\ up' \in BOOLEAN
  BY AdminConn
<1>2. /\ UNCHANGED <<program, limit, thrown, created, at, q, part, response, good, old, rCount,
                     addrList, counted, status, seen, given>>
      /\ holder' \in Respondent \union {"admin", "nobody"}
      /\ adminAt' \in {"none", "accept", "lock", "copy", "list", "unlock", "report", "flush", "close"}
      /\ adminSock' \in Administrator \union {"nobody"}
  BY DEF Admin, AdminAccept, AdminLock, AdminCopiesCount, AdminCopiesList, AdminUnlock, AdminReport,
         AdminClose, AdminGoto, SurveyTypeOK, process, threads, tallies, clients
<1>3. Zero \in [Question -> [Answers -> Nat]] /\ <<>> \in Seq(Respondent)
  BY DEF Zero
<1>4. myCount' \in [Question -> [Answers -> Nat]] /\ myList' \in Seq(Respondent)
  <2> HIDE DEF Zero
  <2> QED
    BY <1>3 DEF Admin, AdminAccept, AdminLock, AdminCopiesCount, AdminCopiesList, AdminUnlock,
                AdminReport, AdminClose, AdminGoto, SurveyTypeOK
<1> QED
  BY <1>1, <1>2, <1>4 DEF SurveyTypeOK, AllConnections

\* What a client leaves of the server's, and of the other clients'.
LEMMA ClientLeaves ==
  ASSUME SurveyTypeOK, NEW p \in Client, ClientSide(p)
  PROVE  /\ UNCHANGED <<program, limit, thrown, up, created, at, q, part, response, good, old, holder,
                        rCount, addrList, counted, adminAt, adminSock, myCount, myList>>
         /\ \A x \in Client \ {p} : conn'[x] = conn[x] /\ status'[x] = status[x]
         /\ \A x \in Respondent \ {p} : given'[x] = given[x]
<1>1. UNCHANGED <<program, limit, thrown, up, created, at, q, part, response, good, old, holder,
                  rCount, addrList, counted, adminAt, adminSock, myCount, myList>>
  BY DEF ClientSide, Connect, ClientReads, Killed, Answer, process, threads, tallies, admin
<1>2. \A x \in Client \ {p} : conn'[x] = conn[x]
  BY ClientConn DEF SurveyTypeOK
<1>3. \A x \in Client \ {p} : status'[x] = status[x]
  <2>1. UNCHANGED status \/ \E how : status' = [status EXCEPT ![p] = how]
    BY DEF ClientSide, Connect, ClientReads, Killed, Answer, End
  <2> QED
    BY <2>1 DEF SurveyTypeOK
<1>4. \A x \in Respondent \ {p} : given'[x] = given[x]
  <2>1. UNCHANGED given \/ \E r : given' = [given EXCEPT ![p] = Append(@, r)]
    BY DEF ClientSide, Connect, ClientReads, Killed, Answer
  <2> QED
    BY <2>1 DEF SurveyTypeOK
<1> QED
  BY <1>1, <1>2, <1>3, <1>4

\* A step of a client's process.
LEMMA ClientTypes ==
  ASSUME SurveyTypeOK, NEW p \in Client, ClientSide(p)
  PROVE  SurveyTypeOK'
<1>1. conn' \in [Client -> AllConnections]
  BY ClientConn DEF SurveyTypeOK, AllConnections
<1>2. status' \in [Client -> Outcomes \union {"start", "reading", "asked"}]
  BY DEF ClientSide, Connect, ClientReads, Killed, Answer, End, SurveyTypeOK, Outcomes
<1>3. seen' \in [Client -> Nat]
  <2>1. UNCHANGED seen \/ seen' = [seen EXCEPT ![p] = @ + 1]
    BY DEF ClientSide, Connect, ClientReads, Killed, Answer
  <2>2. seen[p] + 1 \in Nat
    BY DEF SurveyTypeOK
  <2> QED
    BY <2>1, <2>2 DEF SurveyTypeOK
<1>4. given' \in [Respondent -> Seq(Answers)]
  <2>1. CASE UNCHANGED given
    BY <2>1 DEF SurveyTypeOK
  <2>2. CASE p \in Respondent /\ \E r \in Answers : given' = [given EXCEPT ![p] = Append(@, r)]
    BY <2>2 DEF SurveyTypeOK
  <2> QED
    BY <2>1, <2>2 DEF ClientSide, Connect, ClientReads, Killed, Answer
<1> QED
  BY <1>1, <1>2, <1>3, <1>4, ClientLeaves DEF SurveyTypeOK, AllConnections

-----------------------------------------------------------------------------
(* The mutex. *)

\* A thread leaves the others alone.
LEMMA Elsewhere ==
  ASSUME SurveyTypeOK, NEW p \in Respondent, Threading(p)
  PROVE  /\ UNCHANGED <<program, thrown, status, given, adminAt, adminSock, myCount, myList>>
         /\ \A x \in Respondent \ {p} :
              /\ at'[x] = at[x] /\ q'[x] = q[x] /\ response'[x] = response[x]
              /\ good'[x] = good[x] /\ old'[x] = old[x]
         /\ \A i \in Question : \A x \in Respondent \ {p} : counted'[i][x] = counted[i][x]
<1>1. UNCHANGED <<program, thrown, status, given, adminAt, adminSock, myCount, myList>>
  BY DEF Threading, Thread, Accept, Ask, ReadAnswer, ReadFails, ReadNothing, Lock, Load, Store,
         Unlock, Push, Close, process, admin, clients
<1>2. ASSUME NEW x \in Respondent \ {p}
      PROVE  at'[x] = at[x]
  <2>1. UNCHANGED at \/ \E place : at' = [at EXCEPT ![p] = place]
    BY DEF Threading, Thread, Accept, Ask, SendPart, SendSurvey, ReadAnswer, ReadFails, ReadNothing,
           Got, NextQuestion, Lock, Load, Store, Unlock, Push, Close, Goto
  <2> QED
    BY <2>1 DEF SurveyTypeOK
<1>3. ASSUME NEW x \in Respondent \ {p}
      PROVE  q'[x] = q[x]
  <2>1. UNCHANGED q \/ \E i : q' = [q EXCEPT ![p] = i]
    BY DEF Threading, Thread, Accept, Ask, ReadAnswer, ReadFails, ReadNothing,
           Got, NextQuestion, Lock, Load, Store, Unlock, Push, Close
  <2> QED
    BY <2>1 DEF SurveyTypeOK
<1>4. ASSUME NEW x \in Respondent \ {p}
      PROVE  response'[x] = response[x]
  <2>1. UNCHANGED response \/ \E r : response' = [response EXCEPT ![p] = r]
    BY DEF Threading, Thread, Accept, Ask, ReadAnswer, ReadFails, ReadNothing,
           Got, Lock, Load, Store, Unlock, Push, Close
  <2> QED
    BY <2>1 DEF SurveyTypeOK
<1>5. ASSUME NEW x \in Respondent \ {p}
      PROVE  good'[x] = good[x]
  <2>1. UNCHANGED good \/ good' = [good EXCEPT ![p] = FALSE]
    BY DEF Threading, Thread, Accept, Ask, ReadAnswer, ReadFails, ReadNothing,
           Lock, Load, Store, Unlock, Push, Close
  <2> QED
    BY <2>1 DEF SurveyTypeOK
<1>6. ASSUME NEW x \in Respondent \ {p}
      PROVE  old'[x] = old[x]
  <2>1. UNCHANGED old \/ \E n : old' = [old EXCEPT ![p] = n]
    BY DEF Threading, Thread, Accept, Ask, ReadAnswer, ReadFails, ReadNothing,
           Lock, Load, Store, Unlock, Push, Close
  <2> QED
    BY <2>1 DEF SurveyTypeOK
<1>7. ASSUME NEW i \in Question, NEW x \in Respondent \ {p}
      PROVE  counted'[i][x] = counted[i][x]
  <2>1. UNCHANGED counted \/ counted' = [counted EXCEPT ![q[p]][p] = {response[p]}]
    BY DEF Threading, Thread, Accept, Ask, ReadAnswer, ReadFails, ReadNothing,
           Lock, Load, Store, Unlock, Push, Close, tallies
  <2>2. counted \in [Question -> [Respondent -> SUBSET Answers]] /\ q[p] \in Question
    BY DEF SurveyTypeOK
  <2> DEFINE mine == [counted[q[p]] EXCEPT ![p] = {response[p]}]
  <2>3. mine[x] = counted[q[p]][x]
    BY <2>2
  <2>4. UNCHANGED counted \/ counted' = [counted EXCEPT ![q[p]] = mine]
    BY <2>1
  <2> HIDE DEF mine
  <2> QED
    BY <2>2, <2>3, <2>4
<1> QED
  BY <1>1, <1>2, <1>3, <1>4, <1>5, <1>6, <1>7

\* Where a thread goes, and when it takes the mutex, gives it back, and writes.
LEMMA ThreadMoves ==
  ASSUME SurveyTypeOK, NEW p \in Respondent, Threading(p)
  PROVE  \/ /\ UNCHANGED <<holder, rCount, counted, addrList>>
            /\ at'[p] \notin {"load", "store", "unlock", "push"}
            /\ at[p] \notin {"load", "store", "unlock"}
            /\ at[p] = "closing" => at'[p] = "ended"
         \/ Lock(p) \/ Load(p) \/ Store(p) \/ Unlock(p) \/ (Push(p) /\ UNCHANGED <<rCount, counted>>)
<1>1. ASSUME NEW place, Goto(p, place)
      PROVE  at'[p] = place
  BY <1>1 DEF Goto, SurveyTypeOK
<1>2. ASSUME NextQuestion(p)
      PROVE  at'[p] \in {"closing", "asking", "log", "reading"}
  BY <1>1, <1>2 DEF NextQuestion
<1>3. ASSUME NEW r, Got(p, r)
      PROVE  at'[p] \in {"closing", "asking", "log", "reading", "lock"}
  BY <1>1, <1>2, <1>3 DEF Got
<1>4. CASE Accept(p)
  BY <1>1, <1>4 DEF Accept, tallies
<1>5. CASE Ask(p)
  <2>1. UNCHANGED at \/ Goto(p, "closing") \/ Goto(p, "reading")
    BY <1>5 DEF Ask, SendPart, SendSurvey
  <2>2. at[p] = "asking" /\ UNCHANGED <<holder, rCount, counted, addrList>>
    BY <1>5 DEF Ask, tallies
  <2> QED
    BY <2>1, <2>2, <1>1
<1>6. CASE ReadAnswer(p)
  BY <1>3, <1>6 DEF ReadAnswer, tallies
<1>7. CASE ReadFails(p)
  BY <1>1, <1>3, <1>7 DEF ReadFails, tallies
<1>8. CASE ReadNothing(p)
  BY <1>3, <1>8 DEF ReadNothing, tallies
<1>9. CASE Close(p)
  BY <1>1, <1>9 DEF Close, tallies
<1>10. Push(p) => UNCHANGED <<rCount, counted>>
  BY DEF Push
<1> QED
  BY <1>4, <1>5, <1>6, <1>7, <1>8, <1>9, <1>10 DEF Threading, Thread

\* The mutex keeps out who does not hold it, after a step of a thread,
LEMMA ThreadMutex ==
  ASSUME SurveyTypeOK, MutexOK, NEW p \in Respondent, Threading(p)
  PROVE  MutexOK'
<1>1. UNCHANGED <<adminAt, adminSock>> /\ \A x \in Respondent \ {p} : at'[x] = at[x]
  BY Elsewhere
<1>2. "admin" \notin Respondent /\ "nobody" \notin Respondent
  BY SurveyAssumption
<1>3. ASSUME NEW place, Goto(p, place)
      PROVE  at'[p] = place
  BY <1>3 DEF Goto, SurveyTypeOK
<1>4. CASE UNCHANGED holder /\ at'[p] \notin {"load", "store", "unlock", "push"}
  BY <1>1, <1>4 DEF MutexOK
<1>5. CASE Lock(p)
  BY <1>1, <1>2, <1>5 DEF Lock, MutexOK
<1>6. CASE Load(p)
  BY <1>1, <1>6 DEF Load, MutexOK
<1>7. CASE Store(p)
  BY <1>1, <1>7 DEF Store, MutexOK
<1>8. CASE Unlock(p)
  <2>1. at'[p] \in {"closing", "asking", "log", "reading"}
    BY <1>3, <1>8 DEF Unlock, NextQuestion
  <2> QED
    BY <1>1, <1>2, <1>8, <2>1 DEF Unlock, MutexOK
<1>9. CASE Push(p)
  <2>1. at'[p] = "closing" /\ (UNCHANGED holder \/ holder' = "nobody") /\ at[p] = "push"
    BY <1>3, <1>9 DEF Push
  <2> QED
    BY <1>1, <1>2, <2>1 DEF MutexOK
<1> QED
  BY <1>4, <1>5, <1>6, <1>7, <1>8, <1>9, ThreadMoves

\* and after one of adminServer().
LEMMA AdminMutex ==
  ASSUME SurveyTypeOK, MutexOK, Admin
  PROVE  MutexOK'
<1>1. UNCHANGED at
  BY DEF Admin, AdminAccept, AdminLock, AdminCopiesCount, AdminCopiesList, AdminUnlock, AdminReport,
         AdminClose, AdminGoto, threads
<1>2. "admin" \notin Respondent /\ "nobody" \notin Respondent
  BY SurveyAssumption
<1> QED
  BY <1>1, <1>2 DEF Admin, AdminAccept, AdminLock, AdminCopiesCount, AdminCopiesList, AdminUnlock,
                    AdminReport, AdminClose, AdminGoto, MutexOK

-----------------------------------------------------------------------------
(* The tallies. *)

\* What Store changes, a field at a time.
LEMMA StoreEffect ==
  ASSUME SurveyTypeOK, TallyOK, NEW p \in Respondent, Store(p)
  PROVE  /\ q[p] \in Question /\ response[p] \in Answers
         /\ at[p] = "store" /\ at'[p] = "unlock" /\ UNCHANGED <<q, holder, addrList>>
         /\ rCount'[q[p]][response[p]] = rCount[q[p]][response[p]] + 1
         /\ \A i \in Question : \A r \in Answers :
              <<i, r>> # <<q[p], response[p]>> => rCount'[i][r] = rCount[i][r]
         /\ counted[q[p]][p] = {} /\ counted'[q[p]][p] = {response[p]}
         /\ \A i \in Question : \A x \in Respondent :
              <<i, x>> # <<q[p], p>> => counted'[i][x] = counted[i][x]
<1> DEFINE n == q[p]
           a == response[p]
           row == [rCount[n] EXCEPT ![a] = old[p] + 1]
           col == [counted[n] EXCEPT ![p] = {a}]
<1>1. at[p] = "store" /\ at'[p] = "unlock" /\ UNCHANGED <<q, holder, addrList>>
  BY DEF Store, Goto, SurveyTypeOK
<1>2. n \in Question /\ a \in Answers /\ old[p] = rCount[n][a] /\ counted[n][p] = {}
  <2>1. n \in Question /\ n >= n
    BY DEF SurveyTypeOK, Question
  <2>2. NotYet(p, n)
    BY <1>1, <2>1 DEF NotYet
  <2> QED
    BY <1>1, <2>1, <2>2 DEF TallyOK, CountOK
<1>3. rCount \in [Question -> [Answers -> Nat]] /\ counted \in [Question -> [Respondent -> SUBSET Answers]]
  BY DEF SurveyTypeOK
<1>4. rCount' = [rCount EXCEPT ![n] = row] /\ counted' = [counted EXCEPT ![n] = col]
  BY DEF Store
<1>5. /\ row[a] = rCount[n][a] + 1 /\ \A r \in Answers : r # a => row[r] = rCount[n][r]
      /\ col[p] = {a} /\ \A x \in Respondent : x # p => col[x] = counted[n][x]
  BY <1>2, <1>3
<1> HIDE DEF row, col
<1>6. /\ rCount'[n] = row /\ \A i \in Question : i # n => rCount'[i] = rCount[i]
      /\ counted'[n] = col /\ \A i \in Question : i # n => counted'[i] = counted[i]
  BY <1>2, <1>3, <1>4
<1>7. ASSUME NEW i \in Question, NEW r \in Answers, <<i, r>> # <<n, a>>
      PROVE  rCount'[i][r] = rCount[i][r]
  BY <1>5, <1>6, <1>7
<1>8. ASSUME NEW i \in Question, NEW x \in Respondent, <<i, x>> # <<n, p>>
      PROVE  counted'[i][x] = counted[i][x]
  BY <1>5, <1>6, <1>8
<1> QED
  BY <1>1, <1>2, <1>5, <1>6, <1>7, <1>8

\* The thread that writes adds its answer to one tally, and its client to one set.
LEMMA StoreSums ==
  ASSUME SurveyTypeOK, TallyOK, NEW p \in Respondent, Store(p)
  PROVE  Sums'
<1> DEFINE n == q[p]
           a == response[p]
<1>1. /\ n \in Question /\ a \in Answers
      /\ rCount'[n][a] = rCount[n][a] + 1
      /\ \A i \in Question : \A r \in Answers : <<i, r>> # <<n, a>> => rCount'[i][r] = rCount[i][r]
      /\ counted[n][p] = {} /\ counted'[n][p] = {a}
      /\ \A i \in Question : \A x \in Respondent :
           <<i, x>> # <<n, p>> => counted'[i][x] = counted[i][x]
  BY StoreEffect
<1> HIDE DEF n, a
<1>2. ASSUME NEW i \in Question, NEW r \in Answers
      PROVE  rCount'[i][r] = Cardinality({x \in Respondent : r \in counted'[i][x]})
  <2> DEFINE S == {x \in Respondent : r \in counted[i][x]}
             T == {x \in Respondent : r \in counted'[i][x]}
  <2>1. rCount[i][r] = Cardinality(S)
    BY DEF TallyOK, Sums, Counted
  <2>2. CASE i = n /\ r = a
    <3>1. T = S \union {p} /\ p \notin S
      BY <1>1, <2>2
    <3>2. IsFiniteSet(S)
      <4>1. IsFiniteSet(Respondent)
        BY SurveyAssumption, FS_Subset, Respondent \subseteq Client DEF Client
      <4> QED
        BY <4>1, FS_Subset
    <3> HIDE DEF S, T
    <3>3. Cardinality(T) = Cardinality(S) + 1
      BY <3>1, <3>2, FS_AddElement
    <3> QED
      BY <1>1, <2>1, <2>2, <3>3 DEF T
  <2>3. CASE <<i, r>> # <<n, a>>
    <3>1. \A x \in Respondent : r \in counted'[i][x] <=> r \in counted[i][x]
      BY <1>1, <2>3
    <3>2. T = S
      BY <3>1
    <3> QED
      BY <1>1, <2>1, <2>3, <3>2
  <2> QED
    BY <2>2, <2>3
<1> QED
  BY <1>2 DEF Sums, Counted

\* Where a question ends, and what the next thing to count is.
LEMMA NextQuestionEffect ==
  ASSUME SurveyTypeOK, NEW p \in Respondent, NextQuestion(p)
  PROVE  \/ at'[p] \in {"closing", "log"} /\ q'[p] = q[p]
         \/ /\ at'[p] = IF program = "SurveyServer" THEN "asking" ELSE "reading"
            /\ q'[p] = q[p] + 1
<1>1. q[p] = Questions \/ q[p] # Questions
  OBVIOUS
<1> QED
  BY <1>1 DEF NextQuestion, Goto, SurveyTypeOK

\* Where a response leads: to the mutex when it is in range, and on to the next question.
LEMMA GotEffect ==
  ASSUME SurveyTypeOK, NEW p \in Respondent, NEW r, Got(p, r)
  PROVE  \/ at'[p] \in {"closing", "log"} /\ q'[p] = q[p]
         \/ /\ at'[p] = IF program = "SurveyServer" THEN "asking" ELSE "reading"
            /\ q'[p] = q[p] + 1
         \/ at'[p] = "lock" /\ q'[p] = q[p] /\ response'[p] = r /\ r \in Answers
BY NextQuestionEffect DEF Got, Goto, SurveyTypeOK

\* What a thread does to its own place, question, response and tallies.
LEMMA OwnCount ==
  ASSUME SurveyTypeOK, NEW p \in Respondent, CountOK(p), Threading(p),
         UNCHANGED <<rCount, counted>>
  PROVE  CountOK(p)'
<1> DEFINE Rest == \A i \in Question : NotYet(p, i)' => NotYet(p, i)
           Hand == /\ at'[p] \in {"lock", "load", "store"} => response'[p] \in Answers
                   /\ at'[p] = "store" => old'[p] = rCount[q'[p]][response'[p]]
<1>1. ASSUME NEW place, Goto(p, place)
      PROVE  at'[p] = place
  BY <1>1 DEF Goto, SurveyTypeOK
<1>2. q[p] \in Int /\ \A i \in Question : i \in Int
  BY DEF SurveyTypeOK, Question
<1>3. ASSUME at[p] = "reading", NEW r, Got(p, r)
      PROVE  Rest /\ Hand
  <2>1. at'[p] = "lock" => response'[p] \in Answers
    BY <1>3, GotEffect
  <2>2. at'[p] \in {"closing", "log", "lock", "asking", "reading"}
    BY <1>3, GotEffect
  <2>3. Rest
    BY <1>2, <1>3, GotEffect DEF NotYet
  <2> QED
    BY <2>1, <2>2, <2>3
<1>4. ASSUME at[p] = "unlock", NextQuestion(p)
      PROVE  Rest /\ Hand
  <2>1. at'[p] \in {"closing", "log", "asking", "reading"}
    BY <1>4, NextQuestionEffect
  <2>2. Rest
    BY <1>2, <1>4, NextQuestionEffect DEF NotYet
  <2> QED
    BY <2>1, <2>2
<1>5. ASSUME UNCHANGED q,
             \/ at'[p] \in {"ended", "closing", "push"}
             \/ at'[p] \in {"asking", "reading"} /\ at[p] \in {"none", "asking"}
      PROVE  Rest /\ Hand
  BY <1>2, <1>5 DEF NotYet
<1>6. Rest /\ Hand
  <2>1. CASE Accept(p)
    BY <1>1, <1>5, <2>1 DEF Accept
  <2>2. CASE Ask(p)
    <3>1. UNCHANGED at \/ Goto(p, "closing") \/ Goto(p, "reading")
      BY <2>2 DEF Ask, SendPart, SendSurvey
    <3>2. at[p] = "asking" /\ UNCHANGED q
      BY <2>2 DEF Ask
    <3> QED
      BY <3>1, <3>2, <1>1, <1>5
  <2>3. CASE ReadAnswer(p)
    BY <1>3, <2>3 DEF ReadAnswer
  <2>4. CASE ReadFails(p)
    BY <1>1, <1>3, <1>5, <2>4 DEF ReadFails
  <2>5. CASE ReadNothing(p)
    BY <1>3, <2>5 DEF ReadNothing
  <2>6. CASE Lock(p)
    <3>1. (at[p] = "lock" /\ at'[p] = "load") \/ at'[p] = "push"
      BY <1>1, <2>6 DEF Lock
    <3>2. UNCHANGED <<q, response>>
      BY <2>6 DEF Lock
    <3> QED
      BY <1>2, <3>1, <3>2 DEF CountOK, NotYet
  <2>7. CASE Load(p)
    <3>1. /\ at[p] = "load" /\ at'[p] = "store" /\ UNCHANGED <<q, response>>
          /\ old'[p] = rCount[q[p]][response[p]]
      BY <1>1, <2>7 DEF Load, SurveyTypeOK
    <3> QED
      BY <1>2, <3>1 DEF CountOK, NotYet
  <2>8. CASE Store(p)
    <3>1. at'[p] = "unlock" /\ at[p] = "store" /\ UNCHANGED q
      BY <1>1, <2>8 DEF Store
    <3> QED
      BY <1>2, <3>1 DEF NotYet
  <2>9. CASE Unlock(p)
    BY <1>4, <2>9 DEF Unlock
  <2>10. CASE Push(p)
    BY <1>1, <1>5, <2>10 DEF Push
  <2>11. CASE Close(p)
    BY <1>1, <1>5, <2>11 DEF Close
  <2> QED
    BY <2>1, <2>2, <2>3, <2>4, <2>5, <2>6, <2>7, <2>8, <2>9, <2>10, <2>11 DEF Threading, Thread
<1> QED
  BY <1>6 DEF CountOK

\* The tallies after a step of a thread.
LEMMA ThreadTally ==
  ASSUME SurveyTypeOK, MutexOK, TallyOK, NEW p \in Respondent, Threading(p)
  PROVE  TallyOK'
<1>1. CASE UNCHANGED <<rCount, counted>>
  <2>1. Sums'
    BY <1>1 DEF TallyOK, Sums, Counted
  <2>2. CountOK(p)'
    BY <1>1, OwnCount DEF TallyOK
  <2>3. ASSUME NEW x \in Respondent \ {p}
        PROVE  CountOK(x)'
    BY <1>1, Elsewhere DEF TallyOK, CountOK, NotYet
  <2> QED
    BY <2>1, <2>2, <2>3 DEF TallyOK
<1>2. CASE Store(p)
  <2>1. Sums'
    BY <1>2, StoreSums
  <2>2. CountOK(p)'
    <3>1. ASSUME NEW i \in Question, NotYet(p, i)'
          PROVE  counted'[i][p] = {}
      <4>1. at'[p] = "unlock" /\ q'[p] = q[p] /\ at[p] = "store"
        BY <1>2, StoreEffect
      <4>2. i > q[p] /\ i \in Int /\ q[p] \in Int
        BY <3>1, <4>1 DEF NotYet, SurveyTypeOK, Question
      <4>3. NotYet(p, i) /\ i # q[p]
        BY <4>1, <4>2 DEF NotYet
      <4>4. counted'[i][p] = counted[i][p]
        BY <1>2, <4>3, StoreEffect
      <4> QED
        BY <4>3, <4>4 DEF TallyOK, CountOK
    <3>2. at'[p] = "unlock"
      BY <1>2, StoreEffect
    <3> QED
      BY <3>1, <3>2 DEF CountOK
  <2>3. ASSUME NEW x \in Respondent \ {p}
        PROVE  CountOK(x)'
    <3>1. at[x] # "store"
      BY <1>2, StoreEffect DEF MutexOK
    <3>2. /\ at'[x] = at[x] /\ q'[x] = q[x] /\ response'[x] = response[x]
          /\ \A i \in Question : counted'[i][x] = counted[i][x]
      BY Elsewhere
    <3> QED
      BY <3>1, <3>2 DEF TallyOK, CountOK, NotYet
  <2> QED
    BY <2>1, <2>2, <2>3 DEF TallyOK
<1>3. UNCHANGED <<rCount, counted>> \/ Store(p)
  BY ThreadMoves DEF Lock, Load, Unlock, tallies
<1> QED
  BY <1>1, <1>2, <1>3

\* adminServer() changes nothing that the threads and the clients have.
LEMMA AdminLeaves ==
  ASSUME SurveyTypeOK, Admin
  PROVE  UNCHANGED <<program, limit, thrown, created, at, q, part, response, good, old, rCount,
                     addrList, counted, status, seen, given>>
BY DEF Admin, AdminAccept, AdminLock, AdminCopiesCount, AdminCopiesList, AdminUnlock, AdminReport,
       AdminClose, AdminGoto, process, threads, tallies, clients

\* The tallies after a step that leaves the threads alone.
LEMMA OthersTally ==
  ASSUME TallyOK, UNCHANGED <<at, q, response, old, rCount, counted>>
  PROVE  TallyOK'
BY DEF TallyOK, Sums, Counted, CountOK, NotYet

-----------------------------------------------------------------------------
(* The report. *)

\* What is listed, and the copies, after a step of a thread,
LEMMA ThreadReport ==
  ASSUME SurveyTypeOK, MutexOK, TallyOK, ReportOK, NEW p \in Respondent, Threading(p)
  PROVE  ReportOK'
<1>1. UNCHANGED <<adminAt, adminSock, myCount, myList>> /\ \A x \in Respondent \ {p} : at'[x] = at[x]
  BY Elsewhere
<1>2. \A x \in Listed(myList) \union Listed(addrList) : at[x] \in {"closing", "ended"}
  BY DEF ReportOK
<1>3. at[p] \in {"closing", "ended"} => at'[p] = "ended"
  BY DEF Threading, Thread, Accept, Ask, ReadAnswer, ReadFails, ReadNothing, Lock, Load, Store,
         Unlock, Push, Close, Goto, SurveyTypeOK
<1>4. \A x \in Listed(addrList)' : x \in Listed(addrList) \/ (x = p /\ at'[x] = "closing")
  <2>1. CASE UNCHANGED addrList
    BY <2>1 DEF Listed
  <2>2. CASE Push(p) /\ addrList' = Append(addrList, p)
    <3>1. addrList \in Seq(Respondent) /\ at'[p] = "closing"
      BY <2>2 DEF SurveyTypeOK, Push, Goto
    <3>2. ASSUME NEW k \in DOMAIN addrList'
          PROVE  addrList'[k] = p \/ (k \in DOMAIN addrList /\ addrList'[k] = addrList[k])
      BY <2>2, <3>1
    <3> QED
      BY <3>1, <3>2 DEF Listed
  <2> QED
    BY <2>1, <2>2, ThreadMoves DEF Lock, Load, Store, Unlock, Push, tallies
<1>5. \A x \in Listed(addrList)' \union Listed(myList)' : at'[x] \in {"closing", "ended"}
  <2>1. Listed(myList)' = Listed(myList) /\ Listed(addrList)' \subseteq Respondent
        /\ Listed(myList) \subseteq Respondent
    BY <1>1 DEF Listed
  <2> QED
    BY <1>1, <1>2, <1>3, <1>4, <2>1
<1>6. adminAt' = "list" => myCount' = rCount'
  <2>1. adminAt = "list" => ~Store(p)
    BY SurveyAssumption DEF MutexOK, Store
  <2>2. Store(p) \/ UNCHANGED rCount
    BY ThreadMoves DEF Lock, Load, Unlock, tallies
  <2> QED
    BY <1>1, <2>1, <2>2 DEF ReportOK
<1>7. ASSUME adminAt' \in {"unlock", "report", "flush", "close"},
             NEW i \in Question, NEW r \in Answers
      PROVE  Cardinality(Counted(i, r)' \intersect Listed(myList)') <= myCount'[i][r]
  <2>1. ASSUME NEW x \in Listed(myList)
        PROVE  counted'[i][x] = counted[i][x]
    <3>1. x \in Respondent /\ at[x] # "store"
      BY <1>2 DEF Listed
    <3>2. CASE Store(p)
      BY <3>1, <3>2, StoreEffect
    <3>3. CASE UNCHANGED counted
      BY <3>3
    <3> QED
      BY <3>2, <3>3, ThreadMoves DEF Lock, Load, Unlock, tallies
  <2>2. Counted(i, r)' \intersect Listed(myList)' = Counted(i, r) \intersect Listed(myList)
    BY <1>1, <2>1 DEF Counted, Listed
  <2>3. Cardinality(Counted(i, r) \intersect Listed(myList)) <= myCount[i][r]
    BY <1>1, <1>7 DEF ReportOK
  <2> QED
    BY <1>1, <2>2, <2>3
<1> QED
  BY <1>5, <1>6, <1>7 DEF ReportOK

\* after one of adminServer(), which makes the copies with the mutex,
LEMMA AdminReports ==
  ASSUME SurveyTypeOK, TallyOK, ReportOK, Admin
  PROVE  ReportOK'
<1>1. UNCHANGED <<at, rCount, addrList, counted>>
  BY AdminLeaves
<1>2. /\ Listed(addrList)' = Listed(addrList)
      /\ \A i \in Question : \A r \in Answers : Counted(i, r)' = Counted(i, r)
  BY <1>1 DEF Listed, Counted
<1>3. CASE AdminCopiesList
  <2>1. /\ adminAt = "list" /\ adminAt' = "unlock" /\ myList' = addrList /\ UNCHANGED myCount
        /\ myCount = rCount
    BY <1>3 DEF AdminCopiesList, AdminGoto, ReportOK
  <2>2. ASSUME NEW i \in Question, NEW r \in Answers
        PROVE  Cardinality(Counted(i, r)' \intersect Listed(myList)') <= myCount'[i][r]
    <3> DEFINE S == Counted(i, r)
               T == Listed(addrList)
    <3>1. IsFiniteSet(S)
      BY SurveyAssumption, FS_Subset, Counted(i, r) \subseteq Client DEF Client, Counted
    <3>2. Listed(myList)' = T /\ Counted(i, r)' = S
      BY <1>2, <2>1 DEF Listed
    <3>3. myCount'[i][r] = Cardinality(S) /\ myCount'[i][r] \in Nat
      BY <2>1 DEF TallyOK, Sums, SurveyTypeOK
    <3> HIDE DEF S, T
    <3>4. S \intersect T \subseteq S
      OBVIOUS
    <3>5. Cardinality(S \intersect T) <= Cardinality(S)
      BY <3>1, <3>4, FS_Subset
    <3> QED
      BY <3>2, <3>3, <3>5
  <2>3. Listed(myList)' = Listed(addrList)
    BY <2>1 DEF Listed
  <2> QED
    BY <1>1, <1>2, <2>1, <2>2, <2>3 DEF ReportOK
<1>4. CASE AdminCopiesCount
  <2>1. adminAt' = "list" /\ myCount' = rCount /\ UNCHANGED myList
    BY <1>4 DEF AdminCopiesCount, AdminGoto
  <2> QED
    BY <1>1, <1>2, <2>1 DEF ReportOK, Listed
<1>5. CASE AdminClose
  <2>1. adminAt' = "accept" /\ myList' = <<>>
    BY <1>5 DEF AdminClose, AdminGoto
  <2>2. Listed(myList)' = {}
    BY <2>1 DEF Listed
  <2> QED
    BY <1>1, <1>2, <2>1, <2>2 DEF ReportOK
<1>6. CASE /\ UNCHANGED <<myCount, myList>> /\ adminAt' # "list"
           /\ adminAt' \in {"unlock", "report", "flush", "close"} =>
                adminAt \in {"unlock", "report", "flush", "close"}
  <2>1. Listed(myList)' = Listed(myList)
    BY <1>6 DEF Listed
  <2> QED
    BY <1>1, <1>2, <1>6, <2>1 DEF ReportOK
<1> QED
  BY <1>3, <1>4, <1>5, <1>6
     DEF Admin, AdminAccept, AdminLock, AdminUnlock, AdminReport, AdminGoto

\* and after a step that leaves them alone.
LEMMA OthersReport ==
  ASSUME ReportOK, UNCHANGED <<at, rCount, addrList, counted, adminAt, myCount, myList>>
  PROVE  ReportOK'
BY DEF ReportOK, Listed, Counted

-----------------------------------------------------------------------------
(* The answers under way. *)

\* Reading the first of what follows.
LEMMA FollowsTail ==
  ASSUME NEW d \in Seq(Nat), NEW g \in Seq(Nat), NEW n \in Nat, Follows(d, g, n), d # <<>>
  PROVE  /\ n + 1 \in DOMAIN g /\ Head(d) = g[n + 1]
         /\ Follows(Tail(d), g, n + 1) /\ Len(Tail(d)) = Len(d) - 1
<1>1. 1 \in 1 .. Len(d) /\ Head(d) = d[1]
  OBVIOUS
<1>2. Tail(d) \in Seq(Nat) /\ Len(Tail(d)) = Len(d) - 1
  OBVIOUS
<1>3. ASSUME NEW j \in 1 .. Len(Tail(d))
      PROVE  n + 1 + j \in DOMAIN g /\ Tail(d)[j] = g[n + 1 + j]
  <2>1. j + 1 \in 1 .. Len(d) /\ Tail(d)[j] = d[j + 1] /\ n + (j + 1) = n + 1 + j
    BY <1>2
  <2> QED
    BY <2>1 DEF Follows
<1> QED
  BY <1>1, <1>2, <1>3 DEF Follows

\* Losing the end of what follows.
LEMMA FollowsPrefix ==
  ASSUME NEW d \in Seq(Nat), NEW g \in Seq(Nat), NEW n \in Nat, Follows(d, g, n),
         NEW k \in 0 .. Len(d)
  PROVE  Follows(SubSeq(d, 1, k), g, n)
<1>1. Len(SubSeq(d, 1, k)) = k /\ \A j \in 1 .. k : SubSeq(d, 1, k)[j] = d[j] /\ j \in 1 .. Len(d)
  OBVIOUS
<1> QED
  BY <1>1 DEF Follows

\* Giving one more answer, whether or not it is sent.
LEMMA FollowsLonger ==
  ASSUME NEW d \in Seq(Nat), NEW g \in Seq(Nat), NEW n \in Nat, Follows(d, g, n), NEW r \in Nat
  PROVE  /\ Follows(d, Append(g, r), n)
         /\ Len(g) = n + Len(d) => Follows(Append(d, r), Append(g, r), n)
<1>1. /\ DOMAIN g = 1 .. Len(g) /\ DOMAIN Append(g, r) = 1 .. Len(g) + 1
      /\ \A k \in 1 .. Len(g) : Append(g, r)[k] = g[k]
      /\ Append(g, r)[Len(g) + 1] = r
  OBVIOUS
<1>2. /\ Len(Append(d, r)) = Len(d) + 1
      /\ \A k \in 1 .. Len(d) : Append(d, r)[k] = d[k]
      /\ Append(d, r)[Len(d) + 1] = r
  OBVIOUS
<1>3. ASSUME NEW j \in 1 .. Len(d)
      PROVE  n + j \in 1 .. Len(g) + 1 /\ d[j] = Append(g, r)[n + j]
  <2>1. n + j \in 1 .. Len(g) /\ d[j] = g[n + j]
    BY <1>1 DEF Follows
  <2> QED
    BY <1>1, <2>1
<1>4. ASSUME Len(g) = n + Len(d), NEW j \in 1 .. Len(d) + 1
      PROVE  n + j \in 1 .. Len(g) + 1 /\ Append(d, r)[j] = Append(g, r)[n + j]
  <2>1. CASE j \in 1 .. Len(d)
    <3>1. n + j \in 1 .. Len(g) + 1 /\ d[j] = Append(g, r)[n + j]
      BY <1>3, <2>1
    <3>2. Append(d, r)[j] = d[j]
      BY <1>2, <2>1
    <3> QED
      BY <3>1, <3>2
  <2>2. CASE j = Len(d) + 1
    <3>1. n + j = Len(g) + 1 /\ Len(g) \in Nat
      BY <1>4, <2>2
    <3>2. Append(d, r)[j] = r /\ Append(g, r)[n + j] = r
      BY <1>1, <1>2, <2>2, <3>1
    <3> QED
      BY <3>1, <3>2
  <2>3. j \in 1 .. Len(d) \/ j = Len(d) + 1
    BY <1>4
  <2> QED
    BY <2>1, <2>2, <2>3
<1> QED
  BY <1>1, <1>2, <1>3, <1>4 DEF Follows

\* The steps that leave what a respondent's stream depends on alone.
LEMMA StreamKept ==
  ASSUME NEW x \in Respondent, StreamOK(x),
         at'[x] = at[x], q'[x] = q[x], response'[x] = response[x], good'[x] = good[x],
         given'[x] = given[x], status'[x] = status[x],
         \A i \in Question : counted'[i][x] = counted[i][x],
         up' => up /\ conn'[x] = conn[x],
         ~IsOpen(conn[x], "server") => conn'[x] = conn[x]
  PROVE  StreamOK(x)'
<1>1. FlowOK(x)'
  BY DEF StreamOK, FlowOK, Pos
<1>2. StartOK(x)'
  <2>1. ~IsOpen(Idle, "server")
    BY EndsAndPeers DEF Idle, IsOpen
  <2> QED
    BY <2>1 DEF StreamOK, StartOK
<1>3. AnswerOK(x)' /\ CountedWereGiven(x)'
  BY DEF StreamOK, AnswerOK, CountedWereGiven
<1> QED
  BY <1>1, <1>2, <1>3 DEF StreamOK

\* The types of what a respondent's stream is made of.
LEMMA StreamTypes ==
  ASSUME SurveyTypeOK, NEW p \in Respondent
  PROVE  /\ p \in Client /\ conn \in [Client -> AllConnections] /\ conn[p] \in AllConnections
         /\ conn[p]["client"].data \in Seq(Nat) /\ given[p] \in Seq(Nat) /\ given[p] \in Seq(Answers)
         /\ q[p] \in Nat /\ q[p] - 1 \in Nat /\ Pos(p) \in Nat
<1>1. p \in Client /\ conn \in [Client -> AllConnections]
  BY DEF SurveyTypeOK, AllConnections, Client
<1>2. conn[p] \in AllConnections
  BY <1>1
<1>3. conn[p]["client"].data \in Seq(Nat)
  BY <1>2, EndsAndPeers DEF AllConnections, Connections
<1>4. given[p] \in Seq(Answers) /\ q[p] \in Question
  BY DEF SurveyTypeOK
<1>5. given[p] \in Seq(Nat)
  <2>1. Len(given[p]) \in Nat /\ given[p] \in [1 .. Len(given[p]) -> Answers]
    BY <1>4
  <2>2. given[p] \in [1 .. Len(given[p]) -> Nat]
    BY <2>1, SurveyAssumption
  <2> QED
    BY <2>1, <2>2
<1>6. q[p] \in Nat /\ q[p] - 1 \in Nat
  BY <1>4, SurveyAssumption DEF Question
<1> QED
  BY <1>1, <1>2, <1>3, <1>4, <1>5, <1>6 DEF Pos

\* A client that has not started has no thread.
LEMMA NoThreadAtStart ==
  ASSUME SurveyTypeOK, NEW p \in Respondent, StartOK(p), Threading(p)
  PROVE  status[p] # "start"
<1>1. ~IsOpen(Idle, "server")
  BY EndsAndPeers DEF Idle, IsOpen
<1> QED
  BY <1>1 DEF StartOK, Threading, Thread, Accept, Ask, ReadAnswer, ReadFails, ReadNothing, Lock,
              Load, Store, Unlock, Push, Close

\* A thread reads the next answer, in whatever way: the flow is one shorter.
LEMMA ReadFlow ==
  ASSUME SurveyTypeOK, NEW p \in Respondent, StreamOK(p), ReadAnswer(p)
  PROVE  FlowOK(p)' /\ AnswerOK(p)'
<1> DEFINE c == conn[p]
           d == c["client"].data
           g == given[p]
           n == Pos(p)
<1>1. /\ c \in AllConnections /\ d \in Seq(Nat) /\ g \in Seq(Nat) /\ n \in Nat
      /\ n = q[p] - 1 /\ q[p] = n + 1 /\ d # <<>> /\ good[p] /\ at[p] = "reading" /\ up
      /\ conn \in [Client -> AllConnections] /\ p \in Client
  <2>1. at[p] = "reading" /\ d # <<>> /\ good[p] /\ up
    BY EndsAndPeers DEF ReadAnswer, HasData
  <2> QED
    BY <2>1, StreamTypes DEF Pos
<1>2. /\ Follows(d, g, n)
      /\ status[p] \in {"reading", "asked"} =>
           IsOpen(c, "server") /\ IsOpen(c, "client") /\ Len(g) = n + Len(d)
  BY <1>1 DEF StreamOK, FlowOK, Active
<1> DEFINE b == SetData(c, "client", Tail(d))
<1>3. /\ b \in AllConnections /\ b["server"] = c["server"] /\ b["client"].data = Tail(d)
      /\ b["client"].end = c["client"].end
  BY <1>1, EndsAndPeers, OneRead
<1>4. conn' = [conn EXCEPT ![p] = b] /\ UNCHANGED <<status, given, good, up>>
  BY <1>1 DEF ReadAnswer, clients
<1> HIDE DEF b
<1>5. conn'[p] = b
  BY <1>1, <1>4
<1>6. Got(p, Head(d))
  BY EndsAndPeers DEF ReadAnswer, Incoming
<1>7. /\ n + 1 \in DOMAIN g /\ Head(d) = g[n + 1] /\ Follows(Tail(d), g, n + 1)
      /\ Len(Tail(d)) = Len(d) - 1
  BY <1>1, <1>2, FollowsTail
<1> DEFINE h == Head(d)
           t == Tail(d)
<1>8. \/ at'[p] \in {"closing", "log"}
      \/ at'[p] \in {"asking", "reading"} /\ q'[p] = q[p] + 1
      \/ at'[p] = "lock" /\ q'[p] = q[p] /\ response'[p] = h
  BY <1>6, GotEffect
<1>9. at'[p] \in Active => Pos(p)' = n + 1
  <2>1. q[p] + 1 - 1 = n + 1
    BY <1>1
  <2>2. CASE at'[p] \in {"asking", "reading"} /\ q'[p] = q[p] + 1
    BY <1>1, <2>1, <2>2 DEF Pos
  <2>3. CASE at'[p] = "lock" /\ q'[p] = q[p]
    BY <1>1, <2>3 DEF Pos
  <2> QED
    BY <1>8, <2>2, <2>3 DEF Active
<1>10. Len(g) = n + Len(d) => Len(g) = n + 1 + Len(t)
  <2>1. Len(t) = Len(d) - 1 /\ Len(d) \in Nat /\ n \in Nat
    BY <1>1, <1>7
  <2> HIDE DEF d, t, g, n
  <2> QED
    BY <2>1
<1>11. FlowOK(p)'
  <2>1. IsOpen(b, "server") = IsOpen(c, "server") /\ IsOpen(b, "client") = IsOpen(c, "client")
    BY <1>3 DEF IsOpen
  <2> HIDE DEF c, d, g, n, t, h
  <2> SUFFICES ASSUME at'[p] \in Active
               PROVE  FlowOK(p)'
    BY DEF FlowOK
  <2>2. /\ conn'[p]["client"].data = t /\ given'[p] = g /\ Pos(p)' = n + 1 /\ good'[p]
        /\ status'[p] = status[p] /\ conn'[p] = b
    BY <1>1, <1>3, <1>4, <1>5, <1>9 DEF t, g
  <2>3. Follows(t, g, n + 1)
    BY <1>7 DEF t
  <2> QED
    BY <1>2, <1>10, <2>1, <2>2, <2>3 DEF FlowOK
<1>12. AnswerOK(p)'
  BY <1>1, <1>4, <1>7, <1>8 DEF AnswerOK
<1> QED
  BY <1>11, <1>12

\* A stream that has failed reads what nobody has sent; the client has gone.
LEMMA FailedFlow ==
  ASSUME SurveyTypeOK, NEW p \in Respondent, StreamOK(p), ReadFails(p) \/ ReadNothing(p)
  PROVE  FlowOK(p)' /\ AnswerOK(p)' /\ ~good'[p]
<1>1. at[p] = "reading" /\ up /\ UNCHANGED <<status, given>>
  BY DEF ReadFails, ReadNothing, clients
<1>2. ~good'[p]
  BY DEF ReadFails, ReadNothing, SurveyTypeOK
<1>3. status[p] \notin {"reading", "asked"}
  <2>1. CASE ReadFails(p)
    <3>1. ~IsOpen(conn[p], "client")
      BY <2>1, EndsAndPeers DEF ReadFails, AtEof, AtReset, IsOpen
    <3> QED
      BY <1>1, <3>1 DEF StreamOK, FlowOK, Active
  <2>2. CASE ReadNothing(p)
    BY <1>1, <2>2 DEF ReadNothing, StreamOK, FlowOK, Active
  <2> QED
    BY <2>1, <2>2
<1> QED
  BY <1>1, <1>2, <1>3 DEF FlowOK, AnswerOK

\* The steps of a thread that read nothing.
LEMMA QuietFlow ==
  ASSUME SurveyTypeOK, NEW p \in Respondent, FlowOK(p), up, at[p] \in Active,
         at'[p] \in Active /\ up' => Pos(p)' = Pos(p) /\ SameForClient(conn[p], conn'[p]),
         good'[p] = good[p], given'[p] = given[p], status'[p] = status[p]
  PROVE  FlowOK(p)'
<1> SUFFICES ASSUME up', at'[p] \in Active
             PROVE  FlowOK(p)'
  BY DEF FlowOK
<1> DEFINE d == conn[p]["client"].data
<1>1. /\ Pos(p)' = Pos(p) /\ conn'[p]["client"].data = d
      /\ IsOpen(conn[p], "server") => IsOpen(conn'[p], "server")
      /\ IsOpen(conn[p], "client") => IsOpen(conn'[p], "client")
  BY DEF SameForClient, IsOpen
<1> HIDE DEF d
<1>2. /\ good[p] => Follows(d, given[p], Pos(p))
      /\ status[p] \in {"reading", "asked"} =>
           /\ good[p] /\ IsOpen(conn[p], "server") /\ IsOpen(conn[p], "client")
           /\ Len(given[p]) = Pos(p) + Len(d)
  BY DEF FlowOK, d
<1> QED
  BY <1>1, <1>2 DEF FlowOK

\* A step that does not touch the connection.
LEMMA SameConnection ==
  ASSUME NEW c \in AllConnections
  PROVE  SameForClient(c, c)
BY DEF SameForClient

\* A step that asks.
LEMMA AskFlow ==
  ASSUME SurveyTypeOK, NEW p \in Respondent, FlowOK(p), Ask(p)
  PROVE  FlowOK(p)'
<1>1. /\ conn \in [Client -> AllConnections] /\ p \in Client /\ conn[p] \in AllConnections
      /\ q[p] \in Nat
  BY StreamTypes
<1>2. /\ up /\ at[p] = "asking" /\ UNCHANGED <<q, good, given, status>>
  BY DEF Ask, clients
<1>3. at'[p] \in {"asking", "reading", "closing"}
  <2>1. UNCHANGED at \/ Goto(p, "closing") \/ Goto(p, "reading")
    BY DEF Ask, SendPart, SendSurvey
  <2> QED
    BY <1>2, <2>1 DEF Goto, SurveyTypeOK
<1>4. up' => SameForClient(conn[p], conn'[p])
  <2>1. ASSUME NEW d, SameForClient(conn[p], d), conn' = [conn EXCEPT ![p] = d]
        PROVE  SameForClient(conn[p], conn'[p])
    <3>1. conn'[p] = d
      BY <1>1, <2>1
    <3> QED
      BY <2>1, <3>1
  <2>2. ASSUME NEW m \in Nat, NEW d \in Sent(conn[p], "server", m), conn' = [conn EXCEPT ![p] = d]
        PROVE  SameForClient(conn[p], conn'[p])
    BY <1>1, <2>1, <2>2, ServerSends
  <2>3. CASE SendPart(p)
    BY <1>1, <2>2, <2>3 DEF SendPart, Die
  <2>4. CASE SendSurvey(p)
    <3> DEFINE s == SetData(conn[p], "server", [k \in Question |-> k])
    <3>1. SameForClient(conn[p], s)
      BY <1>1, SurveyIsSent
    <3>2. \E d \in {s} \union Sent(conn[p], "server", 1) : conn' = [conn EXCEPT ![p] = d]
      BY <2>4 DEF SendSurvey, Socket
    <3> HIDE DEF s
    <3> QED
      BY <2>1, <2>2, <3>1, <3>2
  <2> QED
    BY <2>3, <2>4 DEF Ask
<1>5. at'[p] \in Active => Pos(p)' = Pos(p)
  BY <1>2, <1>3 DEF Active, Pos
<1>6. at[p] \in Active
  BY <1>2 DEF Active
<1> QED
  BY <1>2, <1>4, <1>5, <1>6, QuietFlow

\* The steps of a thread that neither read nor send.
LEMMA QuietFlows ==
  ASSUME SurveyTypeOK, NEW p \in Respondent, FlowOK(p),
         Accept(p) \/ Lock(p) \/ Load(p) \/ Store(p) \/ Unlock(p) \/ Push(p) \/ Close(p)
  PROVE  FlowOK(p)'
<1>1. conn[p] \in AllConnections /\ q[p] \in Nat
  BY StreamTypes
<1>2. SameForClient(conn[p], conn[p])
  BY <1>1, SameConnection
<1>3. ASSUME NEW place, Goto(p, place)
      PROVE  at'[p] = place
  BY <1>3 DEF Goto, SurveyTypeOK
<1>4. up /\ UNCHANGED <<good, given, status>>
  BY DEF Accept, Lock, Load, Store, Unlock, Push, Close, clients
<1>5. CASE at'[p] \notin Active
  BY <1>5 DEF FlowOK
<1>6. CASE at[p] \in Active /\ UNCHANGED conn /\ (at'[p] \in Active => Pos(p)' = Pos(p))
  BY <1>2, <1>4, <1>6, QuietFlow
<1>7. CASE Accept(p)
  <2>1. at[p] = "none" /\ (at'[p] = "ended" \/ (at'[p] = "asking" /\ UNCHANGED conn)) /\ UNCHANGED q
    BY <1>3, <1>7 DEF Accept
  <2> QED
    BY <1>5, <1>6, <2>1 DEF Active, Pos
<1>8. CASE Lock(p)
  <2>1. (at[p] = "lock" /\ at'[p] = "load") \/ at'[p] = "push"
    BY <1>3, <1>8 DEF Lock
  <2>2. UNCHANGED <<conn, q>>
    BY <1>8 DEF Lock
  <2> QED
    BY <1>5, <1>6, <2>1, <2>2 DEF Active, Pos
<1>9. CASE Load(p)
  <2>1. at[p] = "load" /\ at'[p] = "store" /\ UNCHANGED <<conn, q>>
    BY <1>3, <1>9 DEF Load
  <2> QED
    BY <1>6, <2>1 DEF Active, Pos
<1>10. CASE Store(p)
  <2>1. at[p] = "store" /\ at'[p] = "unlock" /\ UNCHANGED <<conn, q>>
    BY <1>3, <1>10 DEF Store
  <2> QED
    BY <1>6, <2>1 DEF Active, Pos
<1>11. CASE Unlock(p)
  <2>1. at[p] = "unlock" /\ UNCHANGED conn
    BY <1>11 DEF Unlock
  <2>2. \/ at'[p] \in {"closing", "log"}
        \/ at'[p] \in {"asking", "reading"} /\ q'[p] = q[p] + 1
    BY <1>11, NextQuestionEffect DEF Unlock
  <2>3. at'[p] \in {"asking", "reading"} /\ q'[p] = q[p] + 1 => Pos(p)' = Pos(p)
    BY <1>1, <2>1 DEF Pos
  <2> QED
    BY <1>5, <1>6, <2>1, <2>2, <2>3 DEF Active
<1>12. CASE Push(p) \/ Close(p)
  <2>1. at'[p] \in {"closing", "ended"}
    BY <1>3, <1>12 DEF Push, Close
  <2> QED
    BY <1>5, <2>1 DEF Active
<1> QED
  BY <1>7, <1>8, <1>9, <1>10, <1>11, <1>12

\* The answer that a thread counts was given to its question.
LEMMA ThreadAnswers ==
  ASSUME SurveyTypeOK, TallyOK, NEW p \in Respondent, StreamOK(p), Threading(p)
  PROVE  AnswerOK(p)' /\ CountedWereGiven(p)'
<1>1. UNCHANGED given
  BY Elsewhere
<1>2. AnswerOK(p)'
  <2>1. CASE ReadAnswer(p)
    BY <2>1, ReadFlow
  <2>2. CASE ReadFails(p) \/ ReadNothing(p)
    BY <2>2, FailedFlow
  <2>3. CASE Load(p) \/ (Lock(p) /\ at[p] = "lock")
    BY <1>1, <2>3 DEF Load, Lock, StreamOK, AnswerOK
  <2>4. ASSUME at'[p] \notin {"lock", "load", "store"}
        PROVE  AnswerOK(p)'
    BY <2>4 DEF AnswerOK
  <2>5. ASSUME NEW place, Goto(p, place)
        PROVE  at'[p] = place
    BY <2>5 DEF Goto, SurveyTypeOK
  <2>6. CASE Accept(p) \/ Store(p) \/ Push(p) \/ Close(p) \/ (Lock(p) /\ at[p] = "log")
    BY <2>4, <2>5, <2>6 DEF Accept, Store, Push, Close, Lock
  <2>7. CASE Ask(p)
    <3>1. at[p] = "asking" /\ (UNCHANGED at \/ Goto(p, "closing") \/ Goto(p, "reading"))
      BY <2>7 DEF Ask, SendPart, SendSurvey
    <3> QED
      BY <2>4, <2>5, <3>1
  <2>8. CASE Unlock(p)
    BY <2>4, <2>8, NextQuestionEffect DEF Unlock
  <2>9. Lock(p) => at[p] \in {"lock", "log"}
    BY DEF Lock
  <2> QED
    BY <2>1, <2>2, <2>3, <2>6, <2>7, <2>8, <2>9 DEF Threading, Thread
<1>3. CountedWereGiven(p)'
  <2>1. good'[p] => good[p]
    BY DEF Threading, Thread, Accept, Ask, ReadAnswer, ReadFails, ReadNothing, Lock, Load, Store,
           Unlock, Push, Close, SurveyTypeOK
  <2>2. CASE UNCHANGED counted
    BY <1>1, <2>1, <2>2 DEF StreamOK, CountedWereGiven
  <2>3. CASE Store(p)
    <3> SUFFICES ASSUME good[p], NEW i \in Question
                 PROVE  counted'[i][p] \subseteq {given[p][k] : k \in DOMAIN given[p] \intersect {i}}
      BY <1>1, <2>1 DEF CountedWereGiven
    <3>1. at[p] = "store" /\ counted'[q[p]][p] = {response[p]}
          /\ (i # q[p] => counted'[i][p] = counted[i][p])
      BY <2>3, StoreEffect
    <3>2. q[p] \in DOMAIN given[p] /\ response[p] = given[p][q[p]]
      BY <3>1 DEF StreamOK, AnswerOK
    <3>3. counted[i][p] \subseteq {given[p][k] : k \in DOMAIN given[p] \intersect {i}}
      BY DEF StreamOK, CountedWereGiven
    <3>4. CASE i = q[p]
      BY <3>1, <3>2, <3>4
    <3>5. CASE i # q[p]
      BY <3>1, <3>3, <3>5
    <3> QED
      BY <3>4, <3>5
  <2> QED
    BY <2>2, <2>3, ThreadMoves DEF Lock, Load, Unlock, tallies
<1> QED
  BY <1>2, <1>3

\* The streams after a step of a thread,
LEMMA ThreadStreams ==
  ASSUME SurveyTypeOK, TallyOK, \A x \in Respondent : StreamOK(x), NEW p \in Respondent, Threading(p)
  PROVE  \A x \in Respondent : StreamOK(x)'
<1>1. ASSUME NEW x \in Respondent \ {p}
      PROVE  StreamOK(x)'
  <2>1. up /\ x \in Client
    BY DEF Threading, Thread, Accept, Ask, ReadAnswer, ReadFails, ReadNothing, Lock, Load, Store,
           Unlock, Push, Close, Client
  <2> QED
    BY <2>1, Elsewhere, ThreadConn, StreamKept
<1>2. FlowOK(p)'
  <2>1. StreamOK(p) /\ FlowOK(p)
    BY DEF StreamOK
  <2> QED
    BY <2>1, AskFlow, QuietFlows, ReadFlow, FailedFlow DEF Threading, Thread
<1>3. StartOK(p)'
  <2>1. status[p] # "start" /\ UNCHANGED status
    BY NoThreadAtStart, Elsewhere DEF StreamOK
  <2> QED
    BY <2>1 DEF StartOK
<1>4. AnswerOK(p)' /\ CountedWereGiven(p)'
  BY ThreadAnswers
<1> QED
  BY <1>1, <1>2, <1>3, <1>4 DEF StreamOK

\* and after one of adminServer().
LEMMA AdminStreams ==
  ASSUME SurveyTypeOK, MutexOK, \A x \in Respondent : StreamOK(x), Admin
  PROVE  \A x \in Respondent : StreamOK(x)'
<1>1. up
  BY DEF Admin, AdminAccept, AdminLock, AdminCopiesCount, AdminCopiesList, AdminUnlock, AdminReport,
         AdminClose, AdminGoto
<1> QED
  BY <1>1, AdminLeaves, AdminConn, StreamKept

-----------------------------------------------------------------------------
(* The clients. *)

\* Whatever a client that goes away takes with it, its thread reads what it has sent.
LEMMA GoneFlow ==
  ASSUME SurveyTypeOK, NEW p \in Respondent, FlowOK(p), UNCHANGED <<up, at, q, good>>,
         \/ given'[p] = given[p]
         \/ \E r \in Nat : given'[p] = Append(given[p], r),
         good[p] /\ up /\ at[p] \in Active => Follows(conn'[p]["client"].data, given'[p], Pos(p)),
         status'[p] \in Outcomes
  PROVE  FlowOK(p)'
<1>1. status'[p] \notin {"reading", "asked"}
  BY DEF Outcomes
<1>2. Pos(p)' = Pos(p)
  BY DEF Pos
<1> QED
  BY <1>1, <1>2 DEF FlowOK

\* What the end of a client's process leaves under way.
LEMMA EndEffect ==
  ASSUME SurveyTypeOK, NEW p \in Respondent, NEW c \in AllConnections, NEW how, End(p, how, c)
  PROVE  /\ status'[p] = how
         /\ \E k \in 0 .. Len(c["client"].data) :
              conn'[p]["client"].data = SubSeq(c["client"].data, 1, k)
<1>1. p \in Client /\ conn \in [Client -> AllConnections]
  BY StreamTypes
<1>2. PICK d \in Closings(c, "client") : conn' = [conn EXCEPT ![p] = d]
  BY DEF End, Socket
<1>3. conn'[p] = d
  BY <1>1, <1>2
<1>4. \E k \in 0 .. Len(c["client"].data) : d["client"].data = SubSeq(c["client"].data, 1, k)
  BY ClientCloses
<1>5. status'[p] = how
  BY <1>1 DEF End, SurveyTypeOK
<1> QED
  BY <1>3, <1>4, <1>5

\* A client ends with its answers as they were.
LEMMA EndFlow ==
  ASSUME SurveyTypeOK, NEW p \in Respondent, FlowOK(p), UNCHANGED <<up, at, q, good, given>>,
         NEW c \in AllConnections, c["client"] = conn[p]["client"],
         NEW how \in Outcomes, End(p, how, c)
  PROVE  FlowOK(p)' /\ status'[p] # "start"
<1> DEFINE d == conn[p]["client"].data
<1>1. d \in Seq(Nat) /\ given[p] \in Seq(Nat) /\ Pos(p) \in Nat
  BY StreamTypes
<1>2. status'[p] = how /\ how # "start"
  BY EndEffect DEF Outcomes
<1>3. PICK k \in 0 .. Len(d) : conn'[p]["client"].data = SubSeq(d, 1, k)
  BY EndEffect
<1>4. good[p] /\ up /\ at[p] \in Active => Follows(d, given[p], Pos(p))
  BY DEF FlowOK
<1>5. good[p] /\ up /\ at[p] \in Active => Follows(SubSeq(d, 1, k), given[p], Pos(p))
  BY <1>1, <1>4, FollowsPrefix
<1> QED
  BY <1>2, <1>3, <1>5, GoneFlow

\* A client connects,
LEMMA ConnectFlow ==
  ASSUME SurveyTypeOK, NEW p \in Respondent, StreamOK(p), Connect(p)
  PROVE  FlowOK(p)' /\ status'[p] # "start"
<1>1. /\ at[p] = "none" /\ q[p] = 1 /\ given[p] = <<>> /\ good[p] /\ conn[p] = Idle
      /\ UNCHANGED <<up, at, q, good, given>>
  BY DEF StreamOK, StartOK, Connect, threads
<1>2. Pos(p)' = 0 /\ given'[p] = <<>> /\ good'[p]
  BY <1>1 DEF Pos
<1>3. /\ Idle["client"].data = <<>>
      /\ Established["client"].data = <<>> /\ IsOpen(Established, "client")
      /\ IsOpen(Established, "server")
  BY EndsAndPeers DEF Idle, Established, IsOpen
<1>4. \/ status'[p] = "reading" /\ conn'[p] = Established
      \/ status'[p] = "refused" /\ conn'[p] = Idle
  BY <1>1, StreamTypes DEF Connect, SurveyTypeOK
<1>5. conn'[p]["client"].data = <<>>
  BY <1>3, <1>4
<1>6. Follows(<<>>, <<>>, 0) /\ Len(<<>>) = 0 + Len(<<>>)
  BY DEF Follows
<1> QED
  BY <1>2, <1>3, <1>4, <1>5, <1>6 DEF FlowOK

\* reads,
LEMMA ReadsFlow ==
  ASSUME SurveyTypeOK, NEW p \in Respondent, StreamOK(p), ClientReads(p)
  PROVE  FlowOK(p)' /\ status'[p] # "start"
<1> DEFINE c == conn[p]
<1>1. /\ p \in Client /\ conn \in [Client -> AllConnections] /\ c \in AllConnections /\ FlowOK(p)
      /\ UNCHANGED <<up, at, q, good, given>> /\ status[p] = "reading"
  BY StreamTypes DEF StreamOK, ClientReads, threads
<1>2. CASE /\ HasData(c, "client")
           /\ conn' = [conn EXCEPT ![p] = SetData(c, "server", Tail(c["server"].data))]
           /\ UNCHANGED status \/ status' = [status EXCEPT ![p] = "asked"]
  <2> DEFINE b == SetData(c, "server", Tail(c["server"].data))
  <2>1. c["server"].data # <<>>
    BY <1>2, EndsAndPeers DEF HasData
  <2>2. b["client"] = c["client"] /\ b["server"].end = c["server"].end
    BY <1>1, <2>1, EndsAndPeers, OneRead
  <2>3. conn' = [conn EXCEPT ![p] = b]
    BY <1>2
  <2> HIDE DEF b, c
  <2>4. conn'[p] = b
    BY <1>1, <2>3
  <2>5. status'[p] \in {"reading", "asked"}
    BY <1>1, <1>2 DEF SurveyTypeOK
  <2>6. /\ conn'[p]["client"] = conn[p]["client"] /\ Pos(p)' = Pos(p)
        /\ IsOpen(conn'[p], "server") = IsOpen(conn[p], "server")
        /\ IsOpen(conn'[p], "client") = IsOpen(conn[p], "client")
    BY <1>1, <2>2, <2>4 DEF IsOpen, Pos, c
  <2> QED
    BY <1>1, <2>5, <2>6 DEF FlowOK
<1>3. CASE \E how \in Outcomes : End(p, how, c) \/ End(p, how, ErrorReturned(c, "client"))
  <2>1. /\ ErrorReturned(c, "client") \in AllConnections
        /\ ErrorReturned(c, "client")["client"] = c["client"]
    BY <1>1, ClientErrs
  <2> QED
    BY <1>1, <1>3, <2>1, EndFlow
<1>4. {"answered", "printed", "died"} \subseteq Outcomes
  BY DEF Outcomes
<1> QED
  BY <1>1, <1>2, <1>3, <1>4 DEF ClientReads

\* or sends an answer, and may end with it.
LEMMA AnswerFlow ==
  ASSUME SurveyTypeOK, NEW p \in Respondent, StreamOK(p), Answer(p)
  PROVE  FlowOK(p)' /\ status'[p] # "start"
<1> DEFINE c == conn[p]
           s == c["client"].data
           g == given[p]
           n == Pos(p)
<1>1. /\ p \in Client /\ conn \in [Client -> AllConnections] /\ c \in AllConnections /\ FlowOK(p)
      /\ s \in Seq(Nat) /\ g \in Seq(Nat) /\ n \in Nat
      /\ UNCHANGED <<up, at, q, good>> /\ status[p] = "asked"
  BY StreamTypes DEF StreamOK, Answer, threads
<1>2. status'[p] # "start"
  <2>1. \E how \in {"died", "answered", "reading", "asked"} : status' = [status EXCEPT ![p] = how]
    BY DEF Answer, End
  <2> QED
    BY <1>1, <2>1 DEF SurveyTypeOK
<1>3. CASE ~(up /\ at[p] \in Active)
  BY <1>1, <1>2, <1>3 DEF FlowOK
<1>4. CASE up /\ at[p] \in Active
  <2>1. /\ good[p] /\ IsOpen(c, "server") /\ IsOpen(c, "client") /\ Len(g) = n + Len(s)
        /\ Follows(s, g, n)
    BY <1>1, <1>4 DEF FlowOK
  <2>2. PICK r \in Answers :
          /\ given' = [given EXCEPT ![p] = Append(@, r)]
          /\ \/ RaisesSigPipe(c, "client")
             \/ \E d \in Sent(c, "client", r) : RaisesSigPipe(d, "client")
             \/ \E d \in IF c["server"].end = "broken" THEN {c} ELSE Sent(c, "client", r) :
                  \/ End(p, "died", d) \/ End(p, "answered", d)
                  \/ /\ conn' = [conn EXCEPT ![p] = d]
                     /\ \E how \in {"reading", "asked"} : status' = [status EXCEPT ![p] = how]
             \/ \E d \in Sent(c, "client", r) :
                  \/ End(p, "died", d) \/ End(p, "answered", d)
                  \/ /\ conn' = [conn EXCEPT ![p] = d]
                     /\ \E how \in {"reading", "asked"} : status' = [status EXCEPT ![p] = how]
    BY DEF Answer
  <2>3. r \in Nat
    BY SurveyAssumption
  <2> DEFINE t == Append(s, r)
             b == SetData(c, "client", t)
  <2>4. t \in Seq(Nat)
    BY <1>1, <2>3
  <2>5. given'[p] = Append(g, r)
    BY <1>1, <2>2 DEF SurveyTypeOK
  <2>6. Follows(t, given'[p], n) /\ Len(given'[p]) = n + Len(t)
    <3>1. Follows(t, Append(g, r), n)
      BY <1>1, <2>1, <2>3, FollowsLonger
    <3>2. Len(Append(g, r)) = Len(g) + 1 /\ Len(t) = Len(s) + 1 /\ Len(s) \in Nat
      BY <1>1, <2>3
    <3> HIDE DEF s, g, t, n
    <3> QED
      BY <1>1, <2>1, <2>5, <3>1, <3>2
  <2>7. Sent(c, "client", r) = {b}
    BY <2>1, EndsAndPeers DEF Sent, IsOpen
  <2>8. c["server"].end # "broken" /\ ~RaisesSigPipe(c, "client")
    BY <2>1, EndsAndPeers DEF IsOpen, RaisesSigPipe
  <2> HIDE DEF t
  <2>9. /\ b \in AllConnections /\ b["client"].data = t /\ b["client"].end = c["client"].end
        /\ b["server"] = c["server"]
    <3>1. c \in Connections(Nat) /\ "client" \in Ends /\ Peer("client") = "server"
      BY <1>1, EndsAndPeers DEF AllConnections
    <3> HIDE DEF c
    <3>2. /\ b \in Connections(Nat) /\ b["client"].data = t /\ b["client"].end = c["client"].end
          /\ b[Peer("client")] = c[Peer("client")]
      BY <2>4, <3>1, SetDataIsConnection
    <3> HIDE DEF b
    <3> QED
      BY <3>1, <3>2 DEF AllConnections
  <2> HIDE DEF b
  <2>10. ~RaisesSigPipe(b, "client")
    BY <2>8, <2>9, EndsAndPeers DEF RaisesSigPipe
  <2>11. CASE End(p, "died", b) \/ End(p, "answered", b)
    <3>1. status'[p] \in Outcomes
      BY <2>9, <2>11, EndEffect DEF Outcomes
    <3>2. PICK k \in 0 .. Len(t) : conn'[p]["client"].data = SubSeq(t, 1, k)
      BY <2>9, <2>11, EndEffect
    <3>3. given'[p] \in Seq(Nat)
      BY <1>1, <2>3, <2>5
    <3>4. Follows(SubSeq(t, 1, k), given'[p], n)
      BY <1>1, <2>4, <2>6, <3>2, <3>3, FollowsPrefix
    <3> QED
      BY <1>1, <1>2, <2>3, <2>5, <3>1, <3>2, <3>4, GoneFlow
  <2>12. CASE /\ conn' = [conn EXCEPT ![p] = b]
              /\ \E how \in {"reading", "asked"} : status' = [status EXCEPT ![p] = how]
    <3>1. conn'[p] = b
      BY <1>1, <2>12
    <3>2. IsOpen(conn'[p], "server") /\ IsOpen(conn'[p], "client") /\ good'[p]
      BY <1>1, <2>1, <2>9, <3>1 DEF IsOpen
    <3>3. Pos(p)' = n
      BY <1>1 DEF Pos
    <3> HIDE DEF n, g, s, c
    <3> QED
      BY <1>2, <2>6, <2>9, <3>1, <3>2, <3>3 DEF FlowOK
  <2> QED
    BY <2>2, <2>7, <2>8, <2>10, <2>11, <2>12
<1> QED
  BY <1>3, <1>4

\* The streams after a step of a client's process.
LEMMA ClientStreams ==
  ASSUME SurveyTypeOK, \A x \in Respondent : StreamOK(x), NEW p \in Client, ClientSide(p)
  PROVE  \A x \in Respondent : StreamOK(x)'
<1>1. /\ UNCHANGED <<up, at, q, response, good, old, counted>>
      /\ \A x \in Client \ {p} : conn'[x] = conn[x] /\ status'[x] = status[x]
      /\ \A x \in Respondent \ {p} : given'[x] = given[x]
  BY ClientLeaves
<1>2. ASSUME NEW x \in Respondent, x # p
      PROVE  StreamOK(x)'
  <2>1. x \in Client
    BY DEF Client
  <2> QED
    BY <1>1, <1>2, <2>1, StreamKept
<1>3. ASSUME p \in Respondent
      PROVE  StreamOK(p)'
  <2>1. FlowOK(p)' /\ status'[p] # "start"
    <3>1. CASE Killed(p)
      <4>1. /\ End(p, "killed", conn[p]) /\ UNCHANGED given /\ "killed" \in Outcomes /\ FlowOK(p)
            /\ conn[p] \in AllConnections
        BY <1>3, <3>1, StreamTypes DEF Killed, Outcomes, StreamOK
      <4> QED
        BY <1>1, <1>3, <4>1, EndFlow
    <3> QED
      BY <1>3, <3>1, ConnectFlow, ReadsFlow, AnswerFlow DEF ClientSide
  <2>2. /\ DOMAIN given[p] \subseteq DOMAIN given'[p]
        /\ \A k \in DOMAIN given[p] : given'[p][k] = given[p][k]
    <3>1. given[p] \in Seq(Answers)
      BY <1>3, StreamTypes
    <3>2. CASE UNCHANGED given
      BY <3>2
    <3>3. CASE \E r \in Answers : given' = [given EXCEPT ![p] = Append(@, r)]
      <4>1. PICK r \in Answers : given' = [given EXCEPT ![p] = Append(@, r)]
        BY <3>3
      <4>2. given'[p] = Append(given[p], r)
        BY <1>3, <4>1 DEF SurveyTypeOK
      <4> QED
        BY <3>1, <4>2
    <3> QED
      BY <3>2, <3>3 DEF ClientSide, Connect, ClientReads, Killed, Answer
  <2>3. AnswerOK(p)'
    BY <1>1, <1>3, <2>2 DEF StreamOK, AnswerOK
  <2>4. CountedWereGiven(p)'
    BY <1>1, <1>3, <2>2 DEF StreamOK, CountedWereGiven
  <2>5. StartOK(p)'
    BY <2>1 DEF StartOK
  <2> QED
    BY <2>1, <2>3, <2>4, <2>5 DEF StreamOK
<1> QED
  BY <1>2, <1>3

-----------------------------------------------------------------------------
(* Together. *)

\* The invariant holds at first,
LEMMA InitIsOK ==
  Init => IInv
<1> SUFFICES ASSUME Init
             PROVE  IInv
  OBVIOUS
<1>1. Zero \in [Question -> [Answers -> Nat]] /\ 1 \in Question /\ 1 \in 1 .. Parts
      /\ limit \in Nat /\ 0 \in 0 .. limit
  BY SurveyAssumption DEF Zero, Question, Init
<1>2. SurveyTypeOK
  <2>1. /\ program \in Programs /\ limit \in ThreadLimits /\ up \in BOOLEAN /\ thrown \in BOOLEAN
        /\ conn \in [Client -> Connections(Nat)]
        /\ created \in 0 .. limit
    BY <1>1, IdleAndEstablished DEF Init, AllConnections
  <2>2. /\ at \in [Respondent -> Places]
        /\ q \in [Respondent -> Question] /\ part \in [Respondent -> 1 .. Parts]
        /\ response \in [Respondent -> Nat] /\ good \in [Respondent -> BOOLEAN]
        /\ old \in [Respondent -> Nat]
    BY <1>1 DEF Init, Places
  <2>3. /\ holder \in Respondent \union {"admin", "nobody"}
        /\ rCount \in [Question -> [Answers -> Nat]]
        /\ addrList \in Seq(Respondent)
        /\ adminAt \in {"none", "accept", "lock", "copy", "list", "unlock", "report", "flush", "close"}
        /\ adminSock \in Administrator \union {"nobody"}
        /\ myCount \in [Question -> [Answers -> Nat]] /\ myList \in Seq(Respondent)
    BY <1>1 DEF Init
  <2>4. /\ status \in [Client -> Outcomes \union {"start", "reading", "asked"}]
        /\ seen \in [Client -> Nat] /\ given \in [Respondent -> Seq(Answers)]
        /\ counted \in [Question -> [Respondent -> SUBSET Answers]]
    BY DEF Init
  <2> QED
    BY <2>1, <2>2, <2>3, <2>4 DEF SurveyTypeOK
<1>3. MutexOK
  BY DEF Init, MutexOK
<1>4. TallyOK
  <2>1. \A i \in Question : \A r \in Answers : Counted(i, r) = {} /\ rCount[i][r] = 0
    BY DEF Init, Counted, Zero
  <2>2. Sums
    BY <2>1, FS_EmptySet DEF Sums
  <2> QED
    BY <2>2 DEF Init, TallyOK, CountOK
<1>5. ReportOK
  BY DEF Init, ReportOK, Listed
<1>6. ASSUME NEW p \in Respondent
      PROVE  StreamOK(p)
  <2>1. /\ at[p] = "none" /\ q[p] = 1 /\ given[p] = <<>> /\ good[p] /\ conn[p] = Idle
        /\ status[p] = "start" /\ \A i \in Question : counted[i][p] = {}
    BY DEF Init, Client
  <2>2. Idle["client"].data = <<>> /\ Follows(<<>>, given[p], Pos(p))
    BY EndsAndPeers DEF Idle, Follows
  <2> QED
    BY <2>1, <2>2 DEF StreamOK, FlowOK, StartOK, AnswerOK, CountedWereGiven
<1> QED
  BY <1>2, <1>3, <1>4, <1>5, <1>6 DEF IInv

\* the failure of an accept() keeps it,
LEMMA FailKeeps ==
  ASSUME IInv, Failing
  PROVE  IInv'
<1>1. SurveyTypeOK /\ MutexOK /\ TallyOK /\ ReportOK /\ \A p \in Respondent : StreamOK(p)
  BY DEF IInv
<1>2. /\ up /\ UNCHANGED <<at, q, response, good, old, holder, rCount, addrList, counted, adminSock,
                          myCount, myList, status, given>>
      /\ adminAt' = adminAt \/ adminAt' = "none"
      /\ \A x \in Respondent : up' => conn'[x] = conn[x]
      /\ \A x \in Respondent : ~IsOpen(conn[x], "server") => conn'[x] = conn[x]
  <2>1. Respondent \subseteq Client
    BY DEF Client
  <2> QED
    BY <1>1, <2>1, FailLeaves
<1>3. SurveyTypeOK'
  BY <1>1, FailLeaves DEF SurveyTypeOK, AllConnections
<1>4. MutexOK'
  BY <1>1, <1>2 DEF MutexOK
<1>5. TallyOK'
  BY <1>1, <1>2, OthersTally
<1>6. ReportOK'
  BY <1>1, <1>2 DEF ReportOK, Listed, Counted
<1>7. \A p \in Respondent : StreamOK(p)'
  BY <1>1, <1>2, StreamKept
<1> QED
  BY <1>3, <1>4, <1>5, <1>6, <1>7 DEF IInv

\* and no step breaks it.
LEMMA StepIsOK ==
  IInv /\ [Next]_vvars => IInv'
<1> SUFFICES ASSUME IInv, [Next]_vvars
             PROVE  IInv'
  OBVIOUS
<1>1. SurveyTypeOK /\ MutexOK /\ TallyOK /\ ReportOK /\ \A p \in Respondent : StreamOK(p)
  BY DEF IInv
<1>2. ASSUME NEW p \in Respondent, Threading(p)
      PROVE  IInv'
  BY <1>1, <1>2, ThreadTypes, ThreadMutex, ThreadTally, ThreadReport, ThreadStreams DEF IInv
<1>3. CASE Admin
  BY <1>1, <1>3, AdminTypes, AdminMutex, AdminLeaves, OthersTally, AdminReports, AdminStreams
     DEF IInv
<1>4. ASSUME NEW p \in Client, ClientSide(p)
      PROVE  IInv'
  <2>1. MutexOK'
    BY <1>1, <1>4, ClientLeaves DEF MutexOK
  <2> QED
    BY <1>1, <1>4, <2>1, ClientTypes, ClientLeaves, OthersTally, OthersReport, ClientStreams DEF IInv
<1>7. CASE Failing
  BY <1>1, <1>7, FailKeeps
<1>5. CASE UNCHANGED vvars
  <2>1. SurveyTypeOK' /\ MutexOK'
    BY <1>1, <1>5 DEF vvars, process, threads, tallies, admin, clients, SurveyTypeOK, MutexOK
  <2>2. TallyOK' /\ ReportOK'
    BY <1>1, <1>5, OthersTally, OthersReport DEF vvars, threads, tallies, admin
  <2>3. \A p \in Respondent : StreamOK(p)'
    BY <1>1, <1>5, StreamKept DEF vvars, threads, tallies, admin, clients
  <2> QED
    BY <2>1, <2>2, <2>3 DEF IInv
<1>6. Respondent \subseteq Client
  BY DEF Client
<1> QED
  BY <1>2, <1>3, <1>4, <1>5, <1>6, <1>7 DEF Next, Threading, ClientSide, Failing

\* The inductive invariant: the types, the mutex, the tallies, the report and the streams.
THEOREM InvHolds == Spec => []IInv
BY InitIsOK, StepIsOK, PTL DEF Spec

\* Every variable has its type.
THEOREM TypesHold == Spec => []SurveyTypeOK
<1>1. IInv => SurveyTypeOK
  BY DEF IInv
<1> QED
  BY <1>1, InvHolds, PTL

\* However many threads count at a time, no answer is lost or counted twice, and what is
\* counted for a respondent whose stream has not failed is what it answered.
THEOREM TalliesHold == Spec => []TalliesAreAnswers
<1>1. IInv => TalliesAreAnswers
  BY DEF IInv, TallyOK, Sums, StreamOK, CountedWereGiven, TalliesAreAnswers
<1> QED
  BY <1>1, InvHolds, PTL

\* A report counts the answers of all whom it lists.
THEOREM ReportHolds == Spec => []ReportIsConsistent
<1>1. IInv => ReportIsConsistent
  <2> SUFFICES ASSUME IInv, adminAt \in {"unlock", "report", "flush", "close"},
                      NEW i \in Question, NEW r \in Answers
               PROVE  Cardinality(Counted(i, r) \intersect Completed(myList)) <= myCount[i][r]
    BY DEF ReportIsConsistent
  <2> DEFINE S == Counted(i, r) \intersect Completed(myList)
             T == Counted(i, r) \intersect Listed(myList)
  <2>1. IsFiniteSet(T)
    BY SurveyAssumption, FS_Subset, T \subseteq Client DEF Client, Counted
  <2>2. S \subseteq T
    BY DEF Completed, Listed
  <2>3. Cardinality(T) <= myCount[i][r] /\ myCount[i][r] \in Nat
    BY DEF IInv, ReportOK, SurveyTypeOK
  <2> HIDE DEF S, T
  <2>4. Cardinality(S) <= Cardinality(T) /\ Cardinality(S) \in Nat /\ Cardinality(T) \in Nat
    BY <2>1, <2>2, FS_Subset, FS_CardinalityType
  <2>5. Cardinality(S) <= myCount[i][r]
    BY <2>3, <2>4
  <2> QED
    BY <2>5 DEF S
<1> QED
  BY <1>1, InvHolds, PTL

-----------------------------------------------------------------------------
(* What ends the server: a send() to a client that is gone. A client that is *)
(* not killed goes when it has read all that the server had to send it.      *)

\* How many parts of questions p's thread has sent.
PartsSent(p) == Parts * (q[p] - 1) + (IF at[p] \in {"none", "asking"} THEN part[p] - 1 ELSE Parts)

\* SurveyServer: what p's client has read, and will read, is what its thread has sent. So
\* while a question is still to come, the client is there, unless it has been killed.
PartsOK(p) ==
  program = "SurveyServer" /\ up /\ at[p] \in Active =>
    /\ at[p] \notin {"none", "asking"} => part[p] = 1
    /\ status[p] = "start" => seen[p] = 0
    /\ status[p] \in {"reading", "asked"} => Len(conn[p]["server"].data) + seen[p] <= PartsSent(p)
    /\ status[p] = "asked" => seen[p] = Needed(p)
    /\ at[p] \in {"none", "asking"} \/ q[p] < Questions =>
         status[p] \in {"start", "reading", "asked", "killed"}

\* An administrator reads until the server closes, and the one served is connected.
AdminsOK ==
  up =>
    /\ \A p \in Administrator :
         IsOpen(conn[p], "server") => IsOpen(conn[p], "client") \/ status[p] = "killed"
    /\ adminAt \notin {"none", "accept"} => IsOpen(conn[adminSock], "server")

DInv == (\A p \in Respondent : PartsOK(p)) /\ AdminsOK /\ EndsForAReason

\* Of one factor more, the product is greater by the other factor at least.
LEMMA AtLeastOneMore ==
  \A k, n, m \in Nat : m < n => k * m + k <= k * n
<1> SUFFICES ASSUME NEW k \in Nat, NEW n \in Nat, NEW m \in Nat, m < n
             PROVE  k * m + k <= k * n
  OBVIOUS
<1>1. PICK i \in Nat : n = m + 1 + i
  <2>1. n - m - 1 \in Nat /\ n = m + 1 + (n - m - 1)
    OBVIOUS
  <2> QED
    BY <2>1
<1>2. k * n = k * m + k + k * i
  BY <1>1
<1>3. k * i \in Nat /\ k * m \in Nat /\ k * n \in Nat
  <2>1. \A x, y \in Nat : x * y \in Nat
    OBVIOUS
  <2> QED
    BY <2>1
<1> QED
  BY <1>2, <1>3

\* What the counts are made of.
LEMMA PartsTypes ==
  ASSUME SurveyTypeOK, NEW p \in Respondent
  PROVE  /\ Parts \in Nat \ {0} /\ Questions \in Nat \ {0} /\ q[p] \in 1 .. Questions
         /\ part[p] \in 1 .. Parts /\ seen[p] \in Nat /\ Len(conn[p]["server"].data) \in Nat
         /\ Parts * (q[p] - 1) \in Nat /\ PartsSent(p) \in Nat
         /\ status[p] \in Outcomes \union {"start", "reading", "asked"}
<1>1. Parts \in Nat \ {0} /\ Questions \in Nat \ {0}
  BY SurveyAssumption
<1>2. q[p] \in 1 .. Questions /\ part[p] \in 1 .. Parts
  BY DEF SurveyTypeOK, Question
<1>3. p \in Client /\ seen[p] \in Nat /\ status[p] \in Outcomes \union {"start", "reading", "asked"}
  BY DEF SurveyTypeOK, Client
<1>4. conn[p] \in AllConnections
  BY StreamTypes
<1>5. conn[p]["server"].data \in Seq(Nat)
  BY <1>4 DEF AllConnections, Connections, Ends
<1>6. Len(conn[p]["server"].data) \in Nat
  BY <1>5
<1>7. \A a, b \in Nat : a * b \in Nat
  OBVIOUS
<1>8. Parts * (q[p] - 1) \in Nat
  BY <1>1, <1>2, <1>7
<1>9. PartsSent(p) \in Nat
  BY <1>1, <1>2, <1>8 DEF PartsSent
<1> QED
  BY <1>1, <1>2, <1>3, <1>6, <1>8, <1>9

\* Where SurveyServer's thread goes, as long as it goes on: it sends a part of a question,
\* or it is at the same question, or it comes to ask the next.
LEMMA ThreadPlaces ==
  ASSUME SurveyTypeOK, NEW p \in Respondent, Threading(p), program = "SurveyServer",
         at'[p] \in Active, ~Ask(p)
  PROVE  /\ at[p] \in Active /\ UNCHANGED part /\ conn'[p]["server"] = conn[p]["server"]
         /\ \/ q'[p] = q[p] /\ at[p] = "none" /\ at'[p] = "asking"
            \/ q'[p] = q[p] /\ at[p] \notin {"none", "asking"} /\ at'[p] \notin {"none", "asking"}
            \/ q'[p] = q[p] + 1 /\ at[p] \notin {"none", "asking"} /\ at'[p] = "asking"
<1>1. at \in [Respondent -> Places] /\ q \in [Respondent -> Question]
      /\ conn \in [Client -> AllConnections] /\ conn[p] \in AllConnections /\ p \in Client
  BY StreamTypes DEF SurveyTypeOK
<1>2. \A place : Goto(p, place) => at'[p] = place
  BY <1>1 DEF Goto
<1>3. CASE Accept(p)
  BY <1>1, <1>2, <1>3 DEF Accept, Active
<1>4. CASE ReadAnswer(p)
  <2>1. at[p] = "reading" /\ UNCHANGED part /\ Got(p, Incoming(conn[p], "server"))
        /\ conn' = [conn EXCEPT ![p] = SetData(@, "client", Tail(@["client"].data))]
        /\ conn[p]["client"].data # <<>>
    BY <1>4, EndsAndPeers DEF ReadAnswer, HasData
  <2>2. \/ at'[p] \in {"closing", "log"} /\ q'[p] = q[p]
        \/ at'[p] = "asking" /\ q'[p] = q[p] + 1
        \/ at'[p] = "lock" /\ q'[p] = q[p]
    BY <2>1, GotEffect
  <2>3. conn'[p]["server"] = conn[p]["server"]
    <3>1. SetData(conn[p], "client", Tail(conn[p]["client"].data))["server"] = conn[p]["server"]
      BY <1>1, <2>1, EndsAndPeers, OneRead
    <3>2. conn'[p] = SetData(conn[p], "client", Tail(conn[p]["client"].data))
      BY <1>1, <2>1
    <3> QED
      BY <3>1, <3>2
  <2> QED
    BY <2>1, <2>2, <2>3 DEF Active
<1>5. CASE ReadFails(p)
  <2>1. at'[p] = "closing"
    BY <1>2, <1>5 DEF ReadFails
  <2> QED
    BY <2>1 DEF Active
<1>6. CASE ReadNothing(p)
  <2>1. PICK r : Got(p, r)
    BY <1>6 DEF ReadNothing
  <2>2. \/ at'[p] \in {"closing", "log"} /\ q'[p] = q[p]
        \/ at'[p] = "asking" /\ q'[p] = q[p] + 1
        \/ at'[p] = "lock" /\ q'[p] = q[p]
    BY <2>1, GotEffect
  <2> QED
    BY <1>6, <2>2 DEF ReadNothing, Active
<1>7. CASE Lock(p) \/ Load(p) \/ Store(p)
  BY <1>1, <1>2, <1>7 DEF Lock, Load, Store, Active
<1>8. CASE Unlock(p)
  <2>1. at[p] = "unlock" /\ UNCHANGED <<part, conn>> /\ NextQuestion(p)
    BY <1>8 DEF Unlock
  <2>2. \/ at'[p] \in {"closing", "log"} /\ q'[p] = q[p]
        \/ at'[p] = "asking" /\ q'[p] = q[p] + 1
    BY <2>1, NextQuestionEffect
  <2> QED
    BY <2>1, <2>2 DEF Active
<1>9. CASE Push(p) \/ Close(p)
  <2>1. at'[p] \in {"closing", "ended"}
    BY <1>2, <1>9 DEF Push, Close
  <2> QED
    BY <2>1 DEF Active
<1> QED
  BY <1>3, <1>4, <1>5, <1>6, <1>7, <1>8, <1>9 DEF Threading, Thread

\* A thread's step and its own client.
LEMMA ThreadParts ==
  ASSUME SurveyTypeOK, SurveyTypeOK', NEW p \in Respondent, StreamOK(p), PartsOK(p), Threading(p)
  PROVE  PartsOK(p)'
<1> SUFFICES ASSUME program' = "SurveyServer", up', at'[p] \in Active
             PROVE  /\ at'[p] \notin {"none", "asking"} => part'[p] = 1
                    /\ status'[p] = "start" => seen'[p] = 0
                    /\ status'[p] \in {"reading", "asked"} =>
                         Len(conn'[p]["server"].data) + seen'[p] <= PartsSent(p)'
                    /\ status'[p] = "asked" => seen'[p] = Needed(p)'
                    /\ at'[p] \in {"none", "asking"} \/ q'[p] < Questions =>
                         status'[p] \in {"start", "reading", "asked", "killed"}
  BY DEF PartsOK
<1>1. program = "SurveyServer" /\ UNCHANGED <<status, seen, given>> /\ up
  <2>1. UNCHANGED <<program, status, given>>
    BY Elsewhere
  <2> QED
    BY <2>1 DEF Threading, Thread, Accept, Ask, ReadAnswer, ReadFails, ReadNothing, Lock, Load,
                Store, Unlock, Push, Close, clients
<1>2. Needed(p)' = Needed(p)
  BY <1>1 DEF Needed
<1>3. /\ Parts \in Nat \ {0} /\ Questions \in Nat /\ q[p] \in 1 .. Questions /\ q'[p] \in 1 .. Questions
      /\ part[p] \in 1 .. Parts /\ part'[p] \in 1 .. Parts /\ Parts * (q[p] - 1) \in Nat
      /\ seen[p] \in Nat /\ Len(conn[p]["server"].data) \in Nat
  <2>1. q'[p] \in 1 .. Questions /\ part'[p] \in 1 .. Parts
    BY DEF SurveyTypeOK, Question
  <2> QED
    BY <2>1, PartsTypes
<1>4. CASE ~Ask(p)
  <2>1. at[p] \in Active /\ UNCHANGED part /\ conn'[p]["server"] = conn[p]["server"]
    BY <1>1, <1>4, ThreadPlaces
  <2>2. \/ q'[p] = q[p] /\ at[p] = "none" /\ at'[p] = "asking"
        \/ q'[p] = q[p] /\ at[p] \notin {"none", "asking"} /\ at'[p] \notin {"none", "asking"}
        \/ q'[p] = q[p] + 1 /\ at[p] \notin {"none", "asking"} /\ at'[p] = "asking"
    BY <1>1, <1>4, ThreadPlaces
  <2>3. /\ at[p] \notin {"none", "asking"} => part[p] = 1
        /\ status[p] = "start" => seen[p] = 0
        /\ status[p] \in {"reading", "asked"} =>
             Len(conn[p]["server"].data) + seen[p] <= PartsSent(p)
        /\ status[p] = "asked" => seen[p] = Needed(p)
        /\ at[p] \in {"none", "asking"} \/ q[p] < Questions =>
             status[p] \in {"start", "reading", "asked", "killed"}
    BY <1>1, <2>1 DEF PartsOK
  <2>4. PartsSent(p)' = PartsSent(p)
    <3>1. PartsSent(p)' = Parts * (q'[p] - 1) + (IF at'[p] \in {"none", "asking"} THEN part'[p] - 1 ELSE Parts)
      BY DEF PartsSent
    <3>2. CASE q'[p] = q[p]
      BY <2>1, <2>2, <3>1, <3>2, <1>3 DEF PartsSent
    <3>3. CASE q'[p] = q[p] + 1
      <4> DEFINE a == Parts * (q[p] - 1)
                 b == Parts * (q'[p] - 1)
      <4>1. a \in Nat /\ b = a + Parts
        BY <1>3, <3>3
      <4>2. /\ at[p] \notin {"none", "asking"} /\ at'[p] = "asking"
            /\ part[p] = 1 /\ part'[p] = 1
        BY <1>3, <2>1, <2>2, <2>3, <3>3
      <4>3. PartsSent(p) = a + Parts /\ PartsSent(p)' = b + (1 - 1)
        BY <3>1, <4>2 DEF PartsSent
      <4> HIDE DEF a, b
      <4> QED
        BY <1>3, <4>1, <4>3
    <3> QED
      BY <2>2, <3>2, <3>3
  <2>5. at'[p] \in {"none", "asking"} \/ q'[p] < Questions =>
          at[p] \in {"none", "asking"} \/ q[p] < Questions
    BY <1>3, <2>2
  <2> QED
    BY <1>1, <1>2, <2>1, <2>2, <2>3, <2>4, <2>5
<1>5. CASE Ask(p)
  <2>1. at[p] = "asking" /\ SendPart(p) /\ UNCHANGED q
    BY <1>1, <1>5 DEF Ask
  <2>2. /\ status[p] = "start" => seen[p] = 0
        /\ status[p] \in {"reading", "asked"} =>
             Len(conn[p]["server"].data) + seen[p] <= PartsSent(p)
        /\ status[p] = "asked" => seen[p] = Needed(p)
        /\ status[p] \in {"start", "reading", "asked", "killed"}
    BY <1>1, <2>1 DEF PartsOK, Active
  <2>3. PICK d \in Sent(conn[p], "server", q[p]) :
          /\ conn' = [conn EXCEPT ![p] = d]
          /\ IF SendThrows(p, d) THEN Goto(p, "closing") /\ UNCHANGED part
             ELSE IF part[p] < Parts
             THEN part' = [part EXCEPT ![p] = @ + 1] /\ UNCHANGED at
             ELSE part' = [part EXCEPT ![p] = 1] /\ Goto(p, "reading")
    BY <2>1 DEF SendPart, Die
  <2>4. conn \in [Client -> AllConnections] /\ conn[p] \in AllConnections /\ p \in Client
    BY StreamTypes
  <2>5. at \in [Respondent -> Places] /\ part \in [Respondent -> 1 .. Parts]
    BY DEF SurveyTypeOK
  <2>6. \/ part[p] < Parts /\ part'[p] = part[p] + 1 /\ at'[p] = "asking"
        \/ part[p] = Parts /\ part'[p] = 1 /\ at'[p] = "reading"
    <3>1. ~SendThrows(p, d)
      BY <2>3, <2>5 DEF Goto, Active
    <3>2. CASE part[p] < Parts
      BY <2>1, <2>3, <2>5, <3>1, <3>2
    <3>3. CASE ~(part[p] < Parts)
      <4>1. part[p] = Parts
        BY <1>3, <3>3
      <4> QED
        BY <2>3, <2>5, <3>1, <3>3, <4>1 DEF Goto
    <3> QED
      BY <3>2, <3>3
  <2>7. PartsSent(p)' = PartsSent(p) + 1
    <3> DEFINE a == Parts * (q[p] - 1)
    <3>1. PartsSent(p)' = a + (IF at'[p] \in {"none", "asking"} THEN part'[p] - 1 ELSE Parts)
      BY <2>1 DEF PartsSent
    <3>2. PartsSent(p) = a + (part[p] - 1) /\ a \in Nat
      BY <1>3, <2>1 DEF PartsSent
    <3> HIDE DEF a
    <3>3. \/ PartsSent(p)' = a + (part[p] + 1 - 1) /\ part[p] \in Nat
          \/ PartsSent(p)' = a + Parts /\ part[p] = Parts
      BY <1>3, <2>6, <3>1
    <3> QED
      BY <1>3, <3>2, <3>3
  <2>8. status[p] \in {"reading", "asked"} =>
          Len(conn'[p]["server"].data) = Len(conn[p]["server"].data) + 1
    <3> SUFFICES ASSUME status[p] \in {"reading", "asked"}
                 PROVE  Len(conn'[p]["server"].data) = Len(conn[p]["server"].data) + 1
      OBVIOUS
    <3>1. IsOpen(conn[p], "client")
      BY <1>1, <2>1 DEF StreamOK, FlowOK, Active
    <3>2. d["server"].data = Append(conn[p]["server"].data, q[p])
      <4>1. /\ conn[p] \in Connections(Nat) /\ "server" \in Ends /\ q[p] \in Nat
            /\ IsOpen(conn[p], Peer("server"))
        BY <1>3, <2>4, <3>1, EndsAndPeers DEF AllConnections
      <4> QED
        BY <2>3, <4>1, SentToOpen
    <3>3. conn[p]["server"].data \in Seq(Nat) /\ q[p] \in Nat
      BY <1>3, <2>4 DEF AllConnections, Connections, Ends
    <3>4. conn'[p] = d
      BY <2>3, <2>4
    <3> QED
      BY <3>2, <3>3, <3>4
  <2>9. status[p] \in {"reading", "asked"} =>
          Len(conn'[p]["server"].data) + seen[p] <= PartsSent(p)'
    <3>1. PartsSent(p) \in Nat
      BY PartsTypes
    <3> HIDE DEF PartsSent
    <3> QED
      BY <1>3, <2>2, <2>7, <2>8, <3>1
  <2> QED
    BY <1>1, <1>2, <2>2, <2>6, <2>9
<1> QED
  BY <1>4, <1>5

\* A client that ends, or has its connection reset, leaves the server's end as it is.
LEMMA ClientLeavesServer ==
  ASSUME NEW c \in AllConnections, NEW b \in {c, ErrorReturned(c, "client")},
         NEW d \in Closings(b, "client"), AtReset(c, "client") \/ b = c
  PROVE  IsOpen(d, "server") => IsOpen(c, "server") /\ b = c
<1>1. b \in AllConnections
  BY ClientErrs
<1>2. d["server"].end = b["server"].end
  BY <1>1, EndsAndPeers, ClosingsIsConnection DEF AllConnections
<1>3. CASE b = c
  BY <1>2, <1>3 DEF IsOpen
<1>4. CASE b # c
  <2>1. b["server"].end = "broken"
    <3>1. "broken" \in StreamStates /\ c \in Connections(Nat)
      BY DEF StreamStates, AllConnections
    <3>2. SetEnd(c, "server", "broken")["server"].end = "broken"
      BY <3>1, EndsAndPeers, SetEndIsConnection
    <3> QED
      BY <1>4, <3>2, EndsAndPeers DEF ErrorReturned
  <2> QED
    BY <1>2, <2>1 DEF IsOpen
<1> QED
  BY <1>3, <1>4

\* A client's step and what its thread has sent.
LEMMA ClientParts ==
  ASSUME SurveyTypeOK, SurveyTypeOK', NEW p \in Respondent, StreamOK(p), PartsOK(p), ClientSide(p)
  PROVE  PartsOK(p)'
<1> SUFFICES ASSUME program' = "SurveyServer", up', at'[p] \in Active
             PROVE  /\ at'[p] \notin {"none", "asking"} => part'[p] = 1
                    /\ status'[p] = "start" => seen'[p] = 0
                    /\ status'[p] \in {"reading", "asked"} =>
                         Len(conn'[p]["server"].data) + seen'[p] <= PartsSent(p)'
                    /\ status'[p] = "asked" => seen'[p] = Needed(p)'
                    /\ at'[p] \in {"none", "asking"} \/ q'[p] < Questions =>
                         status'[p] \in {"start", "reading", "asked", "killed"}
  BY DEF PartsOK
<1>1. /\ program = "SurveyServer" /\ up /\ at[p] \in Active /\ UNCHANGED <<at, q, part>> /\ p \in Client
      /\ conn \in [Client -> AllConnections] /\ conn[p] \in AllConnections
      /\ status \in [Client -> Outcomes \union {"start", "reading", "asked"}]
      /\ seen \in [Client -> Nat] /\ given \in [Respondent -> Seq(Answers)]
  <2>1. UNCHANGED <<program, up, at, q, part>> /\ p \in Client
    BY ClientLeaves DEF Client
  <2> QED
    BY <2>1, StreamTypes DEF SurveyTypeOK
<1>2. /\ at[p] \notin {"none", "asking"} => part[p] = 1
      /\ status[p] = "start" => seen[p] = 0
      /\ status[p] \in {"reading", "asked"} => Len(conn[p]["server"].data) + seen[p] <= PartsSent(p)
      /\ status[p] = "asked" => seen[p] = Needed(p)
      /\ at[p] \in {"none", "asking"} \/ q[p] < Questions =>
           status[p] \in {"start", "reading", "asked", "killed"}
  BY <1>1 DEF PartsOK
<1>3. PartsSent(p)' = PartsSent(p) /\ PartsSent(p) \in Nat /\ seen[p] \in Nat
      /\ Len(conn[p]["server"].data) \in Nat
  BY <1>1, PartsTypes DEF PartsSent
<1>4. status[p] \in {"reading", "asked"} => IsOpen(conn[p], "server") /\ IsOpen(conn[p], "client")
  BY <1>1 DEF StreamOK, FlowOK
<1>5. CASE Connect(p)
  <2>1. /\ status[p] = "start" /\ status' = [status EXCEPT ![p] = "reading"]
        /\ conn' = [conn EXCEPT ![p] = Established] /\ UNCHANGED <<seen, given>>
    BY <1>1, <1>5 DEF Connect
  <2>2. status'[p] = "reading" /\ conn'[p] = Established /\ seen'[p] = 0
    BY <1>1, <1>2, <2>1
  <2>3. conn'[p]["server"].data = <<>> /\ Len(<<>>) = 0
    BY <2>2 DEF Established, Ends
  <2> QED
    BY <1>1, <1>2, <1>3, <2>2, <2>3
<1>6. CASE Killed(p)
  <2>1. status'[p] = "killed"
    BY <1>1, <1>6 DEF Killed, End
  <2> QED
    BY <1>1, <1>2, <2>1
<1>7. CASE ClientReads(p)
  <2>1. status[p] = "reading" /\ UNCHANGED given /\ HasData(conn[p], "client")
        /\ conn' = [conn EXCEPT ![p] = SetData(conn[p], "server", Tail(conn[p]["server"].data))]
        /\ seen' = [seen EXCEPT ![p] = @ + 1]
        /\ status' = IF p \in Respondent /\ seen'[p] = Needed(p)
                       THEN [status EXCEPT ![p] = "asked"] ELSE status
    <3>1. status[p] = "reading"
      BY <1>7 DEF ClientReads
    <3>2. conn[p]["server"].end = "open"
      BY <1>4, <3>1 DEF IsOpen
    <3>3. ~AtEof(conn[p], "client") /\ ~AtReset(conn[p], "client")
      BY <3>2, EndsAndPeers DEF AtEof, AtReset
    <3> QED
      BY <1>7, <3>3 DEF ClientReads
  <2>2. conn[p]["server"].data # <<>>
    BY <2>1, EndsAndPeers DEF HasData
  <2>3. conn'[p]["server"].data = Tail(conn[p]["server"].data) /\ seen'[p] = seen[p] + 1
    <3>1. SetData(conn[p], "server", Tail(conn[p]["server"].data))["server"].data = Tail(conn[p]["server"].data)
      BY <1>1, <2>2, EndsAndPeers, OneRead
    <3>2. conn'[p] = SetData(conn[p], "server", Tail(conn[p]["server"].data))
      BY <1>1, <2>1
    <3>3. seen'[p] = seen[p] + 1
      BY <1>1, <2>1
    <3> QED
      BY <3>1, <3>2, <3>3
  <2>4. Len(conn'[p]["server"].data) = Len(conn[p]["server"].data) - 1
    <3>1. conn[p]["server"].data \in Seq(Nat)
      BY <1>1 DEF AllConnections, Connections, Ends
    <3> QED
      BY <2>2, <2>3, <3>1
  <2>5. Needed(p)' = Needed(p)
    BY <1>1, <2>1 DEF Needed
  <2>6. status'[p] = IF seen'[p] = Needed(p) THEN "asked" ELSE "reading"
    BY <1>1, <2>1
  <2> QED
    BY <1>1, <1>2, <1>3, <2>1, <2>3, <2>4, <2>5, <2>6
<1>8. CASE Answer(p)
  <2>1. status[p] = "asked" /\ UNCHANGED seen
    BY <1>8 DEF Answer
  <2>2. PICK r \in Answers :
          /\ given' = [given EXCEPT ![p] = Append(@, r)]
          /\ \/ RaisesSigPipe(conn[p], "client")
             \/ \E d \in Sent(conn[p], "client", r) :
                  IF conn[p]["server"].end = "rst" /\ d = ErrorReturned(conn[p], "client") THEN TRUE
                  ELSE IF Len(given'[p]) = Questions THEN End(p, "answered", d)
                  ELSE /\ conn' = [conn EXCEPT ![p] = d]
                       /\ status' = [status EXCEPT ![p] = "reading"]
    BY <1>1, <1>8 DEF Answer
  <2>3. r \in Nat /\ IsOpen(conn[p], "server")
    BY <1>4, <2>1, SurveyAssumption
  <2>4. PICK d \in Sent(conn[p], "client", r) :
          IF Len(given'[p]) = Questions THEN End(p, "answered", d)
          ELSE /\ conn' = [conn EXCEPT ![p] = d] /\ status' = [status EXCEPT ![p] = "reading"]
    BY <2>2, <2>3, EndsAndPeers DEF RaisesSigPipe, IsOpen
  <2>5. d["server"] = conn[p]["server"]
    <3>1. conn[p] \in Connections(Nat) /\ "client" \in Ends /\ IsOpen(conn[p], Peer("client"))
      BY <1>1, <2>3, EndsAndPeers DEF AllConnections
    <3>2. d[Peer("client")] = conn[p][Peer("client")]
      BY <2>3, <3>1, SentToOpen
    <3> QED
      BY <3>2, EndsAndPeers
  <2>6. given[p] \in Seq(Answers) /\ given'[p] = Append(given[p], r) /\ Len(given'[p]) = Len(given[p]) + 1
    <3>1. given'[p] = Append(given[p], r) /\ given[p] \in Seq(Answers)
      BY <1>1, <2>2
    <3> QED
      BY <3>1
  <2>7. CASE Len(given'[p]) # Questions
    <3>1. conn'[p] = d /\ status'[p] = "reading"
      BY <1>1, <2>4, <2>7
    <3> QED
      BY <1>1, <1>2, <1>3, <2>1, <2>5, <3>1
  <2>8. CASE Len(given'[p]) = Questions
    <3>1. status'[p] = "answered"
      BY <1>1, <2>4, <2>8 DEF End
    <3>2. seen[p] = Parts * Questions
      BY <1>1, <1>2, <2>1, <2>6, <2>8 DEF Needed
    <3>3. Parts * Questions <= PartsSent(p)
      <4> HIDE DEF PartsSent
      <4> QED
        BY <1>2, <1>3, <2>1, <3>2
    <3>4. ~(at[p] \in {"none", "asking"} \/ q[p] < Questions)
      <4>1. /\ Parts \in Nat \ {0} /\ Questions \in Nat \ {0} /\ q[p] \in 1 .. Questions
            /\ part[p] \in 1 .. Parts
        BY PartsTypes
      <4>2. \A k, n, m \in Nat : m < n => k * m + k <= k * n
        BY AtLeastOneMore
      <4>3. Parts * (q[p] - 1) + Parts <= Parts * Questions
        BY <4>1, <4>2
      <4>4. CASE at[p] \in {"none", "asking"}
        <5>1. PartsSent(p) = Parts * (q[p] - 1) + (part[p] - 1)
          BY <4>4 DEF PartsSent
        <5> DEFINE a == Parts * (q[p] - 1)
                   b == Parts * Questions
        <5>2. a \in Nat /\ b \in Nat /\ a + Parts <= b /\ b <= a + (part[p] - 1)
          BY <3>3, <4>1, <4>3, <5>1, PartsTypes
        <5> HIDE DEF a, b
        <5> QED
          BY <4>1, <5>2
      <4>5. CASE at[p] \notin {"none", "asking"} /\ q[p] < Questions
        <5>1. PartsSent(p) = Parts * (q[p] - 1) + Parts
          BY <4>5 DEF PartsSent
        <5>2. q[p] - 1 \in Nat /\ q[p] \in Nat /\ q[p] - 1 < q[p]
          BY <4>1
        <5>3. Parts * (q[p] - 1) + Parts <= Parts * q[p] /\ Parts * q[p] + Parts <= Parts * Questions
          BY <4>1, <4>2, <4>5, <5>2
        <5> DEFINE a == Parts * (q[p] - 1)
                   b == Parts * Questions
                   e == Parts * q[p]
        <5>4. a \in Nat /\ b \in Nat /\ e \in Nat
          <6>1. \A x, y \in Nat : x * y \in Nat
            OBVIOUS
          <6> QED
            BY <4>1, <5>2, <6>1
        <5>5. a + Parts <= e /\ e + Parts <= b /\ b <= a + Parts
          BY <3>3, <5>1, <5>3
        <5> HIDE DEF a, b, e
        <5> QED
          BY <4>1, <5>4, <5>5
      <4> QED
        BY <4>4, <4>5
    <3> QED
      BY <1>1, <1>2, <3>1, <3>4
  <2> QED
    BY <2>7, <2>8
<1> QED
  BY <1>5, <1>6, <1>7, <1>8 DEF ClientSide

\* What a step of another leaves of a respondent's counts.
LEMMA OthersParts ==
  ASSUME NEW x \in Respondent, PartsOK(x), up' => up /\ conn'[x] = conn[x],
         UNCHANGED <<program, at[x], q[x], part[x], status[x], seen[x], given[x]>>
  PROVE  PartsOK(x)'
BY DEF PartsOK, PartsSent, Needed

\* Neither a thread nor the administrators' touches another thread's counts.
LEMMA ThreadLeavesParts ==
  ASSUME SurveyTypeOK, NEW p \in Respondent, Threading(p)
  PROVE  UNCHANGED seen /\ up /\ \A x \in Respondent \ {p} : part'[x] = part[x]
<1>1. part \in [Respondent -> 1 .. Parts]
  BY DEF SurveyTypeOK
<1>2. CASE Ask(p)
  <2>1. \/ UNCHANGED part
        \/ part' = [part EXCEPT ![p] = @ + 1]
        \/ part' = [part EXCEPT ![p] = 1]
    BY <1>2 DEF Ask, SendPart, SendSurvey
  <2> QED
    BY <1>1, <1>2, <2>1 DEF Ask, clients
<1>3. CASE ~Ask(p)
  BY <1>3 DEF Threading, Thread, Accept, ReadAnswer, ReadFails, ReadNothing, Lock, Load, Store,
              Unlock, Push, Close, clients
<1> QED
  BY <1>2, <1>3

\* A step of a client leaves what the others have read.
LEMMA ClientLeavesSeen ==
  ASSUME SurveyTypeOK, NEW p \in Client, ClientSide(p)
  PROVE  \A x \in Client \ {p} : seen'[x] = seen[x]
<1>1. seen \in [Client -> Nat]
  BY DEF SurveyTypeOK
<1>2. UNCHANGED seen \/ seen' = [seen EXCEPT ![p] = @ + 1]
  BY DEF ClientSide, Connect, ClientReads, Killed, Answer
<1> QED
  BY <1>1, <1>2

-----------------------------------------------------------------------------
(* The administrators. *)

LEMMA AdminTurn ==
  ASSUME SurveyTypeOK, MutexOK, adminAt \notin {"none", "accept"}
  PROVE  adminSock \in Administrator /\ adminSock \in Client
BY DEF SurveyTypeOK, MutexOK, Client

\* What its thread does to their connections.
LEMMA AdminKeepsAdmins ==
  ASSUME SurveyTypeOK, MutexOK, AdminsOK, Admin
  PROVE  AdminsOK'
<1> SUFFICES ASSUME up'
             PROVE  /\ \A p \in Administrator :
                         IsOpen(conn'[p], "server") => IsOpen(conn'[p], "client") \/ status'[p] = "killed"
                    /\ adminAt' \notin {"none", "accept"} => IsOpen(conn'[adminSock'], "server")
  BY DEF AdminsOK
<1>1. /\ conn \in [Client -> AllConnections] /\ UNCHANGED status /\ Administrator \subseteq Client
  BY AdminLeaves DEF SurveyTypeOK, AllConnections, Client
<1>2. up
  BY DEF Admin, AdminAccept, AdminLock, AdminCopiesCount, AdminCopiesList, AdminUnlock, AdminReport,
         AdminClose, AdminGoto
<1>3. /\ \A p \in Administrator :
           IsOpen(conn[p], "server") => IsOpen(conn[p], "client") \/ status[p] = "killed"
      /\ adminAt \notin {"none", "accept"} => IsOpen(conn[adminSock], "server")
  BY <1>2 DEF AdminsOK
<1>4. CASE \E p \in Administrator : AdminAccept(p)
  BY <1>1, <1>3, <1>4 DEF AdminAccept, AdminGoto
<1>5. CASE AdminLock \/ AdminCopiesCount \/ AdminCopiesList \/ AdminUnlock
  BY <1>1, <1>3, <1>5 DEF AdminLock, AdminCopiesCount, AdminCopiesList, AdminUnlock, AdminGoto
<1>6. CASE AdminReport
  <2>1. Socket(adminSock, Flushed) /\ UNCHANGED adminSock /\ adminAt \notin {"none", "accept"}
    BY <1>6 DEF AdminReport, Die
  <2>2. adminSock \in Client
    BY <2>1, AdminTurn
  <2>3. PICK d \in Flushed : conn' = [conn EXCEPT ![adminSock] = d]
    BY <2>1 DEF Socket
  <2>4. (IsOpen(d, "server") <=> IsOpen(conn[adminSock], "server"))
        /\ (IsOpen(d, "client") <=> IsOpen(conn[adminSock], "client"))
    <3>1. CASE d = conn[adminSock]
      BY <3>1
    <3>2. CASE d \in Sent(conn[adminSock], "server", 1)
      <4>1. conn[adminSock] \in AllConnections
        BY <1>1, <2>2
      <4>2. 1 \in Nat
        OBVIOUS
      <4>3. SameForClient(conn[adminSock], d)
        BY <3>2, <4>1, <4>2, ServerSends
      <4> QED
        BY <4>3 DEF SameForClient, IsOpen
    <3> QED
      BY <2>3, <3>1, <3>2 DEF Flushed
  <2>5. \A p \in Client : /\ IsOpen(conn'[p], "server") <=> IsOpen(conn[p], "server")
                          /\ IsOpen(conn'[p], "client") <=> IsOpen(conn[p], "client")
    BY <1>1, <2>2, <2>3, <2>4
  <2> QED
    BY <1>1, <1>3, <2>1, <2>2, <2>5
<1>7. CASE AdminClose
  <2>1. adminAt = "close" /\ adminAt' = "accept" /\ Socket(adminSock, Closings(conn[adminSock], "server"))
    BY <1>7 DEF AdminClose, AdminGoto
  <2>2. adminSock \in Client
    BY <2>1, AdminTurn
  <2>3. PICK d \in Closings(conn[adminSock], "server") : conn' = [conn EXCEPT ![adminSock] = d]
    BY <2>1 DEF Socket
  <2>4. ~IsOpen(d, "server")
    <3>1. conn[adminSock] \in Connections(Nat) /\ "server" \in Ends
      BY <1>1, <2>2, EndsAndPeers DEF AllConnections
    <3>2. d["server"].end \in {"fin", "rst", "finrst"}
      BY <2>3, <3>1, ClosingsIsConnection
    <3> QED
      BY <3>2 DEF IsOpen
  <2> QED
    BY <1>1, <1>3, <2>1, <2>2, <2>3, <2>4
<1> QED
  BY <1>4, <1>5, <1>6, <1>7 DEF Admin

\* What the respondents' threads do.
LEMMA ThreadKeepsAdmins ==
  ASSUME SurveyTypeOK, MutexOK, AdminsOK, NEW p \in Respondent, Threading(p)
  PROVE  AdminsOK'
<1>1. \A x \in Client \ {p} : up' => conn'[x] = conn[x]
  BY ThreadConn
<1>2. UNCHANGED <<status, adminAt, adminSock>> /\ up
  BY Elsewhere, ThreadLeavesParts
<1>3. p \notin Administrator /\ Administrator \subseteq Client
  BY SurveyAssumption DEF Client
<1>4. adminAt \notin {"none", "accept"} => adminSock \in Administrator
  BY AdminTurn
<1> QED
  BY <1>1, <1>2, <1>3, <1>4 DEF AdminsOK

\* What a client does.
LEMMA ClientKeepsAdmins ==
  ASSUME SurveyTypeOK, MutexOK, AdminsOK, NEW p \in Client, ClientSide(p)
  PROVE  AdminsOK'
<1>1. /\ UNCHANGED <<up, adminAt, adminSock>>
      /\ \A x \in Client \ {p} : conn'[x] = conn[x] /\ status'[x] = status[x]
  BY ClientLeaves
<1>2. adminAt \notin {"none", "accept"} => adminSock \in Administrator
  BY AdminTurn
<1>3. Administrator \subseteq Client
  BY DEF Client
<1>4. CASE p \notin Administrator
  BY <1>1, <1>2, <1>3, <1>4 DEF AdminsOK
<1>5. CASE p \in Administrator
  <2>1. p \notin Respondent
    BY <1>5, SurveyAssumption
  <2>2. conn \in [Client -> AllConnections] /\ conn[p] \in AllConnections
        /\ status \in [Client -> Outcomes \union {"start", "reading", "asked"}]
    BY DEF SurveyTypeOK, AllConnections
  <2>3. SUFFICES ASSUME up
                 PROVE  /\ IsOpen(conn'[p], "server") =>
                             IsOpen(conn'[p], "client") \/ status'[p] = "killed"
                        /\ IsOpen(conn[p], "server") => IsOpen(conn'[p], "server")
    BY <1>1, <1>2, <1>3, <1>5 DEF AdminsOK
  <2>4. IsOpen(conn[p], "server") => IsOpen(conn[p], "client") \/ status[p] = "killed"
    BY <1>5, <2>3 DEF AdminsOK
  <2>5. CASE Connect(p)
    <3>1. status[p] = "start"
          /\ (conn' = [conn EXCEPT ![p] = Established] \/ UNCHANGED conn)
      BY <2>5 DEF Connect
    <3>2. IsOpen(Established, "server") /\ IsOpen(Established, "client")
      BY DEF Established, IsOpen, Ends
    <3>3. conn'[p] = Established \/ conn'[p] = conn[p]
      BY <2>2, <3>1
    <3> QED
      BY <2>4, <3>1, <3>2, <3>3
  <2>6. CASE Killed(p)
    <3>1. status'[p] = "killed" /\ \E d \in Closings(conn[p], "client") : conn'[p] = d
      BY <2>2, <2>6 DEF Killed, End, Socket
    <3>2. conn[p] \in Connections(Nat) /\ "client" \in Ends /\ Peer("client") = "server"
      BY <2>2, EndsAndPeers DEF AllConnections
    <3>3. \A d \in Closings(conn[p], "client") : d["server"].end = conn[p]["server"].end
      BY <3>2, ClosingsIsConnection
    <3> QED
      BY <3>1, <3>3 DEF IsOpen
  <2>7. CASE ClientReads(p)
    <3>1. CASE /\ HasData(conn[p], "client")
               /\ conn' = [conn EXCEPT ![p] = SetData(conn[p], "server", Tail(conn[p]["server"].data))]
               /\ UNCHANGED status
      <4> DEFINE b == SetData(conn[p], "server", Tail(conn[p]["server"].data))
      <4>1. conn[p]["server"].data # <<>>
        BY <3>1, EndsAndPeers DEF HasData
      <4>2. b["client"] = conn[p]["client"] /\ b["server"].end = conn[p]["server"].end
        BY <2>2, <4>1, EndsAndPeers, OneRead
      <4>3. conn'[p] = b
        BY <2>2, <3>1
      <4> HIDE DEF b
      <4> QED
        BY <2>4, <3>1, <4>2, <4>3 DEF IsOpen
    <3>2. CASE \E b \in {conn[p], ErrorReturned(conn[p], "client")} :
                 /\ AtReset(conn[p], "client") \/ b = conn[p]
                 /\ AtEof(conn[p], "client") \/ AtReset(conn[p], "client")
                 /\ \E d \in Closings(b, "client") : conn'[p] = d
      <4>1. PICK b \in {conn[p], ErrorReturned(conn[p], "client")} :
                 /\ AtReset(conn[p], "client") \/ b = conn[p]
                 /\ AtEof(conn[p], "client") \/ AtReset(conn[p], "client")
                 /\ \E d \in Closings(b, "client") : conn'[p] = d
        BY <3>2
      <4>2. PICK d \in Closings(b, "client") : conn'[p] = d
        BY <4>1
      <4>3. ~IsOpen(conn[p], "server")
        BY <4>1, EndsAndPeers DEF AtEof, AtReset, IsOpen
      <4>4. ~IsOpen(d, "server")
        BY <2>2, <4>1, <4>3, ClientLeavesServer
      <4> QED
        BY <4>2, <4>3, <4>4
    <3>3. \/ /\ HasData(conn[p], "client")
             /\ conn' = [conn EXCEPT ![p] = SetData(conn[p], "server", Tail(conn[p]["server"].data))]
             /\ UNCHANGED status
          \/ AtEof(conn[p], "client") /\ \E how : End(p, how, conn[p])
          \/ AtReset(conn[p], "client") /\ \E how : End(p, how, ErrorReturned(conn[p], "client"))
      BY <2>1, <2>7 DEF ClientReads
    <3>4. ASSUME NEW b, NEW how, End(p, how, b)
          PROVE  \E d \in Closings(b, "client") : conn'[p] = d
      BY <2>2, <3>4 DEF End, Socket
    <3> QED
      BY <3>1, <3>2, <3>3, <3>4
  <2> QED
    BY <2>1, <2>5, <2>6, <2>7 DEF ClientSide
<1> QED
  BY <1>4, <1>5

-----------------------------------------------------------------------------
(* The end of the server. *)

\* A client that was killed stays so.
LEMMA KilledForGood ==
  ASSUME SurveyTypeOK, [Next]_vvars, NEW p \in Client, status[p] = "killed"
  PROVE  status'[p] = "killed"
<1>1. ASSUME NEW x \in Respondent, Threading(x)
      PROVE  status'[p] = "killed"
  BY <1>1, Elsewhere
<1>2. CASE Admin
  BY <1>2, AdminLeaves
<1>3. ASSUME NEW x \in Client, ClientSide(x)
      PROVE  status'[p] = "killed"
  <2>1. status[x] \in {"start", "reading", "asked"}
    BY <1>3 DEF ClientSide, Connect, ClientReads, Killed, Answer
  <2>2. x # p
    BY <2>1
  <2> QED
    BY <1>3, <2>2, ClientLeaves
<1>4. CASE UNCHANGED vvars
  BY <1>4 DEF vvars, clients
<1>5. Respondent \subseteq Client
  BY DEF Client
<1>6. CASE Failing
  BY <1>6, FailLeaves
<1> QED
  BY <1>1, <1>2, <1>3, <1>4, <1>5, <1>6 DEF Next, Threading, ClientSide, Failing

\* So does an accept() that has thrown.
LEMMA ThrownForGood ==
  ASSUME SurveyTypeOK, [Next]_vvars, thrown
  PROVE  thrown'
<1>1. ASSUME NEW x \in Respondent, Threading(x)
      PROVE  thrown'
  BY <1>1, Elsewhere
<1>2. CASE Admin
  BY <1>2, AdminLeaves
<1>3. ASSUME NEW x \in Client, ClientSide(x)
      PROVE  thrown'
  BY <1>3, ClientLeaves
<1>4. CASE UNCHANGED vvars
  BY <1>4 DEF vvars, process
<1>5. Respondent \subseteq Client
  BY DEF Client
<1>6. CASE Failing
  BY <1>6, FailLeaves
<1> QED
  BY <1>1, <1>2, <1>3, <1>4, <1>5, <1>6 DEF Next, Threading, ClientSide, Failing

\* When SIGPIPE ends the server, the client that it was sending to has been killed.
LEMMA SigPipeAfterKill ==
  ASSUME IInv, DInv, [Next]_vvars, up, ~up', ~thrown'
  PROVE  \E p \in Client : status[p] = "killed"
<1>1. SurveyTypeOK /\ MutexOK /\ (\A p \in Respondent : StreamOK(p) /\ PartsOK(p)) /\ AdminsOK
  BY DEF IInv, DInv
<1>2. ASSUME NEW p \in Respondent, Threading(p)
      PROVE  status[p] = "killed"
  <2>1. Ask(p) /\ SendPart(p) /\ RaisesSigPipe(conn[p], "server") /\ program = "SurveyServer"
    BY <1>2 DEF Threading, Thread, Accept, Ask, SendPart, SendSurvey, ReadAnswer, ReadFails,
                ReadNothing, Lock, Load, Store, Unlock, Push, Close
  <2>2. at[p] = "asking" /\ ~IsOpen(conn[p], "client")
    BY <2>1, EndsAndPeers DEF Ask, RaisesSigPipe, IsOpen
  <2>3. status[p] \in {"start", "reading", "asked", "killed"}
    BY <1>1, <2>1, <2>2 DEF PartsOK, Active
  <2>4. status[p] # "start"
    BY <1>1, <2>2 DEF StreamOK, StartOK
  <2>5. status[p] \notin {"reading", "asked"}
    BY <1>1, <2>2 DEF StreamOK, FlowOK, Active
  <2> QED
    BY <2>3, <2>4, <2>5
<1>3. CASE Admin
  <2>1. adminAt \in {"report", "flush"} /\ RaisesSigPipe(conn[adminSock], "server")
    BY <1>3 DEF Admin, AdminAccept, AdminLock, AdminCopiesCount, AdminCopiesList, AdminUnlock,
                AdminReport, AdminClose, AdminGoto
  <2>2. adminSock \in Administrator /\ adminSock \in Client
    BY <1>1, <2>1, AdminTurn
  <2>3. ~IsOpen(conn[adminSock], "client")
    BY <2>1, EndsAndPeers DEF RaisesSigPipe, IsOpen
  <2>4. IsOpen(conn[adminSock], "server")
    BY <1>1, <2>1 DEF AdminsOK
  <2> QED
    BY <1>1, <2>2, <2>3, <2>4 DEF AdminsOK
<1>4. ASSUME NEW p \in Client, ClientSide(p)
      PROVE  FALSE
  BY <1>1, <1>4, ClientLeaves
<1>5. CASE UNCHANGED vvars
  BY <1>5 DEF vvars
<1>6. Respondent \subseteq Client
  BY DEF Client
<1>7. ~Failing
  BY <1>1, FailLeaves
<1> QED
  BY <1>2, <1>3, <1>4, <1>5, <1>6, <1>7 DEF Next, Threading, ClientSide, Failing

LEMMA InitDies == Init => DInv
<1> SUFFICES ASSUME Init PROVE DInv
  OBVIOUS
<1>1. Respondent \subseteq Client /\ Administrator \subseteq Client
  BY DEF Client
<1>2. ASSUME NEW p \in Respondent
      PROVE  PartsOK(p)
  BY <1>1 DEF Init, PartsOK
<1>3. AdminsOK
  <2>1. ~IsOpen(Idle, "server")
    BY DEF IsOpen, Idle, Ends
  <2> QED
    BY <1>1, <2>1 DEF Init, AdminsOK
<1> QED
  BY <1>2, <1>3 DEF Init, DInv, EndsForAReason

LEMMA StepDies == IInv /\ DInv /\ [Next]_vvars => DInv'
<1> SUFFICES ASSUME IInv, DInv, [Next]_vvars PROVE DInv'
  OBVIOUS
<1>1. SurveyTypeOK /\ MutexOK /\ (\A p \in Respondent : StreamOK(p) /\ PartsOK(p)) /\ AdminsOK
      /\ EndsForAReason
  BY DEF IInv, DInv
<1>2. SurveyTypeOK'
  BY StepIsOK DEF IInv
<1>3. EndsForAReason'
  <2>1. CASE up'
    BY <2>1 DEF EndsForAReason
  <2>2. CASE thrown'
    BY <2>2 DEF EndsForAReason
  <2>3. CASE ~up' /\ ~thrown'
    <3>1. PICK p \in Client : status[p] = "killed"
      BY <1>1, <2>3, SigPipeAfterKill, ThrownForGood DEF EndsForAReason
    <3> QED
      BY <1>1, <3>1, KilledForGood DEF EndsForAReason
  <2> QED
    BY <2>1, <2>2, <2>3
<1>4. ASSUME NEW p \in Respondent, Threading(p)
      PROVE  AdminsOK' /\ \A x \in Respondent : PartsOK(x)'
  <2>1. AdminsOK' /\ PartsOK(p)'
    BY <1>1, <1>2, <1>4, ThreadKeepsAdmins, ThreadParts
  <2>2. ASSUME NEW x \in Respondent, x # p
        PROVE  PartsOK(x)'
    <3>1. x \in Client \ {p} /\ x \in Respondent \ {p}
      BY <2>2 DEF Client
    <3>2. UNCHANGED <<program, at[x], q[x], status[x], given[x]>>
      BY <1>1, <1>4, <3>1, Elsewhere
    <3>3. UNCHANGED <<part[x], seen[x]>> /\ up
      BY <1>1, <1>4, <3>1, ThreadLeavesParts
    <3>4. up' => conn'[x] = conn[x]
      BY <1>1, <1>4, <3>1, ThreadConn
    <3> QED
      BY <1>1, <3>2, <3>3, <3>4, OthersParts
  <2> QED
    BY <2>1, <2>2
<1>5. ASSUME Admin
      PROVE  AdminsOK' /\ \A x \in Respondent : PartsOK(x)'
  <2>1. AdminsOK'
    BY <1>1, <1>5, AdminKeepsAdmins
  <2>2. ASSUME NEW x \in Respondent
        PROVE  PartsOK(x)'
    <3>1. UNCHANGED <<program, at[x], q[x], part[x], status[x], seen[x], given[x]>>
      BY <1>1, <1>5, AdminLeaves
    <3>2. (up' => conn'[x] = conn[x]) /\ up
      <4>1. up
        BY <1>5 DEF Admin, AdminAccept, AdminLock, AdminCopiesCount, AdminCopiesList, AdminUnlock,
                    AdminReport, AdminClose, AdminGoto
      <4> QED
        BY <1>1, <1>5, <4>1, AdminConn
    <3> QED
      BY <1>1, <3>1, <3>2, OthersParts
  <2> QED
    BY <2>1, <2>2
<1>6. ASSUME NEW p \in Client, ClientSide(p)
      PROVE  AdminsOK' /\ \A x \in Respondent : PartsOK(x)'
  <2>1. AdminsOK'
    BY <1>1, <1>6, ClientKeepsAdmins
  <2>2. ASSUME NEW x \in Respondent
        PROVE  PartsOK(x)'
    <3>1. CASE x = p
      BY <1>1, <1>2, <1>6, <3>1, ClientParts
    <3>2. CASE x # p
      <4>1. x \in Client \ {p} /\ x \in Respondent \ {p}
        BY <3>2 DEF Client
      <4>2. /\ UNCHANGED <<program, up, at, q, part>>
            /\ conn'[x] = conn[x] /\ status'[x] = status[x] /\ given'[x] = given[x]
        BY <1>1, <1>6, <4>1, ClientLeaves
      <4>3. seen'[x] = seen[x]
        BY <1>1, <1>6, <4>1, ClientLeavesSeen
      <4> QED
        BY <1>1, <4>2, <4>3, OthersParts
    <3> QED
      BY <3>1, <3>2
  <2> QED
    BY <2>1, <2>2
<1>9. ASSUME Failing
      PROVE  AdminsOK' /\ \A x \in Respondent : PartsOK(x)'
  <2>1. /\ up /\ UNCHANGED <<program, at, q, part, status, seen, given, adminSock>>
        /\ adminAt' = adminAt \/ adminAt' = "none"
        /\ \A x \in Respondent : up' => conn'[x] = conn[x]
        /\ \A x \in Client : up' => conn'[x] = conn[x] \/ ~IsOpen(conn'[x], "server")
    BY <1>1, <1>9, FailLeaves
  <2>2. \A x \in Respondent : PartsOK(x)'
    BY <1>1, <2>1, OthersParts
  <2>3. ASSUME up', adminAt' \notin {"none", "accept"}
        PROVE  IsOpen(conn'[adminSock'], "server")
    <3>1. AcceptThrows \/ AdminThrows
      BY <1>9 DEF Failing
    <3>2. AcceptThrows => ~up'
      BY DEF AcceptThrows, Die
    <3>3. AdminThrows => adminAt' = "none"
      BY DEF AdminThrows, AdminGoto
    <3> QED
      BY <2>3, <3>1, <3>2, <3>3
  <2>4. Administrator \subseteq Client
    BY DEF Client
  <2>5. AdminsOK'
    BY <1>1, <2>1, <2>3, <2>4 DEF AdminsOK
  <2> QED
    BY <2>2, <2>5
<1>7. CASE UNCHANGED vvars
  <2>1. UNCHANGED <<program, up, conn, at, q, part, status, seen, given, adminAt, adminSock>>
    BY <1>7 DEF vvars, process, threads, admin, clients
  <2>2. AdminsOK'
    BY <1>1, <2>1 DEF AdminsOK
  <2>3. \A x \in Respondent : PartsOK(x)'
    BY <1>1, <2>1, OthersParts
  <2> QED
    BY <1>3, <2>2, <2>3 DEF DInv
<1>8. Respondent \subseteq Client
  BY DEF Client
<1> QED
  BY <1>3, <1>4, <1>5, <1>6, <1>7, <1>8, <1>9 DEF DInv, Next, Threading, ClientSide, Failing

\* The process ends only because accept() has thrown, or because a client was killed while
\* the server was sending to it: every other client reads all that is sent to it before it
\* goes.
THEOREM EndHolds == Spec => []EndsForAReason
<1>1. Spec => []DInv
  BY InitDies, StepDies, InvHolds, PTL DEF Spec
<1>2. DInv => EndsForAReason
  BY DEF DInv
<1> QED
  BY <1>1, <1>2, PTL
=============================================================================
