------------------------------ MODULE Survey ------------------------------
(***************************************************************************)
(* The survey programs of Material/CodigosEncontrados: SurveyServer.cpp,   *)
(* which asks its questions one after the other, or SurveyServer2.cpp,     *)
(* which sends them all, logs who has answered and reports to              *)
(* AdminClient2.cpp; with SurveyClient.cpp or SurveyClient2.cpp. A thread  *)
(* for each client counts the answers under one mutex. A stream of C++     *)
(* swallows the exceptions of the socket below it: a `stream >> response`  *)
(* that fails leaves response as the stack has it.                         *)
(***************************************************************************)
EXTENDS Tcp, FiniteSets

CONSTANTS
  Programs,       \* the servers tried: "SurveyServer", "SurveyServer2"
  Respondent,     \* the survey clients
  Administrator,  \* the admin clients
  Questions,      \* how many questions there are
  Answers,        \* the legal responses to each of them
  Opinions,       \* bound: a set of <<p, r>>, the responses r that p's user may give
  Killable,       \* bound: the clients that may be killed
  Garbage,        \* what an uninitialized response may be
  Parts,          \* in how many send()s SurveyServer asks a question
  ThreadLimits    \* how many threads for clients the process may have: one of these

Client == Respondent \union Administrator
Question == 1 .. Questions

ASSUME SurveyAssumption ==
  /\ Programs \subseteq {"SurveyServer", "SurveyServer2"}
  /\ IsFiniteSet(Respondent \union Administrator)
  /\ Respondent \intersect Administrator = {}
  /\ {"admin", "nobody"} \intersect (Respondent \union Administrator) = {}
  /\ Questions \in Nat \ {0} /\ Parts \in Nat \ {0} /\ ThreadLimits \subseteq Nat
  /\ Opinions \subseteq Respondent \X Answers /\ Killable \subseteq Client
  /\ Answers \subseteq Nat /\ Garbage \subseteq Nat

VARIABLES
  program, limit,
  up,         \* the server's process runs
  thrown,     \* history: the accept() of main() has thrown
  conn,       \* the connection of each client
  created,    \* how many threads have been made: none is joined or detached
  at,         \* where the thread of each respondent is
  q, part,    \* the question, and the send(), it is at
  response,
  good,       \* its stream is good, and it has not caught an exception
  holder,     \* kernel: the thread that holds the mutex `lock`
  rCount,
  old,        \* rCount[q][response] as the thread that increments it has read it
  addrList,   \* the respondents logged
  adminAt, adminSock, myCount, myList,  \* of the thread adminServer()
  status,     \* where each client is, or how it ended
  seen,       \* how much each client has read
  given,      \* the answers each respondent has sent
  counted     \* history: of each question, the respondents counted, and with what

process == <<program, limit, thrown>>
threads == <<at, q, part, response, good, old>>
tallies == <<rCount, addrList, counted>>
admin == <<adminAt, adminSock, myCount, myList>>
clients == <<status, seen, given>>
vvars == <<process, up, conn, created, threads, holder, tallies, admin, clients>>

Zero == [i \in Question |-> [r \in Answers |-> 0]]

Init ==
  /\ program \in Programs /\ limit \in ThreadLimits
  /\ up = TRUE /\ thrown = FALSE
  /\ conn = [p \in Client |-> Idle]
  /\ created = 0
  /\ at = [p \in Respondent |-> "none"]
  /\ q = [p \in Respondent |-> 1]
  /\ part = [p \in Respondent |-> 1]
  /\ response = [p \in Respondent |-> 0]
  /\ good = [p \in Respondent |-> TRUE]
  /\ holder = "nobody"
  /\ rCount = Zero
  /\ old = [p \in Respondent |-> 0]
  /\ addrList = <<>>
  /\ adminAt = IF program = "SurveyServer2" THEN "accept" ELSE "none"
  /\ adminSock = "nobody"
  /\ myCount = Zero /\ myList = <<>>
  /\ status = [p \in Client |-> "start"]
  /\ seen = [p \in Client |-> 0]
  /\ given = [p \in Respondent |-> <<>>]
  /\ counted = [i \in Question |-> [p \in Respondent |-> {}]]

-----------------------------------------------------------------------------
(* The threads of the respondents. *)

Goto(p, place) == at' = [at EXCEPT ![p] = place]

\* The server's end of p's connection becomes that of one of the connections D.
Socket(p, D) == \E d \in D : conn' = [conn EXCEPT ![p] = d]

\* p's connection waits for accept().
Queued(p) ==
  /\ IsOpen(conn[p], "server")
  /\ IF p \in Respondent THEN at[p] = "none" ELSE p # adminSock

\* What p's connection can be once the process has ended.
Left(p) ==
  IF Queued(p) THEN {Aborted(conn[p], "server")}
  ELSE IF IsOpen(conn[p], "server") THEN Closings(conn[p], "server") ELSE {conn[p]}

\* The process ends, and with it every thread and connection.
Die ==
  /\ up' = FALSE
  /\ conn' \in {f \in [Client -> UNION {Left(p) : p \in Client}] : \A p \in Client : f[p] \in Left(p)}

\* main() accepts, and makes a thread for the client or closes its connection.
Accept(p) ==
  /\ up
  /\ at[p] = "none" /\ IsOpen(conn[p], "server")
  /\ IF created < limit
       THEN /\ created' = created + 1
            /\ Goto(p, "asking")
            /\ UNCHANGED conn
       ELSE /\ Socket(p, Closings(conn[p], "server"))
            /\ Goto(p, "ended")
            /\ UNCHANGED created
  /\ UNCHANGED <<process, up, q, part, response, good, old, holder, tallies, admin, clients>>

\* accept() throws, for want of descriptors or memory or because the connection in the
\* queue is gone: the exception leaves the loop, and main() returns.
AcceptThrows ==
  /\ up
  /\ Die
  /\ thrown' = TRUE
  /\ UNCHANGED <<program, limit, created, threads, holder, tallies, admin, clients>>

\* send() that has left the connection d of p has thrown.
SendThrows(p, d) == conn[p]["client"].end = "rst" /\ d = ErrorReturned(conn[p], "server")

\* sendInt() or sendString() of a part of a question; nothing handles SIGPIPE.
SendPart(p) ==
  \/ RaisesSigPipe(conn[p], "server") /\ Die /\ UNCHANGED <<at, part>>
  \/ \E d \in Sent(conn[p], "server", q[p]) :
       /\ conn' = [conn EXCEPT ![p] = d]
       /\ UNCHANGED up
       /\ IF SendThrows(p, d) THEN Goto(p, "closing") /\ UNCHANGED part
          ELSE IF part[p] < Parts
          THEN part' = [part EXCEPT ![p] = @ + 1] /\ UNCHANGED at
          ELSE part' = [part EXCEPT ![p] = 1] /\ Goto(p, "reading")

\* The whole survey, which fits one buffer of the stream and one segment. A failure
\* is swallowed.
SendSurvey(p) ==
  /\ Socket(p, IF IsOpen(conn[p], "client")
                 THEN {SetData(conn[p], "server", [k \in Question |-> k])}
                 ELSE Sent(conn[p], "server", 1))
  /\ Goto(p, "reading")
  /\ UNCHANGED <<up, part>>

Ask(p) ==
  /\ up
  /\ at[p] = "asking"
  /\ IF program = "SurveyServer" THEN SendPart(p) ELSE SendSurvey(p)
  /\ UNCHANGED <<process, created, q, response, good, old, holder, tallies, admin, clients>>

NextQuestion_PastEnd(p) ==
  LET last == q[p] > Questions IN
  /\ q' = [q EXCEPT ![p] = IF last THEN @ ELSE @ + 1]
  /\ Goto(p, IF program = "SurveyServer" THEN IF last THEN "closing" ELSE "asking"
              ELSE IF last THEN "log" ELSE "reading")
\* Where a thread goes from a question: SurveyServer2 has asked them all.
NextQuestion(p) ==
  LET last == q[p] = Questions IN
  /\ q' = [q EXCEPT ![p] = IF last THEN @ ELSE @ + 1]
  /\ Goto(p, IF program = "SurveyServer" THEN IF last THEN "closing" ELSE "asking"
              ELSE IF last THEN "log" ELSE "reading")

\* The response r is in range, and will be counted, or the thread goes on.
Got(p, r) ==
  IF r \in Answers
    THEN response' = [response EXCEPT ![p] = r] /\ Goto(p, "lock") /\ UNCHANGED q
    ELSE NextQuestion(p) /\ UNCHANGED response

\* recvInt() or `stream >> response` gets an answer.
ReadAnswer(p) ==
  /\ up
  /\ at[p] = "reading" /\ good[p] /\ HasData(conn[p], "server")
  /\ Got(p, Incoming(conn[p], "server"))
  /\ conn' = [conn EXCEPT ![p] = SetData(@, "client", Tail(@["client"].data))]
  /\ UNCHANGED <<process, up, created, part, good, old, holder, tallies, admin, clients>>

\* There is nothing more: recvInt() throws, and the stream, which turns end-of-file
\* and what the socket throws into a state of its own, leaves response as it was.
ReadFails(p) ==
  /\ up
  /\ at[p] = "reading" /\ good[p]
  /\ \/ AtEof(conn[p], "server") /\ UNCHANGED conn
     \/ AtReset(conn[p], "server") /\ Socket(p, {ErrorReturned(conn[p], "server")})
  /\ good' = [good EXCEPT ![p] = FALSE]
  /\ IF program = "SurveyServer" THEN Goto(p, "closing") /\ UNCHANGED <<response, q>>
     ELSE \E r \in Garbage : Got(p, r)
  /\ UNCHANGED <<process, up, created, part, old, holder, tallies, admin, clients>>

\* A stream that has failed reads nothing.
ReadNothing(p) ==
  /\ up
  /\ at[p] = "reading" /\ ~good[p]
  /\ \E r \in Garbage : Got(p, r)
  /\ UNCHANGED <<process, up, conn, created, part, good, old, holder, tallies, admin, clients>>

\* pthread_mutex_lock()
Lock_Never(p) ==
  /\ up
  /\ at[p] \in {"lock", "log"}
  /\ Goto(p, IF at[p] = "lock" THEN "load" ELSE "push")
  /\ UNCHANGED <<process, up, conn, created, q, part, response, good, old, holder, tallies, admin, clients>>
Lock(p) ==
  /\ up
  /\ at[p] \in {"lock", "log"}
  /\ holder = "nobody"
  /\ holder' = p
  /\ Goto(p, IF at[p] = "lock" THEN "load" ELSE "push")
  /\ UNCHANGED <<process, up, conn, created, q, part, response, good, old, tallies, admin, clients>>

\* rCount[q][response]++ reads and
Load(p) ==
  /\ up
  /\ at[p] = "load"
  /\ old' = [old EXCEPT ![p] = rCount[q[p]][response[p]]]
  /\ Goto(p, "store")
  /\ UNCHANGED <<process, up, conn, created, q, part, response, good, holder, tallies, admin, clients>>

\* writes.
Store(p) ==
  /\ up
  /\ at[p] = "store"
  /\ rCount' = [rCount EXCEPT ![q[p]][response[p]] = old[p] + 1]
  /\ counted' = [counted EXCEPT ![q[p]][p] = {response[p]}]
  /\ response' = [response EXCEPT ![p] = 0] /\ old' = [old EXCEPT ![p] = 0]  \* not used again
  /\ Goto(p, "unlock")
  /\ UNCHANGED <<process, up, conn, created, q, part, good, holder, addrList, admin, clients>>

\* pthread_mutex_unlock(), and the next question.
Unlock(p) ==
  /\ up
  /\ at[p] = "unlock"
  /\ holder' = "nobody"
  /\ NextQuestion(p)
  /\ UNCHANGED <<process, up, conn, created, part, response, good, old, tallies, admin, clients>>

\* Whether getpeername() fails: the client's reset has arrived, or may be about to.
PeerUnknown(p) ==
  CASE conn[p]["client"].end = "broken"            -> {TRUE}
    [] conn[p]["client"].end \in {"rst", "finrst"} -> BOOLEAN
    [] OTHER                                       -> {FALSE}

\* The client is logged, by its address, and the mutex unlocked. If getForeignAddress()
\* throws, the thread goes to the end of the function with the mutex.
Push(p) ==
  /\ up
  /\ at[p] = "push"
  /\ \E throws \in PeerUnknown(p) :
       IF throws THEN UNCHANGED <<addrList, holder>>
       ELSE addrList' = Append(addrList, p) /\ holder' = "nobody"
  /\ Goto(p, "closing")
  /\ UNCHANGED <<process, up, conn, created, q, part, response, good, old, rCount, counted, admin, clients>>

\* delete sock
Close(p) ==
  /\ up
  /\ at[p] = "closing"
  /\ Socket(p, Closings(conn[p], "server"))
  /\ Goto(p, "ended")
  /\ UNCHANGED <<process, up, created, q, part, response, good, old, holder, tallies, admin, clients>>

Thread(p) ==
  \/ Ask(p) \/ ReadAnswer(p) \/ ReadFails(p) \/ ReadNothing(p)
  \/ Lock(p) \/ Load(p) \/ Store(p) \/ Unlock(p) \/ Push(p) \/ Close(p)

-----------------------------------------------------------------------------
(* adminServer(), one admin client after the other. *)

AdminGoto(here, there) ==
  /\ up
  /\ adminAt = here
  /\ adminAt' = there

AdminAccept(p) ==
  /\ AdminGoto("accept", "lock")
  /\ IsOpen(conn[p], "server")
  /\ adminSock' = p
  /\ UNCHANGED <<process, up, conn, created, threads, holder, tallies, myCount, myList, clients>>

\* accept() throws: the thread ends and its listening socket is closed; main() goes on.
AdminThrows ==
  /\ AdminGoto("accept", "none")
  /\ conn' = [p \in Client |-> IF p \in Administrator /\ Queued(p)
                                THEN Aborted(conn[p], "server") ELSE conn[p]]
  /\ UNCHANGED <<process, up, created, threads, holder, tallies, adminSock, myCount, myList, clients>>

AdminLock_Never ==
  /\ AdminGoto("lock", "copy")
  /\ UNCHANGED <<process, up, conn, created, threads, holder, tallies, adminSock, myCount, myList, clients>>
AdminLock ==
  /\ AdminGoto("lock", "copy")
  /\ holder = "nobody"
  /\ holder' = "admin"
  /\ UNCHANGED <<process, up, conn, created, threads, tallies, adminSock, myCount, myList, clients>>

AdminCopiesCount ==
  /\ AdminGoto("copy", "list")
  /\ myCount' = rCount
  /\ UNCHANGED <<process, up, conn, created, threads, holder, tallies, adminSock, myList, clients>>

AdminCopiesList ==
  /\ AdminGoto("list", "unlock")
  /\ myList' = addrList
  /\ UNCHANGED <<process, up, conn, created, threads, holder, tallies, adminSock, myCount, clients>>

AdminUnlock ==
  /\ AdminGoto("unlock", "report")
  /\ holder' = "nobody"
  /\ UNCHANGED <<process, up, conn, created, threads, tallies, adminSock, myCount, myList, clients>>

\* The stream is flushed after the counts and after the addresses, of which there may
\* be none; what fails is swallowed.
Flushed ==
  LET c == conn[adminSock] IN
  IF adminAt = "flush" /\ myList = <<>> /\ c["client"].end \in {"open", "fin"}
    THEN {c} ELSE Sent(c, "server", 1)

AdminReport ==
  /\ up
  /\ adminAt \in {"report", "flush"}
  /\ \/ RaisesSigPipe(conn[adminSock], "server") /\ Die /\ UNCHANGED adminAt
     \/ /\ Socket(adminSock, Flushed)
        /\ adminAt' = IF adminAt = "report" THEN "flush" ELSE "close"
        /\ UNCHANGED up
  /\ UNCHANGED <<process, created, threads, holder, tallies, adminSock, myCount, myList, clients>>

AdminClose ==
  /\ AdminGoto("close", "accept")
  /\ Socket(adminSock, Closings(conn[adminSock], "server"))
  /\ adminSock' = "nobody" /\ myCount' = Zero /\ myList' = <<>>
  /\ UNCHANGED <<process, up, created, threads, holder, tallies, clients>>

Admin ==
  \/ \E p \in Administrator : AdminAccept(p)
  \/ AdminLock \/ AdminCopiesCount \/ AdminCopiesList \/ AdminUnlock \/ AdminReport \/ AdminClose

-----------------------------------------------------------------------------
(* The clients. *)

Outcomes == {"answered", "printed", "died", "refused", "killed"}
Ended(p) == status[p] \in Outcomes

End(p, how, c) ==
  /\ status' = [status EXCEPT ![p] = how]
  /\ Socket(p, Closings(c, "client"))

\* SurveyServer has no port for administrators, nor has SurveyServer2 once the thread
\* that serves them has ended.
Connect(p) ==
  /\ status[p] = "start"
  /\ IF up /\ (p \in Respondent \/ adminAt # "none")
       THEN status' = [status EXCEPT ![p] = "reading"] /\ conn' = [conn EXCEPT ![p] = Established]
       ELSE status' = [status EXCEPT ![p] = "refused"] /\ UNCHANGED conn
  /\ UNCHANGED <<process, up, created, threads, holder, tallies, admin, seen, given>>

Needed_TextOnly(p) ==
  IF program = "SurveyServer" THEN Len(given[p]) + 1 ELSE Questions
Needed_OneMore(p) ==
  IF program = "SurveyServer" THEN Parts * (Len(given[p]) + 1) + 1 ELSE Questions
\* What a respondent must have read to answer its next question.
Needed(p) ==
  IF program = "SurveyServer" THEN Parts * (Len(given[p]) + 1) ELSE Questions

\* A client reads. At end-of-file the clients of SurveyServer report an error, that of
\* SurveyServer2 has no questions, and the administrator's has the whole report.
ClientReads(p) ==
  LET c == conn[p] IN
  /\ status[p] = "reading"
  /\ \/ /\ HasData(c, "client")
        /\ conn' = [conn EXCEPT ![p] = SetData(c, "server", Tail(c["server"].data))]
        /\ seen' = [seen EXCEPT ![p] = @ + 1]
        /\ status' = IF p \in Respondent /\ seen'[p] = Needed(p)
                       THEN [status EXCEPT ![p] = "asked"] ELSE status
     \/ /\ AtEof(c, "client")
        /\ End(p, IF program = "SurveyServer" THEN "died"
                  ELSE IF p \in Respondent THEN "answered" ELSE "printed", c)
        /\ UNCHANGED seen
     \/ /\ AtReset(c, "client")
        /\ End(p, IF p \in Respondent /\ program = "SurveyServer2" THEN "answered" ELSE "died",
               ErrorReturned(c, "client"))
        /\ UNCHANGED seen
  /\ UNCHANGED <<process, up, created, threads, holder, tallies, admin, given>>

\* The user gives a legal response, and the client sends it; after the last it ends.
\* That of SurveyServer2 flushes twice, the second time nothing; once its stream has
\* failed it may not send at all.
Answer(p) ==
  LET c == conn[p]
      failed(d) == c["server"].end = "rst" /\ d = ErrorReturned(c, "client")
  IN
  /\ status[p] = "asked"
  /\ \E r \in {a \in Answers : <<p, a>> \in Opinions} :
       /\ given' = [given EXCEPT ![p] = Append(@, r)]
       /\ \/ RaisesSigPipe(c, "client") /\ End(p, "died", c)
          \/ \E d \in Sent(c, "client", r) :
               program = "SurveyServer2" /\ RaisesSigPipe(d, "client") /\ End(p, "died", d)
          \/ \E d \in IF program = "SurveyServer2" /\ c["server"].end = "broken"
                         THEN {c} ELSE Sent(c, "client", r) :
               IF failed(d) /\ program = "SurveyServer" THEN End(p, "died", d)
               ELSE IF Len(given'[p]) = Questions THEN End(p, "answered", d)
               ELSE /\ conn' = [conn EXCEPT ![p] = d]
                    /\ status' = [status EXCEPT ![p] =
                                    IF program = "SurveyServer" THEN "reading" ELSE "asked"]
  /\ UNCHANGED <<process, up, created, threads, holder, tallies, admin, seen>>

Killed(p) ==
  /\ p \in Killable /\ status[p] \in {"reading", "asked"}
  /\ End(p, "killed", conn[p])
  /\ UNCHANGED <<process, up, created, threads, holder, tallies, admin, seen, given>>

Next ==
  \/ \E p \in Respondent : Accept(p) \/ Thread(p) \/ Answer(p)
  \/ Admin \/ AcceptThrows \/ AdminThrows
  \/ \E p \in Client : Connect(p) \/ ClientReads(p) \/ Killed(p)

Spec == Init /\ [][Next]_vvars

\* The threads and the clients' processes run; no user has to answer.
Fairness ==
  /\ \A p \in Respondent : WF_vvars(Accept(p)) /\ WF_vvars(Thread(p))
  /\ WF_vvars(Admin)
  /\ \A p \in Client : WF_vvars(ClientReads(p))

LiveSpec == Spec /\ Fairness

-----------------------------------------------------------------------------
(* Properties. *)

Places == {"none", "asking", "reading", "lock", "load", "store", "unlock", "log", "push",
           "closing", "ended"}

SurveyTypeOK ==
  /\ program \in Programs /\ limit \in ThreadLimits /\ up \in BOOLEAN /\ thrown \in BOOLEAN
  /\ conn \in [Client -> Connections(Nat)]
  /\ created \in 0 .. limit
  /\ at \in [Respondent -> Places]
  /\ q \in [Respondent -> Question] /\ part \in [Respondent -> 1 .. Parts]
  /\ response \in [Respondent -> Nat] /\ good \in [Respondent -> BOOLEAN]
  /\ holder \in Respondent \union {"admin", "nobody"}
  /\ rCount \in [Question -> [Answers -> Nat]]
  /\ old \in [Respondent -> Nat]
  /\ addrList \in Seq(Respondent)
  /\ adminAt \in {"none", "accept", "lock", "copy", "list", "unlock", "report", "flush", "close"}
  /\ adminSock \in Administrator \union {"nobody"}
  /\ myCount \in [Question -> [Answers -> Nat]] /\ myList \in Seq(Respondent)
  /\ status \in [Client -> Outcomes \union {"start", "reading", "asked"}]
  /\ seen \in [Client -> Nat] /\ given \in [Respondent -> Seq(Answers)]
  /\ counted \in [Question -> [Respondent -> SUBSET Answers]]

Counted(i, r) == {p \in Respondent : r \in counted[i][p]}

\* No answer is lost and none counted twice, whatever threads count at a time: each
\* tally is the number of the respondents counted with that answer. And what is counted
\* for a respondent is what it answered to that question; only a thread of SurveyServer2
\* whose stream has failed counts what nobody has answered.
TalliesAreAnswers ==
  \A i \in Question :
    /\ \A r \in Answers : rCount[i][r] = Cardinality(Counted(i, r))
    /\ \A p \in Respondent :
         good[p] => counted[i][p] \subseteq {given[p][k] : k \in DOMAIN given[p] \intersect {i}}

\* The respondents in the list s, with a stream that has failed or not.
Completed(s) == {p \in Respondent : \E k \in DOMAIN s : s[k] = p}

\* The report is of one moment: the answers of those it lists are all in its counts.
ReportIsConsistent ==
  adminAt \in {"unlock", "report", "flush", "close"} =>
    \A i \in Question : \A r \in Answers :
      Cardinality(Counted(i, r) \intersect Completed(myList)) <= myCount[i][r]

\* The mutex is abandoned: the thread that locked it has ended.
Abandoned == holder \in Respondent /\ at[holder] \in {"closing", "ended"}

\* The process ends only because accept() has thrown, which takes it out of the loop
\* that is to "Repeatedly accept connections and administer the survey", or because a
\* client was killed while the server was sending to it: no respondent or administrator
\* that keeps to its program ends it, whatever the others do.
EndsForAReason == up \/ thrown \/ \E p \in Client : status[p] = "killed"

\* Every client that starts ends, as far as it depends on the server: its user answers,
\* and the mutex is not abandoned.
EndsUnlessAbandoned ==
  \A p \in Client : <>[](status[p] \in {"start", "asked"} \/ Ended(p) \/ Abandoned)

\* Every administrator that connects gets its report, or the end of the server
\* ("Repeatedly accept administrative connections", SurveyServer2.cpp, line 109).
EveryAdminEnds == \A p \in Administrator : status[p] = "reading" ~> Ended(p)
=============================================================================
