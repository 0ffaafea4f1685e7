----------------------------- MODULE Datagrams -----------------------------
(***************************************************************************)
(* The UDP echo programs of Material/CodigosEncontrados: one server,       *)
(* UDPEchoServer.c (it blocks in recvfrom()) or UDPEchoServer-SIGO.c (it   *)
(* is interrupted by SIGIO and drains its socket in the handler), and      *)
(* clients that send one word and print the answer, UDPEchoClient.c or     *)
(* UDPEchoClient-Timeout.c (which sends again when SIGALRM interrupts it). *)
(* The network loses, duplicates, delays and reorders datagrams, others    *)
(* may send to a client's port, and a full receive queue drops.            *)
(***************************************************************************)
EXTENDS Integers, Sequences, FiniteSets

CONSTANTS
  Programs,    \* the servers tried: "UDPEchoServer", "UDPEchoServer-SIGO"
  Plain,       \* the clients that run UDPEchoClient.c
  Retrying,    \* the clients that run UDPEchoClient-Timeout.c
  MAXTRIES,
  QueueLimit,  \* the datagrams that fit the receive queue of a socket
  MaxFaults    \* bound: losses, duplications and strangers' datagrams

Client == Plain \union Retrying

ASSUME DatagramAssumption ==
  /\ Programs \subseteq {"UDPEchoServer", "UDPEchoServer-SIGO"}
  /\ Plain \intersect Retrying = {}
  /\ "server" \notin Client /\ "stranger" \notin Client
  /\ MAXTRIES \in Nat /\ QueueLimit \in Nat /\ MaxFaults \in Nat

\* A datagram: who sent it, to whose port, and whose word it carries.
Request(p) == [from |-> p, to |-> "server", word |-> p]
Stray(p) == [from |-> "stranger", to |-> p, word |-> "stranger"]

\* sendto() of the same bytes to the address that recvfrom() stored.
Reply(d) == [from |-> "server", to |-> d.from, word |-> d.word]

Requests == {Request(p) : p \in Client}
Answers(p) == {Reply(Request(p)), Stray(p)}
Datagram == Requests \union UNION {Answers(p) : p \in Client}

VARIABLES
  program,  \* which of the two servers this is
  at,       \* where it is: "setup", "idle" (UseIdleTime()), "receive", "send"
  held,     \* what recvfrom() returned and sendto() has not sent yet
  queue,    \* kernel: the receive queue of the server's socket
  pending,  \* kernel: SIGIO is pending
  early,    \* history: what had arrived when SIGIO was switched on, until the
            \* first SIGIO is handled
  net,      \* how many copies of each datagram are under way
  inbox,    \* kernel: the receive queue of each client's socket
  status,   \* where each client is, or how it ended
  timer,    \* kernel: alarm() is running
  tries,
  result,   \* the datagram a client has printed
  lost,     \* history: the copies of each client's word that were lost or dropped
  missed,   \* history: the clients whose alarm rang before they waited
  faults

server == <<program, at, held, early>>
clients == <<status, timer, tries, result>>
kernel == <<queue, pending, inbox>>
history == <<lost, missed>>
dvars == <<server, clients, kernel, net, history, faults>>

Nothing == [from |-> "nobody", to |-> "nobody", word |-> "nobody"]

Ends == {"printed", "died", "gave up"}
Ended(p) == status[p] \in Ends

Init ==
  /\ program \in Programs
  /\ at = IF program = "UDPEchoServer" THEN "receive" ELSE "setup"
  /\ held = Nothing
  /\ queue = <<>>
  /\ pending = FALSE
  /\ early = <<>>
  /\ net = [d \in Datagram |-> 0]
  /\ inbox = [p \in Client |-> <<>>]
  /\ status = [p \in Client |-> "start"]
  /\ timer = [p \in Client |-> FALSE]
  /\ tries = [p \in Client |-> 0]
  /\ result = [p \in Client |-> Nothing]
  /\ lost = [p \in Client |-> 0]
  /\ missed = {}
  /\ faults = 0

-----------------------------------------------------------------------------
(* The server. The socket is bound, so datagrams queue up from the start.    *)

\* SIGIO is caught, the process owns the socket, and from this fcntl() on the
\* arrival of a datagram raises SIGIO; what is in the queue already raises none.
SwitchOnSignals ==
  /\ at = "setup"
  /\ at' = "idle"
  /\ early' = queue
  /\ UNCHANGED <<program, held, clients, kernel, net, history, faults>>

\* SIGIO interrupts UseIdleTime(). The handler masks every signal: an arrival while
\* it runs leaves SIGIO pending until it returns.
EnterHandler ==
  /\ at = "idle" /\ pending
  /\ at' = "receive"
  /\ pending' = FALSE
  /\ early' = <<>>
  /\ UNCHANGED <<program, held, clients, queue, inbox, net, history, faults>>

RecvFrom ==
  /\ at = "receive"
  /\ queue # <<>>
  /\ held' = Head(queue)
  /\ queue' = Tail(queue)
  /\ at' = "send"
  /\ UNCHANGED <<program, early, clients, pending, inbox, net, history, faults>>

\* EWOULDBLOCK, at the socket that SwitchOnSignals made nonblocking: the handler
\* returns. (UDPEchoServer.c blocks instead.)
WouldBlock_NoCheck ==
  /\ program = "UDPEchoServer-SIGO"
  /\ at = "receive" /\ queue = <<>>
  /\ at' = IF held = Nothing THEN "idle" ELSE "send"
  /\ UNCHANGED <<program, held, early, clients, kernel, net, history, faults>>
WouldBlock ==
  /\ program = "UDPEchoServer-SIGO"
  /\ at = "receive" /\ queue = <<>>
  /\ at' = "idle"
  /\ held' = Nothing
  /\ UNCHANGED <<program, early, clients, kernel, net, history, faults>>

\* One datagram, and back to the idle loop: a handler without its do-while.
SendTo_Once ==
  /\ at = "send"
  /\ net' = [net EXCEPT ![Reply(held)] = @ + 1]
  /\ at' = IF program = "UDPEchoServer" THEN "receive" ELSE "idle"
  /\ UNCHANGED <<program, held, early, clients, kernel, history, faults>>
SendTo ==
  /\ at = "send"
  /\ net' = [net EXCEPT ![Reply(held)] = @ + 1]
  /\ at' = "receive"
  /\ UNCHANGED <<program, held, early, clients, kernel, history, faults>>

ServerStep == SwitchOnSignals \/ EnterHandler \/ RecvFrom \/ WouldBlock \/ SendTo

-----------------------------------------------------------------------------
(* The clients.                                                              *)

\* sendto(), and at UDPEchoClient-Timeout.c alarm(): the only call that starts it.
Send(p) ==
  /\ status[p] = "start"
  /\ net' = [net EXCEPT ![Request(p)] = @ + 1]
  /\ timer' = [timer EXCEPT ![p] = p \in Retrying]
  /\ status' = [status EXCEPT ![p] = "sent"]
  /\ UNCHANGED <<tries, result, server, kernel, history, faults>>

\* recvfrom() is called; it blocks until a datagram is there.
Wait(p) ==
  /\ status[p] = "sent"
  /\ status' = [status EXCEPT ![p] = "receiving"]
  /\ UNCHANGED <<timer, tries, result, server, kernel, net, history, faults>>

\* The handler of SIGALRM, on the global variable tries.
CatchAlarm_CountsDown(n) == n - 1
CatchAlarm(n) == n + 1

\* SIGALRM: CatchAlarm() counts, and a recvfrom() that blocks fails with EINTR.
AlarmRings(p) ==
  /\ timer[p]
  /\ timer' = [timer EXCEPT ![p] = FALSE]
  /\ tries' = [tries EXCEPT ![p] = CatchAlarm(@)]
  /\ status' = IF status[p] = "receiving" /\ inbox[p] = <<>>
                 THEN [status EXCEPT ![p] = "interrupted"] ELSE status
  /\ missed' = IF status[p] = "sent" THEN missed \union {p} ELSE missed
  /\ UNCHANGED <<result, server, kernel, net, lost, faults>>

\* The word is sent again, with no new alarm(), or the client gives up.
Retry_Never(p) ==
  /\ status[p] = "interrupted"
  /\ status' = [status EXCEPT ![p] = "receiving"]
  /\ UNCHANGED <<net, timer, tries, result, server, kernel, history, faults>>
Retry(p) ==
  /\ status[p] = "interrupted"
  /\ IF tries[p] < MAXTRIES
       THEN /\ net' = [net EXCEPT ![Request(p)] = @ + 1]
            /\ status' = [status EXCEPT ![p] = "receiving"]
       ELSE status' = [status EXCEPT ![p] = "gave up"] /\ UNCHANGED net
  /\ UNCHANGED <<timer, tries, result, server, kernel, history, faults>>

\* What the client does with a datagram: UDPEchoClient.c refuses one that another
\* address sent (or of another length, which no answer of the server has).
FromServer(d) == d.from = "server"
Accepts_Unchecked(p, d) == TRUE
Accepts(p, d) == p \in Retrying \/ FromServer(d)

\* recvfrom() returns a datagram; alarm(0); the client prints it or dies.
Receive(p) ==
  /\ status[p] = "receiving"
  /\ inbox[p] # <<>>
  /\ inbox' = [inbox EXCEPT ![p] = Tail(@)]
  /\ timer' = [timer EXCEPT ![p] = FALSE]
  /\ IF Accepts(p, Head(inbox[p]))
       THEN /\ status' = [status EXCEPT ![p] = "printed"]
            /\ result' = [result EXCEPT ![p] = Head(inbox[p])]
       ELSE status' = [status EXCEPT ![p] = "died"] /\ UNCHANGED result
  /\ UNCHANGED <<tries, server, queue, pending, net, history, faults>>

ClientStep(p) == Wait(p) \/ AlarmRings(p) \/ Retry(p) \/ Receive(p)

-----------------------------------------------------------------------------
(* The network.                                                              *)

\* The socket d is for has room, and is still open if it is a client's.
HasRoom(d) ==
  IF d \in Requests THEN Len(queue) < QueueLimit
  ELSE Len(inbox[d.to]) < QueueLimit /\ ~Ended(d.to)

\* One copy of d is gone, and with it a copy of the word, if d carries one.
IsLost(d) == lost' = [p \in Client |-> IF p = d.word THEN lost[p] + 1 ELSE lost[p]]

\* A datagram reaches the socket it is for; at the server's it raises SIGIO, if that
\* is switched on.
Arrive(d) ==
  /\ net[d] > 0 /\ HasRoom(d)
  /\ net' = [net EXCEPT ![d] = @ - 1]
  /\ IF d \in Requests
       THEN /\ queue' = Append(queue, d)
            /\ pending' = (pending \/ (program = "UDPEchoServer-SIGO" /\ at # "setup"))
            /\ UNCHANGED inbox
       ELSE /\ inbox' = [inbox EXCEPT ![d.to] = Append(@, d)]
            /\ UNCHANGED <<queue, pending>>
  /\ UNCHANGED <<server, clients, history, faults>>

\* It is dropped there: the queue is full or the socket closed.
Drop(d) ==
  /\ net[d] > 0 /\ ~HasRoom(d)
  /\ net' = [net EXCEPT ![d] = @ - 1]
  /\ IsLost(d)
  /\ UNCHANGED <<server, clients, kernel, missed, faults>>

Fault ==
  /\ faults < MaxFaults
  /\ faults' = faults + 1
  /\ UNCHANGED <<server, clients, kernel, missed>>

Lose(d) ==
  /\ net[d] > 0
  /\ Fault
  /\ net' = [net EXCEPT ![d] = @ - 1]
  /\ IsLost(d)

Duplicate(d) ==
  /\ net[d] > 0
  /\ Fault
  /\ net' = [net EXCEPT ![d] = @ + 1]
  /\ UNCHANGED lost

\* Somebody else sends to the port of a client.
StrangerSends(p) ==
  /\ status[p] # "start" /\ ~Ended(p)
  /\ Fault
  /\ net' = [net EXCEPT ![Stray(p)] = @ + 1]
  /\ UNCHANGED lost

Next ==
  \/ ServerStep
  \/ \E p \in Client : Send(p) \/ ClientStep(p) \/ StrangerSends(p)
  \/ \E d \in Datagram : Arrive(d) \/ Drop(d) \/ Lose(d) \/ Duplicate(d)

Spec == Init /\ [][Next]_dvars

\* The processes run, alarms ring and what is not lost arrives. No client has to
\* start, and nothing has to be lost.
Fairness ==
  /\ WF_dvars(ServerStep)
  /\ \A p \in Client : WF_dvars(ClientStep(p))
  /\ \A d \in Datagram : WF_dvars(Arrive(d) \/ Drop(d))

LiveSpec == Spec /\ Fairness

-----------------------------------------------------------------------------
(* Properties. *)

DTypeOK ==
  /\ program \in Programs
  /\ at \in {"setup", "idle", "receive", "send"}
  /\ held \in Requests \union {Nothing}
  /\ queue \in Seq(Requests)
  /\ early \in Seq(Requests)
  /\ pending \in BOOLEAN
  /\ net \in [Datagram -> Nat]
  /\ inbox \in [Client -> Seq(Datagram)]
  /\ status \in [Client -> Ends \union {"start", "sent", "receiving", "interrupted"}]
  /\ timer \in [Client -> BOOLEAN]
  /\ tries \in [Client -> Nat]
  /\ result \in [Client -> Datagram \union {Nothing}]
  /\ lost \in [Client -> Nat]
  /\ missed \subseteq Client
  /\ faults \in 0 .. MaxFaults

\* When UDPEchoServer-SIGO.c idles and no SIGIO is on its way, nothing is left to
\* receive (the comment that ends its handler), but for what arrived before it
\* switched signals on: although SIGIO does not queue, no arrival during the handler,
\* or between the last recvfrom() and its return, is forgotten.
NoneForgotten == at = "idle" /\ ~pending => queue = early

\* UDPEchoClient.c prints nothing but its own word, echoed by the server it asked,
\* whatever else the network brings to its port: the check of the address it ends with.
\* UDPEchoClient-Timeout.c has no such check and prints a stranger's datagram too.
PrintsItsEcho ==
  \A p \in Plain : status[p] = "printed" => result[p] = Reply(Request(p))

\* How often d occurs in the sequence s.
Occurrences(d, s) == Cardinality({k \in DOMAIN s : s[k] = d})

\* The copies of p's word in the whole system, in either direction.
Copies(p) ==
  LET asked == Request(p)
      answer == Reply(asked)
  IN  net[asked] + Occurrences(asked, queue) + (IF at = "send" /\ held = asked THEN 1 ELSE 0)
        + net[answer] + Occurrences(answer, inbox[p])

\* One answer for one request: there are never more copies of a word about than its
\* client sent (at most once for each alarm, and the first) and the network
\* duplicated.
NoEchoFromNothing == \A p \in Client : Copies(p) <= 1 + tries[p] + faults

\* The copies of p's word in the queue of a server that nothing will wake.
Forgotten(p) == IF at = "idle" /\ ~pending THEN Occurrences(Request(p), queue) ELSE 0

\* p waits for an answer that cannot come: no alarm is to ring any more, and all that
\* it sent is lost or forgotten, its retransmission too, unless its only alarm rang
\* before it waited.
WaitsInVain(p) ==
  /\ status[p] = "receiving" /\ ~timer[p] /\ inbox[p] = <<>>
  /\ Copies(p) = Forgotten(p)
  /\ lost[p] + Forgotten(p) >= IF p \in Retrying \ missed THEN 2 ELSE 1

\* Every client that starts ends, unless every copy of its word was lost: no server is
\* blocked with work in its queue, no answer stays unread, and UDPEchoClient-Timeout.c
\* makes up for one loss. It does not make up for two, and never gives up, although it
\* says "Seconds between retransmits" and "Tries before giving up" (lines 12-13) of
\* TIMEOUT_SECS and of MAXTRIES, which is 5: alarm() is called once (line 76), before
\* the loop, so that nothing interrupts recvfrom() a second time. What the code does is
\* stated here, and the disagreement is in the README.
WaitsForACause ==
  \A p \in Client : <>[](status[p] = "start" \/ Ended(p) \/ WaitsInVain(p))
=============================================================================
