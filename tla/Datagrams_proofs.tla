-------------------------- MODULE Datagrams_proofs --------------------------
(***************************************************************************)
(* Theorems about Datagrams: for any clients, queues and faults, the       *)
(* interrupted server forgets no datagram, UDPEchoClient.c prints nothing  *)
(* but its own echo, and no server answers a request twice.                *)
(***************************************************************************)
EXTENDS Datagrams, FiniteSetTheorems, TLAPS

-----------------------------------------------------------------------------
(* Datagrams. *)

LEMMA ClientDatagrams ==
  ASSUME NEW p \in Client
  PROVE  /\ Request(p) \in Requests
         /\ Request(p) \in Datagram
         /\ Reply(Request(p)) \in Datagram
         /\ Stray(p) \in Datagram
BY DEF Requests, Datagram, Answers

LEMMA ReplyToRequest ==
  ASSUME NEW d \in Requests
  PROVE  Reply(d) \in Datagram
<1>1. PICK p \in Client : d = Request(p)
  BY DEF Requests
<1> QED
  BY <1>1, ClientDatagrams

\* What is not for the server is an answer to the client it is for.
LEMMA OthersAreAnswers ==
  ASSUME NEW d \in Datagram, d \notin Requests
  PROVE  d.to \in Client /\ d \in Answers(d.to)
<1>1. PICK p \in Client : d \in Answers(p)
  BY DEF Datagram
<1>2. Request(p).from = p
  BY DEF Request
<1>3. Reply(Request(p)).to = p
  BY <1>2 DEF Reply
<1>4. Stray(p).to = p
  BY DEF Stray
<1>5. d.to = p
  BY <1>1, <1>3, <1>4 DEF Answers
<1> QED
  BY <1>1, <1>5

\* Of the two datagrams that reach a client, one is from the server.
LEMMA FromServerIsEcho ==
  ASSUME NEW p \in Client, NEW d \in Answers(p), FromServer(d)
  PROVE  d = Reply(Request(p))
<1>1. Stray(p).from = "stranger"
  BY DEF Stray
<1>2. d # Stray(p)
  BY <1>1 DEF FromServer
<1> QED
  BY <1>2 DEF Answers

LEMMA AnswersAreDatagrams ==
  ASSUME NEW p \in Client
  PROVE  Answers(p) \subseteq Datagram
BY DEF Datagram

\* Counters.
LEMMA OneMore ==
  ASSUME NEW S, NEW f \in [S -> Nat], NEW a \in S
  PROVE  [f EXCEPT ![a] = @ + 1] \in [S -> Nat]
<1>1. f[a] + 1 \in Nat
  OBVIOUS
<1> QED
  BY <1>1

LEMMA OneLess ==
  ASSUME NEW S, NEW f \in [S -> Nat], NEW a \in S, f[a] > 0
  PROVE  [f EXCEPT ![a] = @ - 1] \in [S -> Nat]
<1>1. f[a] \in Nat /\ f[a] - 1 \in Nat
  OBVIOUS
<1> QED
  BY <1>1

-----------------------------------------------------------------------------
(* The inductive invariant. *)

\* The handler runs with nothing early, the idle loop and the set-up belong to the
\* server that is interrupted, and no SIGIO is raised before it is switched on.
SignalsInOrder ==
  /\ at \in {"receive", "send"} => early = <<>>
  /\ at \in {"setup", "idle"} => program = "UDPEchoServer-SIGO"
  /\ at = "setup" => ~pending
  /\ at = "send" => held \in Requests

\* Only answers reach a client.
InboxesHoldAnswers == \A p \in Client : inbox[p] \in Seq(Answers(p))

DInv == DTypeOK /\ SignalsInOrder /\ NoneForgotten /\ InboxesHoldAnswers /\ PrintsItsEcho

LEMMA InitD == Init => DInv
<1> SUFFICES ASSUME Init PROVE DInv
  OBVIOUS
<1> USE DatagramAssumption
<1>1. DTypeOK
  <2>1. program \in Programs /\ at \in {"setup", "idle", "receive", "send"}
    BY DEF Init
  <2>2. held \in Requests \union {Nothing} /\ queue \in Seq(Requests) /\ early \in Seq(Requests)
    BY DEF Init
  <2>3. net \in [Datagram -> Nat] /\ inbox \in [Client -> Seq(Datagram)]
    BY DEF Init
  <2>4. status \in [Client -> Ends \union {"start", "sent", "receiving", "interrupted"}]
    BY DEF Init
  <2>5. /\ timer \in [Client -> BOOLEAN] /\ tries \in [Client -> Nat]
        /\ result \in [Client -> Datagram \union {Nothing}] /\ lost \in [Client -> Nat]
    BY DEF Init
  <2>6. pending \in BOOLEAN /\ missed \subseteq Client
    BY DEF Init
  <2>7. faults = 0 /\ MaxFaults \in Nat
    BY DEF Init, DatagramAssumption
  <2>8. faults \in 0 .. MaxFaults
    BY <2>7
  <2> QED
    BY <2>1, <2>2, <2>3, <2>4, <2>5, <2>6, <2>8 DEF DTypeOK
<1>2. SignalsInOrder
  BY DEF Init, SignalsInOrder
<1>3. NoneForgotten
  BY DEF Init, NoneForgotten
<1>4. InboxesHoldAnswers
  BY DEF Init, InboxesHoldAnswers
<1>5. PrintsItsEcho
  BY DEF Init, PrintsItsEcho, Client
<1> QED
  BY <1>1, <1>2, <1>3, <1>4, <1>5 DEF DInv

-----------------------------------------------------------------------------
(* The server's steps. *)

LEMMA ServerKeepsD == DInv /\ ServerStep => DInv'
<1> SUFFICES ASSUME DInv, ServerStep PROVE DInv'
  OBVIOUS
<1> USE DEF DInv
<1>a. UNCHANGED <<clients, inbox, program, lost, missed, faults>>
  BY DEF ServerStep, SwitchOnSignals, EnterHandler, RecvFrom, WouldBlock, SendTo, clients, kernel, history
<1>b. InboxesHoldAnswers' /\ PrintsItsEcho'
  BY <1>a DEF InboxesHoldAnswers, PrintsItsEcho, clients
<1>1. CASE SwitchOnSignals
  <2>1. DTypeOK'
    BY <1>1, <1>a DEF SwitchOnSignals, DTypeOK, clients, kernel, history
  <2>2. SignalsInOrder' /\ NoneForgotten'
    BY <1>1 DEF SwitchOnSignals, SignalsInOrder, NoneForgotten, kernel
  <2> QED
    BY <1>b, <2>1, <2>2
<1>2. CASE EnterHandler
  <2>1. /\ at' = "receive" /\ pending' = FALSE /\ early' = <<>>
        /\ UNCHANGED <<held, queue, net>>
    BY <1>2 DEF EnterHandler
  <2>3. early' \in Seq(Requests)
    BY <2>1
  <2>4. DTypeOK'
    BY <1>a, <2>1, <2>3 DEF DTypeOK, clients
  <2>2. SignalsInOrder' /\ NoneForgotten'
    BY <1>2 DEF EnterHandler, SignalsInOrder, NoneForgotten
  <2> QED
    BY <1>b, <2>2, <2>4
<1>3. CASE RecvFrom
  <2>1. Head(queue) \in Requests /\ Tail(queue) \in Seq(Requests)
    BY <1>3 DEF RecvFrom, DTypeOK
  <2>2. DTypeOK'
    BY <1>3, <1>a, <2>1 DEF RecvFrom, DTypeOK, clients, history
  <2>3. SignalsInOrder' /\ NoneForgotten'
    BY <1>3, <2>1 DEF RecvFrom, SignalsInOrder, NoneForgotten
  <2> QED
    BY <1>b, <2>2, <2>3
<1>4. CASE WouldBlock
  <2>1. DTypeOK'
    BY <1>4, <1>a DEF WouldBlock, DTypeOK, clients, kernel, history
  <2>2. SignalsInOrder' /\ NoneForgotten'
    BY <1>4 DEF WouldBlock, SignalsInOrder, NoneForgotten, kernel
  <2> QED
    BY <1>b, <2>1, <2>2
<1>5. CASE SendTo
  <2>1. held \in Requests
    BY <1>5 DEF SendTo, SignalsInOrder
  <2>2. Reply(held) \in Datagram
    BY <2>1, ReplyToRequest
  <2>6. net' = [net EXCEPT ![Reply(held)] = @ + 1] /\ net \in [Datagram -> Nat]
    BY <1>5 DEF SendTo, DTypeOK
  <2>3. net' \in [Datagram -> Nat]
    BY <2>2, <2>6, OneMore
  <2>4. DTypeOK'
    BY <1>5, <1>a, <2>3 DEF SendTo, DTypeOK, clients, kernel, history
  <2>5. SignalsInOrder' /\ NoneForgotten'
    BY <1>5 DEF SendTo, SignalsInOrder, NoneForgotten, kernel
  <2> QED
    BY <1>b, <2>4, <2>5
<1> QED
  BY <1>1, <1>2, <1>3, <1>4, <1>5 DEF ServerStep

-----------------------------------------------------------------------------
(* The clients' steps. *)

LEMMA ClientKeepsD ==
  ASSUME DInv, NEW p \in Client, Send(p) \/ ClientStep(p)
  PROVE  DInv'
<1> USE DatagramAssumption DEF DInv
<1>a. UNCHANGED <<program, at, held, early, queue, pending, faults>>
  BY DEF Send, ClientStep, Wait, AlarmRings, Retry, Receive, server, kernel, history
<1>b. SignalsInOrder' /\ NoneForgotten'
  BY <1>a DEF SignalsInOrder, NoneForgotten
<1>1. CASE Send(p)
  <2>1. net' = [net EXCEPT ![Request(p)] = @ + 1]
    BY <1>1 DEF Send
  <2>4. net' \in [Datagram -> Nat]
    BY <2>1, ClientDatagrams, OneMore DEF DTypeOK
  <2>5. /\ status' \in [Client -> Ends \union {"start", "sent", "receiving", "interrupted"}]
        /\ timer' \in [Client -> BOOLEAN]
    BY <1>1 DEF Send, DTypeOK
  <2>2. DTypeOK'
    BY <1>1, <1>a, <2>4, <2>5 DEF Send, DTypeOK, server, kernel, history
  <2>3. InboxesHoldAnswers' /\ PrintsItsEcho'
    BY <1>1 DEF Send, InboxesHoldAnswers, PrintsItsEcho, kernel, Client, DTypeOK
  <2> QED
    BY <1>b, <2>2, <2>3
<1>2. CASE Wait(p)
  <2>1. DTypeOK'
    BY <1>2, <1>a DEF Wait, DTypeOK, Ends, server, kernel, history
  <2>2. InboxesHoldAnswers' /\ PrintsItsEcho'
    BY <1>2 DEF Wait, InboxesHoldAnswers, PrintsItsEcho, kernel, Client, DTypeOK
  <2> QED
    BY <1>b, <2>1, <2>2
<1>3. CASE AlarmRings(p)
  <2>1. tries' \in [Client -> Nat] /\ timer' \in [Client -> BOOLEAN] /\ missed' \subseteq Client
    BY <1>3 DEF AlarmRings, CatchAlarm, DTypeOK
  <2>2. status' \in [Client -> Ends \union {"start", "sent", "receiving", "interrupted"}]
    BY <1>3 DEF AlarmRings, DTypeOK
  <2>3. DTypeOK'
    BY <1>3, <1>a, <2>1, <2>2 DEF AlarmRings, DTypeOK, server, kernel
  <2>4. InboxesHoldAnswers' /\ PrintsItsEcho'
    BY <1>3 DEF AlarmRings, InboxesHoldAnswers, PrintsItsEcho, kernel, Client, DTypeOK
  <2> QED
    BY <1>b, <2>3, <2>4
<1>4. CASE Retry(p)
  <2>a. net' = [net EXCEPT ![Request(p)] = @ + 1] \/ net' = net
    BY <1>4 DEF Retry
  <2>b. net \in [Datagram -> Nat] /\ Request(p) \in Datagram
    BY ClientDatagrams DEF DTypeOK
  <2>c. [net EXCEPT ![Request(p)] = @ + 1] \in [Datagram -> Nat]
    BY <2>b, OneMore
  <2>1. net' \in [Datagram -> Nat]
    BY <2>a, <2>b, <2>c
  <2>2. status' \in [Client -> Ends \union {"start", "sent", "receiving", "interrupted"}]
    BY <1>4 DEF Retry, DTypeOK, Ends
  <2>3. DTypeOK'
    BY <1>4, <1>a, <2>1, <2>2 DEF Retry, DTypeOK, server, kernel, history
  <2>4. InboxesHoldAnswers' /\ PrintsItsEcho'
    BY <1>4 DEF Retry, InboxesHoldAnswers, PrintsItsEcho, kernel, Client, DTypeOK
  <2> QED
    BY <1>b, <2>3, <2>4
<1>5. CASE Receive(p)
  <2> DEFINE d == Head(inbox[p])
  <2>1. d \in Answers(p) /\ Tail(inbox[p]) \in Seq(Answers(p))
    BY <1>5 DEF Receive, InboxesHoldAnswers
  <2>2. d \in Datagram /\ Tail(inbox[p]) \in Seq(Datagram)
    BY <1>5, <2>1, AnswersAreDatagrams DEF Receive, DTypeOK
  <2>3. InboxesHoldAnswers'
    BY <1>5, <2>1 DEF Receive, InboxesHoldAnswers, DTypeOK
  <2>4. p \in Plain /\ Accepts(p, d) => d = Reply(Request(p))
    BY <2>1, FromServerIsEcho DEF Accepts, Client
  <2>5. PrintsItsEcho'
    BY <1>5, <2>4 DEF Receive, PrintsItsEcho, DTypeOK, Client
  <2>6. DTypeOK'
    BY <1>5, <1>a, <2>2 DEF Receive, DTypeOK, Ends, server, history
  <2> QED
    BY <1>b, <2>3, <2>5, <2>6
<1> QED
  BY <1>1, <1>2, <1>3, <1>4, <1>5 DEF ClientStep

-----------------------------------------------------------------------------
(* The network's steps. *)

LEMMA NetworkKeepsD ==
  ASSUME DInv,
         \/ \E p \in Client : StrangerSends(p)
         \/ \E d \in Datagram : Arrive(d) \/ Drop(d) \/ Lose(d) \/ Duplicate(d)
  PROVE  DInv'
<1> USE DatagramAssumption DEF DInv
<1>a. UNCHANGED <<server, clients, missed>>
  BY DEF StrangerSends, Arrive, Drop, Lose, Duplicate, Fault, history
<1>b. PrintsItsEcho'
  BY <1>a DEF PrintsItsEcho, clients
<1>1. CASE \E p \in Client : StrangerSends(p)
  <2>1. PICK p \in Client : StrangerSends(p)
    BY <1>1
  <2>a. net' = [net EXCEPT ![Stray(p)] = @ + 1]
    BY <2>1 DEF StrangerSends
  <2>2. net' \in [Datagram -> Nat] /\ faults' \in 0 .. MaxFaults
    BY <2>1, <2>a, ClientDatagrams, OneMore DEF StrangerSends, Fault, DTypeOK
  <2>3. DTypeOK'
    BY <2>1, <2>2, <1>a DEF StrangerSends, Fault, DTypeOK, server, clients, kernel
  <2>4. SignalsInOrder' /\ NoneForgotten' /\ InboxesHoldAnswers'
    BY <2>1 DEF StrangerSends, Fault, SignalsInOrder, NoneForgotten, InboxesHoldAnswers, server, kernel
  <2> QED
    BY <1>b, <2>3, <2>4
<1>2. ASSUME NEW d \in Datagram, Drop(d) \/ Lose(d) \/ Duplicate(d)
      PROVE  DInv'
  <2>a. /\ net[d] > 0
        /\ net' = [net EXCEPT ![d] = @ + 1] \/ net' = [net EXCEPT ![d] = @ - 1]
    BY <1>2 DEF Drop, Lose, Duplicate
  <2>e. net \in [Datagram -> Nat]
    BY DEF DTypeOK
  <2>f. [net EXCEPT ![d] = @ + 1] \in [Datagram -> Nat]
    BY <2>e, OneMore
  <2>g. [net EXCEPT ![d] = @ - 1] \in [Datagram -> Nat]
    BY <2>a, <2>e, OneLess
  <2>b. net' \in [Datagram -> Nat]
    BY <2>a, <2>f, <2>g
  <2>1. net' \in [Datagram -> Nat] /\ faults' \in 0 .. MaxFaults
    BY <1>2, <2>b DEF Drop, Lose, Duplicate, Fault, DTypeOK
  <2>c. IsLost(d) \/ lost' = lost
    BY <1>2 DEF Drop, Lose, Duplicate
  <2>d. \A p \in Client : lost[p] \in Nat /\ lost[p] + 1 \in Nat
    BY DEF DTypeOK
  <2>2. lost' \in [Client -> Nat]
    BY <2>c, <2>d DEF IsLost, DTypeOK
  <2>3. UNCHANGED kernel
    BY <1>2 DEF Drop, Lose, Duplicate, Fault
  <2>4. DTypeOK'
    BY <2>1, <2>2, <2>3, <1>a DEF DTypeOK, server, clients, kernel
  <2>5. SignalsInOrder' /\ NoneForgotten' /\ InboxesHoldAnswers'
    BY <2>3, <1>a DEF SignalsInOrder, NoneForgotten, InboxesHoldAnswers, server, kernel
  <2> QED
    BY <1>b, <2>4, <2>5
<1>3. ASSUME NEW d \in Datagram, Arrive(d)
      PROVE  DInv'
  <2>1. net' \in [Datagram -> Nat] /\ UNCHANGED <<lost, missed, faults>>
    BY <1>3 DEF Arrive, DTypeOK, history
  <2>2. CASE d \in Requests
    <3>1. /\ queue' = Append(queue, d)
          /\ pending' = (pending \/ (program = "UDPEchoServer-SIGO" /\ at # "setup"))
          /\ UNCHANGED inbox
      BY <1>3, <2>2 DEF Arrive
    <3>2. queue' \in Seq(Requests) /\ pending' \in BOOLEAN
      BY <2>2, <3>1 DEF DTypeOK
    <3>3. DTypeOK'
      BY <2>1, <3>1, <3>2, <1>a DEF DTypeOK, server, clients
    <3>4. SignalsInOrder' /\ NoneForgotten'
      BY <3>1, <1>a DEF SignalsInOrder, NoneForgotten, server
    <3>5. InboxesHoldAnswers'
      BY <3>1 DEF InboxesHoldAnswers
    <3> QED
      BY <1>b, <3>3, <3>4, <3>5
  <2>3. CASE d \notin Requests
    <3>1. inbox' = [inbox EXCEPT ![d.to] = Append(@, d)] /\ UNCHANGED <<queue, pending>>
      BY <1>3, <2>3 DEF Arrive
    <3>2. d.to \in Client /\ d \in Answers(d.to)
      BY <2>3, OthersAreAnswers
    <3>3. inbox' \in [Client -> Seq(Datagram)]
      BY <3>1, <3>2 DEF DTypeOK
    <3>4. DTypeOK'
      BY <2>1, <3>1, <3>3, <1>a DEF DTypeOK, server, clients
    <3>5. SignalsInOrder' /\ NoneForgotten'
      BY <3>1, <1>a DEF SignalsInOrder, NoneForgotten, server
    <3>6. ASSUME NEW p \in Client
          PROVE  inbox'[p] \in Seq(Answers(p))
      <4>1. inbox[p] \in Seq(Answers(p))
        BY DEF InboxesHoldAnswers
      <4>2. CASE p = d.to
        <5>1. inbox'[p] = Append(inbox[p], d)
          BY <3>1, <4>2 DEF DTypeOK
        <5>2. d \in Answers(p)
          BY <3>2, <4>2
        <5> QED
          BY <4>1, <5>1, <5>2
      <4>3. CASE p # d.to
        BY <3>1, <4>1, <4>3 DEF DTypeOK
      <4> QED
        BY <4>2, <4>3
    <3> QED
      BY <1>b, <3>4, <3>5, <3>6 DEF InboxesHoldAnswers
  <2> QED
    BY <2>2, <2>3
<1> QED
  BY <1>1, <1>2, <1>3

LEMMA NextKeepsD == DInv /\ [Next]_dvars => DInv'
<1> SUFFICES ASSUME DInv, [Next]_dvars PROVE DInv'
  OBVIOUS
<1>1. CASE ServerStep
  BY <1>1, ServerKeepsD
<1>2. CASE \E p \in Client : Send(p) \/ ClientStep(p)
  BY <1>2, ClientKeepsD
<1>3. CASE \/ \E p \in Client : StrangerSends(p)
           \/ \E d \in Datagram : Arrive(d) \/ Drop(d) \/ Lose(d) \/ Duplicate(d)
  BY <1>3, NetworkKeepsD
<1>4. CASE UNCHANGED dvars
  BY <1>4 DEF DInv, DTypeOK, SignalsInOrder, NoneForgotten, InboxesHoldAnswers, PrintsItsEcho,
              dvars, server, clients, kernel, history
<1> QED
  BY <1>1, <1>2, <1>3, <1>4 DEF Next

LEMMA AlwaysD == Spec => []DInv
<1> QED
  BY InitD, NextKeepsD, PTL DEF Spec

-----------------------------------------------------------------------------
(* How often a datagram is in a queue. *)

LEMMA OccurrencesAreFinite ==
  ASSUME NEW S, NEW s \in Seq(S), NEW d
  PROVE  /\ IsFiniteSet({k \in DOMAIN s : s[k] = d})
         /\ Occurrences(d, s) \in Nat
<1>1. DOMAIN s = 1 .. Len(s) /\ Len(s) \in Nat
  OBVIOUS
<1>2. IsFiniteSet(1 .. Len(s))
  BY <1>1, FS_Interval
<1>3. IsFiniteSet({k \in DOMAIN s : s[k] = d})
  BY <1>1, <1>2, FS_Subset
<1> QED
  BY <1>3, FS_CardinalityType DEF Occurrences

\* One that joins the queue.
LEMMA OccurrencesAppend ==
  ASSUME NEW S, NEW s \in Seq(S), NEW e \in S, NEW d
  PROVE  Occurrences(d, Append(s, e)) = Occurrences(d, s) + (IF e = d THEN 1 ELSE 0)
<1> DEFINE K == {k \in DOMAIN s : s[k] = d}
           A == {k \in DOMAIN Append(s, e) : Append(s, e)[k] = d}
           n == Len(s) + 1
<1>1. IsFiniteSet(K) /\ Cardinality(K) \in Nat
  BY OccurrencesAreFinite DEF Occurrences
<1>2. n \notin K /\ A = IF e = d THEN K \union {n} ELSE K
  OBVIOUS
<1>3. Occurrences(d, s) = Cardinality(K) /\ Occurrences(d, Append(s, e)) = Cardinality(A)
  BY DEF Occurrences
<1> HIDE DEF K, A, n
<1>4. Cardinality(K \union {n}) = Cardinality(K) + 1
  BY <1>1, <1>2, FS_AddElement
<1> QED
  BY <1>1, <1>2, <1>3, <1>4

\* The first one leaves it.
LEMMA OccurrencesTail ==
  ASSUME NEW S, NEW s \in Seq(S), s # <<>>, NEW d
  PROVE  Occurrences(d, s) = Occurrences(d, Tail(s)) + (IF Head(s) = d THEN 1 ELSE 0)
<1> DEFINE K == {k \in DOMAIN s : s[k] = d}
           T == {k \in DOMAIN Tail(s) : Tail(s)[k] = d}
           f == [k \in T |-> k + 1]
<1>1. IsFiniteSet(K) /\ Cardinality(K) \in Nat
  BY OccurrencesAreFinite DEF Occurrences
<1>2. Tail(s) \in Seq(S)
  OBVIOUS
<1>3. IsFiniteSet(T) /\ Cardinality(T) \in Nat
  BY <1>2, OccurrencesAreFinite DEF Occurrences
<1>4. /\ Len(s) \in Nat \ {0} /\ DOMAIN s = 1 .. Len(s) /\ DOMAIN Tail(s) = 1 .. (Len(s) - 1)
      /\ \A k \in 1 .. (Len(s) - 1) : Tail(s)[k] = s[k + 1]
  OBVIOUS
<1>5. \A k \in T : k \in Int /\ k + 1 \in K \ {1}
  BY <1>4
<1>6. \A k \in K \ {1} : k - 1 \in T /\ (k - 1) + 1 = k
  BY <1>4
<1>7. 1 \in K <=> Head(s) = d
  BY <1>4
<1>8. Occurrences(d, s) = Cardinality(K) /\ Occurrences(d, Tail(s)) = Cardinality(T)
  BY DEF Occurrences
<1> HIDE DEF K, T
<1>9. f \in Bijection(T, K \ {1})
  <2>1. f \in [T -> K \ {1}]
    BY <1>5
  <2>2. \A a, b \in T : f[a] = f[b] => a = b
    BY <1>5
  <2>3. \A b \in K \ {1} : \E a \in T : f[a] = b
    BY <1>6
  <2> QED
    BY <2>1, <2>2, <2>3 DEF Bijection, Injection, Surjection, IsInjective
<1>10. Cardinality(K \ {1}) = Cardinality(T)
  BY <1>3, <1>9, FS_Bijection DEF ExistsBijection
<1>11. Cardinality(K \ {1}) = IF 1 \in K THEN Cardinality(K) - 1 ELSE Cardinality(K)
  BY <1>1, FS_RemoveElement
<1> QED
  BY <1>1, <1>3, <1>7, <1>8, <1>10, <1>11

-----------------------------------------------------------------------------
(* One answer for one request. *)

\* The copies of p's word that its client has sent: the first, and one for each alarm
\* that it has answered.
Sendings(p) ==
  IF status[p] = "start" THEN 0 ELSE IF status[p] = "interrupted" THEN tries[p] ELSE 1 + tries[p]

\* NoEchoFromNothing by itself is not inductive: before the first sendto(), and between
\* an alarm and the retry, there is one copy less than the alarms allow.
EchoBound == \A p \in Client : Copies(p) <= Sendings(p) + faults

\* The part of Copies that the server holds between recvfrom() and sendto().
InHand(p) == IF at = "send" /\ held = Request(p) THEN 1 ELSE 0

\* Different clients' datagrams differ, and the two directions.
LEMMA WordsDiffer ==
  ASSUME NEW p \in Client, NEW r \in Client
  PROVE  /\ Request(p) = Request(r) => p = r
         /\ Reply(Request(p)) = Reply(Request(r)) => p = r
         /\ Reply(Request(p)) # Request(r) /\ Reply(Request(p)) \notin Requests
         /\ Stray(p) # Request(r) /\ Stray(p) # Reply(Request(r))
         /\ Request(p).to = "server" /\ Reply(Request(p)).to = p
<1>1. "server" \notin Client /\ "stranger" \notin Client
  BY DatagramAssumption DEF Client
<1>2. \A x \in Client : /\ Request(x).from = x /\ Request(x).to = "server"
                        /\ Reply(Request(x)).from = "server" /\ Reply(Request(x)).to = x
                        /\ Stray(x).from = "stranger"
  BY DEF Request, Reply, Stray
<1>3. \A x \in Client : Reply(Request(p)) # Request(x)
  BY <1>1, <1>2
<1> QED
  BY <1>1, <1>2, <1>3 DEF Requests

\* The places of a client's word.
LEMMA CopiesInPlaces ==
  ASSUME DTypeOK, NEW p \in Client
  PROVE  /\ Copies(p) = net[Request(p)] + Occurrences(Request(p), queue) + InHand(p)
                          + net[Reply(Request(p))] + Occurrences(Reply(Request(p)), inbox[p])
         /\ net[Request(p)] \in Nat /\ net[Reply(Request(p))] \in Nat
         /\ Occurrences(Request(p), queue) \in Nat
         /\ Occurrences(Reply(Request(p)), inbox[p]) \in Nat
         /\ InHand(p) \in {0, 1} /\ tries[p] \in Nat /\ faults \in Nat
<1>1. inbox[p] \in Seq(Datagram) /\ queue \in Seq(Requests) /\ tries[p] \in Nat
  BY DEF DTypeOK
<1>2. net[Request(p)] \in Nat /\ net[Reply(Request(p))] \in Nat
  BY ClientDatagrams DEF DTypeOK
<1>3. faults \in Nat
  BY DatagramAssumption DEF DTypeOK
<1> QED
  BY <1>1, <1>2, <1>3, OccurrencesAreFinite DEF Copies, InHand

\* A step that leaves p's word where it is.
LEMMA WordRests ==
  ASSUME NEW p \in Client, UNCHANGED <<net[Request(p)], net[Reply(Request(p))], queue, inbox[p], InHand(p)>>
  PROVE  Copies(p)' = Copies(p)
BY DEF Copies, InHand

\* The server passes a word on, and makes none.
LEMMA ServerPasses ==
  ASSUME DInv, ServerStep, DTypeOK', NEW p \in Client
  PROVE  Copies(p)' = Copies(p)
<1> USE DEF DInv
<1> DEFINE Q == Request(p)
           A == Reply(Request(p))
<1>1. CASE SwitchOnSignals \/ EnterHandler \/ WouldBlock
  <2>1. UNCHANGED <<net, queue, inbox>> /\ at # "send" /\ at' # "send"
    BY <1>1 DEF SwitchOnSignals, EnterHandler, WouldBlock, kernel
  <2>2. UNCHANGED InHand(p)
    BY <2>1 DEF InHand
  <2> QED
    BY <2>1, <2>2, WordRests
<1>2. CASE RecvFrom
  <2>1. /\ queue # <<>> /\ at = "receive" /\ at' = "send"
        /\ held' = Head(queue) /\ queue' = Tail(queue) /\ UNCHANGED <<net, inbox>>
    BY <1>2 DEF RecvFrom
  <2>2. queue \in Seq(Requests)
    BY DEF DTypeOK
  <2>3. Occurrences(Q, queue) = Occurrences(Q, Tail(queue)) + (IF Head(queue) = Q THEN 1 ELSE 0)
    BY <2>1, <2>2, OccurrencesTail
  <2>4. InHand(p) = 0 /\ InHand(p)' = IF Head(queue) = Q THEN 1 ELSE 0
    BY <2>1 DEF InHand
  <2>5. Occurrences(Q, queue)' = Occurrences(Q, Tail(queue)) /\ Occurrences(Q, queue)' \in Nat
    <3>1. Tail(queue) \in Seq(Requests)
      BY <2>1, <2>2
    <3>2. Occurrences(Q, Tail(queue)) \in Nat
      BY <3>1, OccurrencesAreFinite
    <3> QED
      BY <2>1, <3>2 DEF Occurrences
  <2>6. UNCHANGED <<net[Q], net[A], Occurrences(A, inbox[p])>>
    BY <2>1 DEF Occurrences
  <2>7. Copies(p) = net[Q] + Occurrences(Q, queue) + InHand(p) + net[A] + Occurrences(A, inbox[p])
    BY CopiesInPlaces
  <2>8. Copies(p)' = net[Q]' + Occurrences(Q, queue)' + InHand(p)' + net[A]' + Occurrences(A, inbox[p])'
    BY DEF Copies, InHand
  <2> QED
    BY <2>3, <2>4, <2>5, <2>6, <2>7, <2>8, CopiesInPlaces
<1>3. CASE SendTo
  <2>1. /\ at = "send" /\ at' = "receive" /\ net' = [net EXCEPT ![Reply(held)] = @ + 1]
        /\ UNCHANGED <<queue, inbox>>
    BY <1>3 DEF SendTo, kernel
  <2>2. PICK r \in Client : held = Request(r)
    BY <2>1 DEF SignalsInOrder, Requests
  <2>3. net \in [Datagram -> Nat] /\ Q \in Datagram /\ A \in Datagram /\ Reply(held) \in Datagram
    BY <2>2, ClientDatagrams DEF DTypeOK
  <2>4. Reply(held) # Q /\ (Reply(held) = A <=> held = Q)
    BY <2>2, WordsDiffer
  <2>5. /\ net'[Q] = net[Q] /\ InHand(p)' = 0
        /\ net'[A] = net[A] + InHand(p)
    BY <2>1, <2>3, <2>4 DEF InHand
  <2>6. UNCHANGED <<Occurrences(Q, queue), Occurrences(A, inbox[p])>>
    BY <2>1 DEF Occurrences
  <2>7. Copies(p) = net[Q] + Occurrences(Q, queue) + InHand(p) + net[A] + Occurrences(A, inbox[p])
    BY CopiesInPlaces
  <2>8. Copies(p)' = net[Q]' + Occurrences(Q, queue)' + InHand(p)' + net[A]' + Occurrences(A, inbox[p])'
    BY DEF Copies, InHand
  <2> QED
    BY <2>5, <2>6, <2>7, <2>8, CopiesInPlaces
<1> QED
  BY <1>1, <1>2, <1>3 DEF ServerStep

\* A datagram that arrives goes from under way into a queue.
LEMMA ArrivalKeepsWord ==
  ASSUME DInv, NEW p \in Client, NEW d \in Datagram, Arrive(d)
  PROVE  Copies(p)' = Copies(p)
<1> USE DEF DInv
<1> DEFINE Q == Request(p)
           A == Reply(Request(p))
<1>1. net' = [net EXCEPT ![d] = net[d] - 1] /\ UNCHANGED <<at, held>> /\ net[d] > 0
  BY DEF Arrive, server
<1>2. net \in [Datagram -> Nat] /\ Q \in Datagram /\ A \in Datagram /\ queue \in Seq(Requests)
      /\ inbox \in [Client -> Seq(Datagram)]
  BY ClientDatagrams DEF DTypeOK
<1>3. Q \in Requests /\ A \notin Requests /\ A.to = p
  BY ClientDatagrams, WordsDiffer
<1>4. /\ net'[Q] = net[Q] - (IF d = Q THEN 1 ELSE 0)
      /\ net'[A] = net[A] - (IF d = A THEN 1 ELSE 0)
  BY <1>1, <1>2
<1>5. InHand(p)' = InHand(p)
  BY <1>1 DEF InHand
<1>6. Copies(p) = net[Q] + Occurrences(Q, queue) + InHand(p) + net[A] + Occurrences(A, inbox[p])
  BY CopiesInPlaces
<1>7. Copies(p)' = net[Q]' + Occurrences(Q, queue)' + InHand(p)' + net[A]' + Occurrences(A, inbox[p])'
  BY DEF Copies, InHand
<1>8. CASE d \in Requests
  <2>1. queue' = Append(queue, d) /\ UNCHANGED inbox
    BY <1>8 DEF Arrive
  <2>2. Occurrences(Q, Append(queue, d)) = Occurrences(Q, queue) + (IF d = Q THEN 1 ELSE 0)
    BY <1>2, <1>8, OccurrencesAppend
  <2>3. /\ Occurrences(Q, queue)' = Occurrences(Q, Append(queue, d))
        /\ UNCHANGED Occurrences(A, inbox[p])
    BY <2>1 DEF Occurrences
  <2>4. d # A
    BY <1>3, <1>8
  <2> QED
    BY <1>4, <1>5, <1>6, <1>7, <2>2, <2>3, <2>4, CopiesInPlaces
<1>9. CASE d \notin Requests
  <2>1. inbox' = [inbox EXCEPT ![d.to] = Append(inbox[d.to], d)] /\ UNCHANGED queue
    BY <1>9 DEF Arrive
  <2>2. d.to \in Client
    BY <1>9, OthersAreAnswers
  <2>3. UNCHANGED Occurrences(Q, queue)
    BY <2>1 DEF Occurrences
  <2>4. Occurrences(A, inbox[p])' = Occurrences(A, inbox[p]) + (IF d = A THEN 1 ELSE 0)
    <3>1. CASE d.to = p
      <4>1. inbox[p] \in Seq(Datagram) /\ inbox'[p] = Append(inbox[p], d)
        BY <1>2, <2>1, <3>1
      <4>2. Occurrences(A, Append(inbox[p], d)) = Occurrences(A, inbox[p]) + (IF d = A THEN 1 ELSE 0)
        BY <4>1, OccurrencesAppend
      <4>3. Occurrences(A, inbox[p])' = Occurrences(A, Append(inbox[p], d))
        BY <4>1 DEF Occurrences
      <4> QED
        BY <4>2, <4>3
    <3>2. CASE d.to # p
      <4>1. inbox'[p] = inbox[p]
        BY <1>2, <2>1, <2>2, <3>2
      <4>2. d # A
        BY <1>3, <3>2
      <4>3. UNCHANGED Occurrences(A, inbox[p])
        BY <4>1 DEF Occurrences
      <4>4. Occurrences(A, inbox[p]) \in Nat
        BY CopiesInPlaces
      <4> QED
        BY <4>2, <4>3, <4>4
    <3> QED
      BY <3>1, <3>2
  <2>5. d # Q
    BY <1>3, <1>9
  <2> QED
    BY <1>4, <1>5, <1>6, <1>7, <2>3, <2>4, <2>5, CopiesInPlaces
<1> QED
  BY <1>8, <1>9

\* There are n copies more of d under way.
MoreUnderWay(d, n) == net' = [net EXCEPT ![d] = @ + n]

LEMMA WordUnderWay ==
  ASSUME DTypeOK, NEW p \in Client, NEW d \in Datagram, NEW n \in Int,
         MoreUnderWay(d, n), UNCHANGED <<queue, inbox[p], at, held>>
  PROVE  Copies(p)' = Copies(p) + (IF d \in {Request(p), Reply(Request(p))} THEN n ELSE 0)
<1> DEFINE Q == Request(p)
           A == Reply(Request(p))
<1>1. net \in [Datagram -> Nat] /\ Q \in Datagram /\ A \in Datagram
  BY ClientDatagrams DEF DTypeOK
<1>2. Q # A
  BY WordsDiffer
<1>3. /\ net'[Q] = net[Q] + (IF d = Q THEN n ELSE 0)
      /\ net'[A] = net[A] + (IF d = A THEN n ELSE 0)
  BY <1>1 DEF MoreUnderWay
<1>4. UNCHANGED <<Occurrences(Q, queue), InHand(p), Occurrences(A, inbox[p])>>
  BY DEF Occurrences, InHand
<1>5. Copies(p) = net[Q] + Occurrences(Q, queue) + InHand(p) + net[A] + Occurrences(A, inbox[p])
  BY CopiesInPlaces
<1>6. Copies(p)' = net[Q]' + Occurrences(Q, queue)' + InHand(p)' + net[A]' + Occurrences(A, inbox[p])'
  BY DEF Copies, InHand
<1>7. CASE d = Q
  BY <1>2, <1>3, <1>4, <1>5, <1>6, <1>7, CopiesInPlaces
<1>8. CASE d = A
  BY <1>2, <1>3, <1>4, <1>5, <1>6, <1>8, CopiesInPlaces
<1>9. CASE d # Q /\ d # A
  BY <1>3, <1>4, <1>5, <1>6, <1>9, CopiesInPlaces
<1> QED
  BY <1>7, <1>8, <1>9

\* A client's step makes a copy only where its sendings allow one more.
LEMMA ClientSends ==
  ASSUME DInv, NEW r \in Client, Send(r) \/ ClientStep(r), NEW p \in Client,
         Copies(p) <= Sendings(p) + faults
  PROVE  Copies(p)' <= Sendings(p)' + faults'
<1> USE DEF DInv
<1>1. /\ UNCHANGED <<queue, at, held, faults>> /\ Copies(p) \in Int /\ tries[p] \in Nat /\ faults \in Nat
      /\ Request(r) \in Datagram /\ net[Request(r)] \in Nat
      /\ Request(r) # Reply(Request(p)) /\ (Request(r) = Request(p) => r = p)
  <2>1. UNCHANGED <<queue, at, held, faults>>
    BY DEF Send, ClientStep, Wait, AlarmRings, Retry, Receive, server, kernel
  <2> QED
    BY <2>1, CopiesInPlaces, ClientDatagrams, WordsDiffer
<1>2. r # p => Sendings(p)' = Sendings(p)
  BY DEF Send, ClientStep, Wait, AlarmRings, Retry, Receive, Sendings, DTypeOK
<1>3. CASE Send(r)
  <2>1. /\ MoreUnderWay(Request(r), 1) /\ UNCHANGED <<inbox, tries>>
        /\ status[r] = "start" /\ status' = [status EXCEPT ![r] = "sent"]
    BY <1>3 DEF Send, kernel, MoreUnderWay
  <2>3. Copies(p)' = Copies(p) + (IF Request(r) \in {Request(p), Reply(Request(p))}
                                    THEN 1 ELSE 0)
    BY <1>1, <2>1, WordUnderWay
  <2>4. r # p => Copies(p)' = Copies(p)
    BY <1>1, <2>3
  <2>5. r = p => Copies(p)' = Copies(p) + 1
    BY <1>1, <2>3
  <2>6. r = p => Sendings(p) = 0 /\ Sendings(p)' = 1 + tries[p]
    BY <2>1 DEF Sendings, DTypeOK
  <2> QED
    BY <1>1, <1>2, <2>4, <2>5, <2>6
<1>4. CASE Wait(r) \/ AlarmRings(r)
  <2>1. UNCHANGED <<net, inbox>>
    BY <1>4 DEF Wait, AlarmRings, kernel
  <2>2. Copies(p)' = Copies(p)
    BY <1>1, <2>1, WordRests DEF InHand
  <2>3. /\ status \in [Client -> Ends \union {"start", "sent", "receiving", "interrupted"}]
        /\ tries \in [Client -> Nat]
    BY DEF DTypeOK
  <2>4. CASE Wait(r)
    <3>1. status[r] = "sent" /\ status' = [status EXCEPT ![r] = "receiving"] /\ UNCHANGED tries
      BY <2>4 DEF Wait
    <3>2. Sendings(p)' = Sendings(p)
      BY <1>2, <2>3, <3>1 DEF Sendings
    <3> QED
      BY <1>1, <2>2, <3>2
  <2>5. CASE AlarmRings(r)
    <3>1. /\ tries' = [tries EXCEPT ![r] = tries[r] + 1]
          /\ status' = status \/ (status[r] = "receiving" /\ status' = [status EXCEPT ![r] = "interrupted"])
      BY <2>5 DEF AlarmRings, CatchAlarm
    <3>2. r = p => /\ tries'[p] = tries[p] + 1
                   /\ \/ status'[p] = status[p]
                      \/ status[p] = "receiving" /\ status'[p] = "interrupted"
      BY <2>3, <3>1
    <3>3. r = p => Sendings(p)' >= Sendings(p)
      BY <1>1, <3>2 DEF Sendings
    <3>4. Sendings(p) \in Nat /\ Sendings(p)' \in Nat
      <4>1. tries[p] \in Nat /\ tries'[p] \in Nat
        BY <2>3, <3>1
      <4> QED
        BY <4>1 DEF Sendings
    <3> QED
      BY <1>1, <1>2, <2>2, <3>3, <3>4
  <2> QED
    BY <1>4, <2>4, <2>5
<1>5. CASE Retry(r)
  <2>1. status[r] = "interrupted" /\ UNCHANGED <<inbox, tries>>
    BY <1>5 DEF Retry, kernel
  <2>2. CASE tries[r] < MAXTRIES
    <3>1. /\ MoreUnderWay(Request(r), 1)
          /\ status' = [status EXCEPT ![r] = "receiving"]
      BY <1>5, <2>2 DEF Retry, MoreUnderWay
    <3>3. Copies(p)' = Copies(p) + (IF Request(r) \in {Request(p), Reply(Request(p))}
                                      THEN 1 ELSE 0)
      BY <1>1, <2>1, <3>1, WordUnderWay
    <3>4. r # p => Copies(p)' = Copies(p)
      BY <1>1, <3>3
    <3>5. r = p => Copies(p)' = Copies(p) + 1
      BY <1>1, <3>3
    <3>6. r = p => Sendings(p) = tries[p] /\ Sendings(p)' = 1 + tries[p]
      BY <2>1, <3>1 DEF Sendings, DTypeOK
    <3> QED
      BY <1>1, <1>2, <3>4, <3>5, <3>6
  <2>3. CASE ~(tries[r] < MAXTRIES)
    <3>1. status' = [status EXCEPT ![r] = "gave up"] /\ UNCHANGED net
      BY <1>5, <2>3 DEF Retry
    <3>2. Copies(p)' = Copies(p)
      BY <1>1, <2>1, <3>1, WordRests DEF InHand
    <3>3. r = p => Sendings(p) = tries[p] /\ Sendings(p)' = 1 + tries[p]
      BY <2>1, <3>1 DEF Sendings, DTypeOK
    <3> QED
      BY <1>1, <1>2, <3>2, <3>3
  <2> QED
    BY <2>2, <2>3
<1>6. CASE Receive(r)
  <2>1. /\ status[r] = "receiving" /\ inbox[r] # <<>> /\ inbox' = [inbox EXCEPT ![r] = Tail(inbox[r])]
        /\ status' \in {[status EXCEPT ![r] = "printed"], [status EXCEPT ![r] = "died"]}
        /\ UNCHANGED <<tries, net>>
    BY <1>6 DEF Receive
  <2>2. inbox \in [Client -> Seq(Datagram)]
    BY DEF DTypeOK
  <2>3. r # p => Copies(p)' = Copies(p)
    BY <1>1, <2>1, <2>2, WordRests DEF InHand
  <2>4. ASSUME r = p
        PROVE  Copies(p)' <= Copies(p) /\ Copies(p)' \in Int
    <3> DEFINE Q == Request(p)
               A == Reply(Request(p))
    <3>1. inbox[p] \in Seq(Datagram) /\ inbox[p] # <<>> /\ inbox'[p] = Tail(inbox[p])
      BY <2>1, <2>2, <2>4
    <3>2. Tail(inbox[p]) \in Seq(Datagram)
      BY <3>1
    <3>3. Occurrences(A, inbox[p])' = Occurrences(A, Tail(inbox[p]))
      BY <3>1 DEF Occurrences
    <3>4. Occurrences(A, Tail(inbox[p])) \in Nat
      BY <3>2, OccurrencesAreFinite
    <3>5. Occurrences(A, inbox[p]) = Occurrences(A, Tail(inbox[p])) + (IF Head(inbox[p]) = A THEN 1 ELSE 0)
      BY <3>1, OccurrencesTail
    <3>6. UNCHANGED <<net[Q], net[A], Occurrences(Q, queue), InHand(p)>>
      BY <1>1, <2>1 DEF Occurrences, InHand
    <3>7. Copies(p) = net[Q] + Occurrences(Q, queue) + InHand(p) + net[A] + Occurrences(A, inbox[p])
      BY CopiesInPlaces
    <3>8. Copies(p)' = net[Q]' + Occurrences(Q, queue)' + InHand(p)' + net[A]' + Occurrences(A, inbox[p])'
      BY DEF Copies, InHand
    <3> QED
      BY <3>3, <3>4, <3>5, <3>6, <3>7, <3>8, CopiesInPlaces
  <2>5. r = p => Sendings(p)' = Sendings(p)
    BY <2>1 DEF Sendings, DTypeOK
  <2>6. Sendings(p) \in Nat
    BY <1>1 DEF Sendings
  <2> QED
    BY <1>1, <1>2, <2>3, <2>4, <2>5, <2>6
<1> QED
  BY <1>3, <1>4, <1>5, <1>6 DEF ClientStep

\* The network carries, loses and, at the price of a fault, duplicates.
LEMMA NetworkCarries ==
  ASSUME DInv, NEW p \in Client,
         \/ \E r \in Client : StrangerSends(r)
         \/ \E d \in Datagram : Arrive(d) \/ Drop(d) \/ Lose(d) \/ Duplicate(d),
         Copies(p) <= Sendings(p) + faults
  PROVE  Copies(p)' <= Sendings(p)' + faults'
<1> USE DEF DInv
<1> DEFINE Q == Request(p)
           A == Reply(Request(p))
<1>1. /\ UNCHANGED <<at, held, status, tries>>
      /\ faults' \in {faults, faults + 1}
  BY DEF StrangerSends, Arrive, Drop, Lose, Duplicate, Fault, server, clients
<1>2. Copies(p) \in Int /\ Sendings(p) \in Nat /\ faults \in Nat /\ Sendings(p)' = Sendings(p)
  BY <1>1, CopiesInPlaces DEF Sendings
<1>3. ASSUME NEW r \in Client, StrangerSends(r)
      PROVE  Copies(p)' = Copies(p)
  <2>1. MoreUnderWay(Stray(r), 1) /\ UNCHANGED <<queue, inbox>>
    BY <1>3 DEF StrangerSends, Fault, kernel, MoreUnderWay
  <2>2. Stray(r) \in Datagram /\ Stray(r) \notin {Q, A}
    BY ClientDatagrams, WordsDiffer 
  <2> QED
    BY <1>1, <1>2, <2>1, <2>2, WordUnderWay
<1>4. ASSUME NEW d \in Datagram, Drop(d) \/ Lose(d)
      PROVE  Copies(p)' <= Copies(p) /\ Copies(p)' \in Int
  <2>1. MoreUnderWay(d, -1) /\ UNCHANGED <<queue, inbox>>
    BY <1>4 DEF Drop, Lose, Fault, kernel, MoreUnderWay
  <2>3. Copies(p)' = Copies(p) + (IF d \in {Q, A} THEN -1 ELSE 0)
    BY <1>1, <2>1, WordUnderWay
  <2> QED
    BY <1>2, <2>3
<1>5. ASSUME NEW d \in Datagram, Duplicate(d)
      PROVE  Copies(p)' <= Copies(p) + 1 /\ Copies(p)' \in Int /\ faults' = faults + 1
  <2>1. MoreUnderWay(d, 1) /\ UNCHANGED <<queue, inbox>> /\ faults' = faults + 1
    BY <1>5 DEF Duplicate, Fault, kernel, MoreUnderWay
  <2>3. Copies(p)' = Copies(p) + (IF d \in {Q, A} THEN 1 ELSE 0)
    BY <1>1, <2>1, WordUnderWay
  <2> QED
    BY <1>2, <2>1, <2>3
<1>6. ASSUME NEW d \in Datagram, Arrive(d)
      PROVE  Copies(p)' = Copies(p)
  BY <1>6, <1>1, ArrivalKeepsWord
<1> QED
  BY <1>1, <1>2, <1>3, <1>4, <1>5, <1>6

LEMMA InitEcho == Init => EchoBound
<1> SUFFICES ASSUME Init, NEW p \in Client
             PROVE  Copies(p) <= Sendings(p) + faults
  BY DEF EchoBound
<1>1. /\ net[Request(p)] = 0 /\ net[Reply(Request(p))] = 0 /\ queue = <<>> /\ inbox[p] = <<>>
      /\ at # "send" /\ status[p] = "start" /\ faults = 0
  BY ClientDatagrams DEF Init
<1>2. \A d : {k \in DOMAIN <<>> : <<>>[k] = d} = {}
  OBVIOUS
<1>3. \A d : Occurrences(d, <<>>) = 0
  BY <1>2, FS_EmptySet DEF Occurrences
<1>4. Copies(p) = 0 /\ Sendings(p) = 0
  BY <1>1, <1>3 DEF Copies, Sendings
<1> QED
  BY <1>1, <1>4

LEMMA NextKeepsEcho == DInv /\ EchoBound /\ [Next]_dvars => EchoBound'
<1> SUFFICES ASSUME DInv, EchoBound, [Next]_dvars, NEW p \in Client
             PROVE  Copies(p)' <= Sendings(p)' + faults'
  BY DEF EchoBound
<1>1. Copies(p) <= Sendings(p) + faults
  BY DEF EchoBound
<1>2. CASE ServerStep
  <2>1. Copies(p)' = Copies(p)
    BY <1>2, NextKeepsD, ServerPasses DEF DInv
  <2>2. UNCHANGED <<status, tries, faults>>
    BY <1>2 DEF ServerStep, SwitchOnSignals, EnterHandler, RecvFrom, WouldBlock, SendTo, clients
  <2>3. Sendings(p)' = Sendings(p)
    BY <2>2 DEF Sendings
  <2> QED
    BY <1>1, <2>1, <2>2, <2>3
<1>3. CASE \E r \in Client : Send(r) \/ ClientStep(r)
  BY <1>1, <1>3, ClientSends
<1>4. CASE \/ \E r \in Client : StrangerSends(r)
           \/ \E d \in Datagram : Arrive(d) \/ Drop(d) \/ Lose(d) \/ Duplicate(d)
  BY <1>1, <1>4, NetworkCarries
<1>5. CASE UNCHANGED dvars
  <2>1. UNCHANGED <<at, held, queue, inbox, net, status, tries, faults>>
    BY <1>5 DEF dvars, server, clients, kernel
  <2>2. Copies(p)' = Copies(p) /\ Sendings(p)' = Sendings(p)
    BY <2>1 DEF Copies, Occurrences, Sendings
  <2> QED
    BY <1>1, <2>1, <2>2
<1> QED
  BY <1>2, <1>3, <1>4, <1>5 DEF Next

-----------------------------------------------------------------------------
(* Theorems. *)

\* The variables keep their types: every datagram under way or in a queue is one that
\* these programs, or a stranger, send.
THEOREM TypesHold == Spec => []DTypeOK
<1>1. DInv => DTypeOK
  BY DEF DInv
<1> QED
  BY <1>1, AlwaysD, PTL

\* When UDPEchoServer-SIGO.c idles with no SIGIO on its way, only what had arrived
\* before it switched signals on is left: the handler's do-while makes up for a signal
\* that does not queue.
THEOREM NothingForgotten == Spec => []NoneForgotten
<1>1. DInv => NoneForgotten
  BY DEF DInv
<1> QED
  BY <1>1, AlwaysD, PTL

\* UDPEchoClient.c prints its own word, echoed by the server it asked, or nothing.
THEOREM EchoesArePrinted == Spec => []PrintsItsEcho
<1>1. DInv => PrintsItsEcho
  BY DEF DInv
<1> QED
  BY <1>1, AlwaysD, PTL

\* There are never more copies of a word about, in either direction, than its client
\* has sent and the network has duplicated: the server answers each copy once.
THEOREM NoEchoMade == Spec => []NoEchoFromNothing
<1>1. DInv /\ EchoBound => NoEchoFromNothing
  <2> SUFFICES ASSUME DInv, EchoBound, NEW p \in Client
               PROVE  Copies(p) <= 1 + tries[p] + faults
    BY DEF NoEchoFromNothing
  <2>1. Copies(p) <= Sendings(p) + faults /\ Copies(p) \in Int /\ tries[p] \in Nat /\ faults \in Nat
    BY CopiesInPlaces DEF EchoBound, DInv
  <2> QED
    BY <2>1 DEF Sendings
<1>2. Spec => []EchoBound
  BY InitEcho, NextKeepsEcho, AlwaysD, PTL DEF Spec
<1> QED
  BY <1>1, <1>2, AlwaysD, PTL
=============================================================================
