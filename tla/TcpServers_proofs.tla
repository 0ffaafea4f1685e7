-------------------------- MODULE TcpServers_proofs --------------------------
(***************************************************************************)
(* Theorems about TcpServers: for any clients, pool, words and limits, and *)
(* every one of the programs, no connection is left open without a worker  *)
(* or served twice, the end of one process takes one connection along,     *)
(* TCPEchoServer-Fork counts its children, what a client is answered is    *)
(* its own, a server ends for a reason, and every vote is counted once.    *)
(*                                                                         *)
(* The inductive invariants, each with the ones before it: CInv (who is    *)
(* where and what it holds), CountOK (the children), HInv (whose the       *)
(* connections are), SInv (what the streams and buffers hold), EndsInv;    *)
(* VInv (what each voter has been told or will be, and what was counted)   *)
(* and TypesOK, with HInv and SInv.                                        *)
(***************************************************************************)
EXTENDS TcpServers, Tcp_proofs, FiniteSetTheorems, SequenceTheorems,
        WellFoundedInduction

-----------------------------------------------------------------------------
(* Who is where, and what it holds. *)

\* A signal, or the failure of a call, ends the process.
Stops(w) == CallFails(w) \/ Interrupt(w)

Serving == {"receive", "send", "close"}

\* Between accept() and close() of a connection.
Busy == {"fork", "parent", "create", "child", "start"} \union Serving

Places == {"none", "select", "accept", "wait", "ended", "reaped"} \union Busy

\* Where the code of each architecture takes a worker.
PlacesOf(w) ==
  CASE w \in Client -> {"none"} \union
         (CASE Architecture = "fork" -> {"child", "ended", "reaped"} \union Serving
            [] Architecture = "thread" -> {"start", "ended"} \union Serving
            [] OTHER -> {})
    [] w \in Pool -> IF Architecture = "pool" THEN {"accept", "ended"} \union Serving ELSE {"none"}
    [] OTHER -> {"accept", "ended"} \union
         (CASE Architecture = "fork" -> {"fork", "parent", "wait"}
            [] Architecture = "thread" -> {"create"}
            [] Architecture = "select" -> {"select"} \union Serving
            [] OTHER -> Serving)

\* The types of what the servers' control is made of.
ControlTypes ==
  /\ fds \in [Worker -> SUBSET Client]
  /\ at \in [Worker -> Places]
  /\ sock \in [Worker -> Client \union {"nobody"}]
  /\ backlog \in [1 .. Ports -> Seq(Client)]
  /\ DOMAIN status = Client

\* The ports that select() reports are ports.
ReadyOK == ready \subseteq 1 .. Ports

PlacesOK == \A w \in Worker : at[w] \in PlacesOf(w)

\* p's connection waits for accept().
Queued(p) == \E q \in 1 .. Ports : \E k \in DOMAIN backlog[q] : backlog[q][k] = p

QueuesOK ==
  \A q, r \in 1 .. Ports : \A j \in DOMAIN backlog[q], k \in DOMAIN backlog[r] :
    backlog[q][j] = backlog[r][k] => q = r /\ j = k

\* A connection that is not accepted is nobody's, and is accepted once.
FreshOK ==
  \A p \in Client :
    /\ status[p] = "start" => ~Queued(p)
    /\ status[p] = "start" \/ Queued(p) => at[p] = "none" /\ \A w \in Worker : p \notin fds[w]

\* A busy worker's process holds its connection; a child or thread serves the client it
\* was made for, and was not there before it is made.
WorkersOK ==
  /\ \A w \in Worker : at[w] \in Busy => sock[w] \in fds[Process(w)]
  /\ \A p \in Client : at[p] # "none" => sock[p] = p
  /\ at["main"] \in {"fork", "create"} => at[sock["main"]] = "none"

\* What a process holds, some worker of it handles.
HoldersOK ==
  \A P \in Worker : \A p \in fds[P] :
    (\E w \in Worker : Process(w) = P /\ Handles(w, p)) \/ (P = "main" /\ Stranded(p))

CInv == ControlTypes /\ ReadyOK /\ PlacesOK /\ QueuesOK /\ FreshOK /\ WorkersOK /\ HoldersOK

-----------------------------------------------------------------------------
(* The architectures. *)

LEMMA Architectures ==
  /\ Architecture \in {"once", "fork", "pool", "thread", "select", "iterative"}
  /\ program = "chat/server-mt" => Architecture = "thread"
BY DEF Architecture

LEMMA SameProgram ==
  ASSUME program' = program
  PROVE  /\ Architecture' = Architecture /\ Kind' = Kind
         /\ \A w \in Worker : Process(w)' = Process(w) /\ PlacesOf(w)' = PlacesOf(w)
<1>1. Architecture' = Architecture /\ Kind' = Kind
  BY DEF Architecture, Kind
<1> QED
  BY <1>1 DEF Process, PlacesOf

LEMMA Processes ==
  /\ "main" \in Worker /\ Client \subseteq Worker /\ Pool \subseteq Worker
  /\ \A w \in Worker : Process(w) \in Worker
  /\ Architecture # "thread" => \A w \in Worker : Process(w) = w
  /\ Architecture = "thread" => \A w \in Worker : Process(w) = "main"
BY DEF Process, Worker

\* A worker that is there is there for its architecture, and can end.
LEMMA MayEnd ==
  ASSUME NEW w \in Worker, NEW x \in PlacesOf(w), x # "none"
  PROVE  "ended" \in PlacesOf(w)
BY Architectures DEF PlacesOf

\* No two workers of a process handle the same connection.
LEMMA OneHandler ==
  ASSUME CInv, NEW v \in Worker, NEW w \in Worker, NEW p \in Client,
         Process(v) = Process(w), Handles(v, p), Handles(w, p)
  PROVE  v = w
<1>1. CASE Architecture # "thread"
  BY <1>1, Processes
<1>2. CASE Architecture = "thread"
  <2>1. sock[v] = p /\ sock[w] = p /\ at[v] # "none" /\ at[w] # "none"
    BY DEF Handles
  <2>2. \A u \in {v, w} : u \in Client => u = p
    BY <2>1 DEF CInv, WorkersOK
  <2>3. \A u \in {v, w} : u \in Client \/ u = "main"
    <3>1. \A u \in Pool : at[u] = "none"
      BY <1>2, Processes, ServersAssumption DEF CInv, PlacesOK, PlacesOf
    <3> QED
      BY <2>1, <3>1 DEF Worker
  <2>4. \A u \in {v, w} : u = "main" => at[p] = "none"
    <3>1. at["main"] \in {"accept", "ended", "create"}
      BY <1>2, Processes, ServersAssumption DEF CInv, PlacesOK, PlacesOf
    <3>2. \A u \in {v, w} : u = "main" => at["main"] = "create"
      BY <3>1 DEF Handles
    <3> QED
      BY <2>1, <3>2 DEF CInv, WorkersOK
  <2> QED
    BY <2>1, <2>2, <2>3, <2>4
<1> QED
  BY <1>1, <1>2

-----------------------------------------------------------------------------
(* The queues of the listening sockets. *)

\* The queues that a step leaves as they are, or empties.
LEMMA QueuesShrink ==
  ASSUME ControlTypes, QueuesOK, NEW b, b \in {backlog, [q \in 1 .. Ports |-> <<>>]}, backlog' = b
  PROVE  /\ backlog' \in [1 .. Ports -> Seq(Client)] /\ QueuesOK'
         /\ \A p \in Client : Queued(p)' => Queued(p)
<1>1. CASE b = backlog
  BY <1>1 DEF ControlTypes, QueuesOK, Queued
<1>2. CASE b = [q \in 1 .. Ports |-> <<>>]
  <2>1. backlog' \in [1 .. Ports -> Seq(Client)] /\ \A q \in 1 .. Ports : backlog'[q] = <<>>
    BY <1>2
  <2>2. \A q \in 1 .. Ports : DOMAIN backlog'[q] = {}
    BY <2>1
  <2> QED
    BY <2>1, <2>2 DEF QueuesOK, Queued
<1> QED
  BY <1>1, <1>2

LEMMA TailPlaces ==
  ASSUME NEW S, NEW s \in Seq(S), s # <<>>
  PROVE  /\ Tail(s) \in Seq(S) /\ Head(s) = s[1] /\ Head(s) \in S /\ 1 \in DOMAIN s
         /\ \A k \in DOMAIN Tail(s) : k + 1 \in DOMAIN s /\ k + 1 # 1 /\ Tail(s)[k] = s[k + 1]
         /\ \A j, k \in DOMAIN Tail(s) : j + 1 = k + 1 => j = k
OBVIOUS

LEMMA AppendPlaces ==
  ASSUME NEW S, NEW s \in Seq(S), NEW p \in S
  PROVE  /\ Append(s, p) \in Seq(S)
         /\ \A k \in DOMAIN Append(s, p) :
              \/ k \in DOMAIN s /\ Append(s, p)[k] = s[k]
              \/ k = Len(s) + 1 /\ Append(s, p)[k] = p
OBVIOUS

\* accept() takes a connection out of the queues for good.
LEMMA QueueIsTaken ==
  ASSUME ControlTypes, QueuesOK, NEW q \in 1 .. Ports, backlog[q] # <<>>,
         backlog' = [backlog EXCEPT ![q] = Tail(@)]
  PROVE  /\ backlog' \in [1 .. Ports -> Seq(Client)] /\ QueuesOK'
         /\ Head(backlog[q]) \in Client /\ Queued(Head(backlog[q]))
         /\ \A p \in Client : Queued(p)' => Queued(p) /\ p # Head(backlog[q])
<1> DEFINE s == backlog[q]
           h == Head(s)
<1>1. backlog \in [1 .. Ports -> Seq(Client)] /\ s \in Seq(Client)
  BY DEF ControlTypes
<1>2. /\ Tail(s) \in Seq(Client) /\ h = s[1] /\ h \in Client /\ 1 \in DOMAIN s
      /\ \A k \in DOMAIN Tail(s) : k + 1 \in DOMAIN s /\ k + 1 # 1 /\ Tail(s)[k] = s[k + 1]
      /\ \A j, k \in DOMAIN Tail(s) : j + 1 = k + 1 => j = k
  BY <1>1, TailPlaces
<1>3. /\ backlog'[q] = Tail(s) /\ \A r \in 1 .. Ports : r # q => backlog'[r] = backlog[r]
      /\ backlog' \in [1 .. Ports -> Seq(Client)]
  BY <1>1, <1>2
<1> DEFINE was(r, k) == IF r = q THEN k + 1 ELSE k
<1> HIDE DEF s
<1>4. \A r \in 1 .. Ports : \A k \in DOMAIN backlog'[r] :
        /\ was(r, k) \in DOMAIN backlog[r] /\ backlog'[r][k] = backlog[r][was(r, k)]
        /\ r = q => was(r, k) # 1
  BY <1>2, <1>3 DEF s
<1>5. \A r \in 1 .. Ports : \A j, k \in DOMAIN backlog'[r] : was(r, j) = was(r, k) => j = k
  BY <1>2, <1>3
<1> HIDE DEF was, h
<1>6. QueuesOK'
  <2> SUFFICES ASSUME NEW r \in 1 .. Ports, NEW t \in 1 .. Ports, NEW j \in DOMAIN backlog'[r],
                      NEW k \in DOMAIN backlog'[t], backlog'[r][j] = backlog'[t][k]
               PROVE  r = t /\ j = k
    BY DEF QueuesOK
  <2>1. backlog[r][was(r, j)] = backlog[t][was(t, k)]
    BY <1>4
  <2>2. r = t /\ was(r, j) = was(t, k)
    BY <2>1, <1>4 DEF QueuesOK
  <2> QED
    BY <2>2, <1>5
<1>7. h \in Client /\ Queued(h)
  BY <1>2 DEF Queued, s
<1>8. ASSUME NEW p \in Client, Queued(p)'
      PROVE  Queued(p) /\ p # h
  <2>1. PICK r \in 1 .. Ports : \E k \in DOMAIN backlog'[r] : backlog'[r][k] = p
    BY <1>8 DEF Queued
  <2>2. PICK k \in DOMAIN backlog'[r] : backlog'[r][k] = p
    BY <2>1
  <2>3. was(r, k) \in DOMAIN backlog[r] /\ backlog[r][was(r, k)] = p
    BY <2>2, <1>4
  <2>4. p # backlog[q][1]
    BY <2>3, <1>2, <1>4 DEF QueuesOK, s
  <2> QED
    BY <2>3, <2>4, <1>2 DEF Queued, s
<1> QED
  BY <1>3, <1>6, <1>7, <1>8 DEF h, s

-----------------------------------------------------------------------------
(* What the steps do to it. *)

\* One worker goes on to x and holds what it held.
LEMMA WorkerGoesOn ==
  ASSUME CInv, ReadyOK', program' = program, NEW w \in Worker, NEW x \in PlacesOf(w),
         at' = [at EXCEPT ![w] = x], UNCHANGED <<sock, fds, status>>,
         backlog' \in {backlog, [q \in 1 .. Ports |-> <<>>]},
         at[w] # "none", x # "none", at[w] \in Busy <=> x \in Busy, x \notin {"fork", "create"}
  PROVE  CInv'
<1>1. /\ fds \in [Worker -> SUBSET Client] /\ at \in [Worker -> Places]
      /\ sock \in [Worker -> Client \union {"nobody"}] /\ DOMAIN status = Client
  BY DEF CInv, ControlTypes
<1>2. /\ backlog' \in [1 .. Ports -> Seq(Client)] /\ QueuesOK'
      /\ \A p \in Client : Queued(p)' => Queued(p)
  BY QueuesShrink DEF CInv
<1>3. x \in Places
  BY DEF PlacesOf, Places, Busy, Serving
<1>4. at' \in [Worker -> Places] /\ at'[w] = x /\ \A v \in Worker : v # w => at'[v] = at[v]
  BY <1>1, <1>3
<1>5. ControlTypes'
  BY <1>1, <1>2, <1>4 DEF ControlTypes
<1>6. PlacesOK'
  BY <1>4, SameProgram DEF CInv, PlacesOK
<1>7. FreshOK'
  BY <1>2, <1>4, Processes DEF CInv, FreshOK
<1>8. WorkersOK'
  <2>1. \A v \in Worker : at'[v] \in Busy => sock'[v] \in fds'[Process(v)']
    BY <1>4, SameProgram DEF CInv, WorkersOK
  <2>2. \A p \in Client : at'[p] # "none" => sock'[p] = p
    BY <1>4, Processes DEF CInv, WorkersOK
  <2>3. at'["main"] \in {"fork", "create"} => at'[sock'["main"]] = "none"
    <3>1. at'["main"] \in {"fork", "create"} => at["main"] = at'["main"]
      BY <1>4, Processes
    <3>2. at["main"] \in {"fork", "create"} => at[sock["main"]] = "none" /\ sock["main"] # w
      BY DEF CInv, WorkersOK
    <3>3. at["main"] \in {"fork", "create"} => sock["main"] \in Client
      BY <1>1, Processes DEF CInv, WorkersOK, Busy
    <3> QED
      BY <1>4, <3>1, <3>2, <3>3, Processes
  <2> QED
    BY <2>1, <2>2, <2>3 DEF WorkersOK
<1>9. HoldersOK'
  <2>1. \A v \in Worker : \A p \in Client : Handles(v, p)' <=> Handles(v, p)
    BY <1>4 DEF Handles, Busy, Serving
  <2>2. \A p \in Client : Stranded(p) => Stranded(p)'
    BY <1>1, <1>4, <2>1, Processes DEF Stranded
  <2> QED
    BY <1>1, <2>1, <2>2, SameProgram DEF CInv, HoldersOK
<1> QED
  BY <1>2, <1>5, <1>6, <1>7, <1>8, <1>9 DEF CInv

\* A process of the server ends.
LEMMA ProcessEnds ==
  ASSUME CInv, ReadyOK', program' = program, NEW w \in Worker, NEW c, Exit(w, c), UNCHANGED <<sock, status>>
  PROVE  CInv'
<1> DEFINE P == Process(w)
<1>0. P \in Worker
  BY Processes
<1>1. /\ fds \in [Worker -> SUBSET Client] /\ at \in [Worker -> Places]
      /\ sock \in [Worker -> Client \union {"nobody"}] /\ DOMAIN status = Client
  BY DEF CInv, ControlTypes
<1>2. /\ fds' = [fds EXCEPT ![P] = {}] /\ backlog' \in {backlog, [q \in 1 .. Ports |-> <<>>]}
      /\ at' = [v \in Worker |-> IF Process(v) = P /\ at[v] # "none" THEN "ended" ELSE at[v]]
  BY DEF Exit, Descriptors
<1>3. /\ backlog' \in [1 .. Ports -> Seq(Client)] /\ QueuesOK'
      /\ \A p \in Client : Queued(p)' => Queued(p)
  BY <1>2, QueuesShrink DEF CInv
<1> HIDE DEF P
<1>4. /\ fds' \in [Worker -> SUBSET Client] /\ fds'[P] = {}
      /\ \A v \in Worker : v # P => fds'[v] = fds[v]
  BY <1>0, <1>1, <1>2
<1>5. \A v \in Worker : /\ at'[v] = IF Process(v) = P /\ at[v] # "none" THEN "ended" ELSE at[v]
                        /\ at'[v] = "none" <=> at[v] = "none"
  BY <1>2
<1>6. ControlTypes'
  BY <1>1, <1>2, <1>3, <1>4 DEF ControlTypes, Places
<1>7. PlacesOK'
  <2> SUFFICES ASSUME NEW v \in Worker PROVE at'[v] \in PlacesOf(v)
    BY SameProgram DEF PlacesOK
  <2> QED
    BY <1>5, MayEnd DEF CInv, PlacesOK
<1>8. FreshOK'
  BY <1>0, <1>3, <1>4, <1>5, Processes DEF CInv, FreshOK
<1>9. WorkersOK'
  <2>1. \A v \in Worker : at'[v] \in Busy => sock'[v] \in fds'[Process(v)']
    <3> SUFFICES ASSUME NEW v \in Worker, at'[v] \in Busy PROVE sock[v] \in fds'[Process(v)]
      BY SameProgram
    <3>1. at[v] \in Busy /\ Process(v) # P
      BY <1>5 DEF Busy, Serving
    <3> QED
      BY <3>1, <1>4, Processes DEF CInv, WorkersOK
  <2>2. \A p \in Client : at'[p] # "none" => sock'[p] = p
    BY <1>5, Processes DEF CInv, WorkersOK
  <2>3. at'["main"] \in {"fork", "create"} => at'[sock'["main"]] = "none"
    <3>1. at'["main"] \in {"fork", "create"} => at["main"] = at'["main"]
      BY <1>5, Processes
    <3>2. at["main"] \in {"fork", "create"} => at[sock["main"]] = "none" /\ sock["main"] \in Client
      BY <1>1, Processes DEF CInv, WorkersOK, Busy
    <3> QED
      BY <1>5, <3>1, <3>2, Processes
  <2> QED
    BY <2>1, <2>2, <2>3 DEF WorkersOK
<1>10. HoldersOK'
  <2> SUFFICES ASSUME NEW Q \in Worker, NEW p \in fds'[Q]
               PROVE  (\E v \in Worker : Process(v)' = Q /\ Handles(v, p)') \/ (Q = "main" /\ Stranded(p)')
    BY DEF HoldersOK
  <2>1. Q # P /\ p \in fds[Q] /\ p \in Client
    BY <1>1, <1>4
  <2>2. CASE \E v \in Worker : Process(v) = Q /\ Handles(v, p)
    <3>1. PICK v \in Worker : Process(v) = Q /\ Handles(v, p)
      BY <2>2
    <3>2. at'[v] = at[v]
      BY <1>5, <2>1, <3>1
    <3> QED
      BY <3>1, <3>2, SameProgram DEF Handles
  <2>3. CASE Q = "main" /\ Stranded(p)
    <3>1. at'["main"] = at["main"] \/ at'["main"] = "ended"
      BY <1>5, Processes
    <3> QED
      BY <1>4, <1>5, <2>1, <2>3, <3>1, Processes DEF Stranded, Handles
  <2> QED
    BY <2>1, <2>2, <2>3 DEF CInv, HoldersOK
<1> QED
  BY <1>3, <1>6, <1>7, <1>8, <1>9, <1>10 DEF CInv

\* A worker closes its connection and goes on to x.
LEMMA WorkerCloses ==
  ASSUME CInv, ReadyOK', program' = program, NEW w \in Worker, NEW x \in PlacesOf(w),
         fds' = [fds EXCEPT ![Process(w)] = @ \ {sock[w]}], at' = [at EXCEPT ![w] = x],
         UNCHANGED <<sock, status>>, backlog' \in {backlog, [q \in 1 .. Ports |-> <<>>]},
         at[w] \in Busy, x \notin Busy, x # "none"
  PROVE  CInv'
<1> DEFINE P == Process(w)
<1>0. P \in Worker /\ at[w] # "none"
  BY Processes DEF Busy, Serving
<1>1. /\ fds \in [Worker -> SUBSET Client] /\ at \in [Worker -> Places]
      /\ sock \in [Worker -> Client \union {"nobody"}] /\ DOMAIN status = Client
  BY DEF CInv, ControlTypes
<1>2. sock[w] \in Client /\ sock[w] \in fds[P]
  BY <1>0, <1>1 DEF CInv, WorkersOK
<1>3. /\ backlog' \in [1 .. Ports -> Seq(Client)] /\ QueuesOK'
      /\ \A p \in Client : Queued(p)' => Queued(p)
  BY QueuesShrink DEF CInv
<1> HIDE DEF P
<1>4. /\ fds' \in [Worker -> SUBSET Client] /\ fds'[P] = fds[P] \ {sock[w]}
      /\ \A v \in Worker : v # P => fds'[v] = fds[v]
  BY <1>0, <1>1 DEF P
<1>5. x \in Places
  BY DEF PlacesOf, Places, Busy, Serving
<1>6. at' \in [Worker -> Places] /\ at'[w] = x /\ \A v \in Worker : v # w => at'[v] = at[v]
  BY <1>1, <1>5
<1>7. ControlTypes'
  BY <1>1, <1>3, <1>4, <1>6 DEF ControlTypes
<1>8. PlacesOK'
  BY <1>6, SameProgram DEF CInv, PlacesOK
<1>9. FreshOK'
  BY <1>0, <1>3, <1>4, <1>6, Processes DEF CInv, FreshOK
<1>10. \A v \in Worker : \A p \in Client :
         v # w /\ Process(v) = P /\ Handles(v, p) => p # sock[w]
  <2>1. Handles(w, sock[w])
    BY DEF Handles, Busy, Serving
  <2> QED
    BY <1>2, <2>1, OneHandler DEF P
<1>11. WorkersOK'
  <2>1. \A v \in Worker : at'[v] \in Busy => sock'[v] \in fds'[Process(v)']
    <3> SUFFICES ASSUME NEW v \in Worker, at'[v] \in Busy PROVE sock[v] \in fds'[Process(v)]
      BY SameProgram
    <3>1. at[v] \in Busy /\ v # w
      BY <1>6
    <3>2. sock[v] \in fds[Process(v)] /\ Process(v) \in Worker
      BY <3>1, Processes DEF CInv, WorkersOK
    <3>3. Process(v) = P => sock[v] # sock[w]
      <4>1. Handles(v, sock[v]) /\ sock[v] \in Client
        BY <1>1, <3>1, <3>2 DEF Handles, Busy, Serving
      <4> QED
        BY <1>10, <3>1, <4>1
    <3> QED
      BY <1>4, <3>2, <3>3
  <2>2. \A p \in Client : at'[p] # "none" => sock'[p] = p
    BY <1>0, <1>6, Processes DEF CInv, WorkersOK
  <2>3. at'["main"] \in {"fork", "create"} => at'[sock'["main"]] = "none"
    <3>1. at'["main"] \in {"fork", "create"} => at["main"] = at'["main"]
      BY <1>6, Processes DEF Busy
    <3>2. at["main"] \in {"fork", "create"} =>
            at[sock["main"]] = "none" /\ sock["main"] # w /\ sock["main"] \in Client
      BY <1>0, <1>1, Processes DEF CInv, WorkersOK, Busy
    <3> QED
      BY <1>6, <3>1, <3>2, Processes
  <2> QED
    BY <2>1, <2>2, <2>3 DEF WorkersOK
<1>12. HoldersOK'
  <2> SUFFICES ASSUME NEW Q \in Worker, NEW p \in fds'[Q]
               PROVE  (\E v \in Worker : Process(v)' = Q /\ Handles(v, p)') \/ (Q = "main" /\ Stranded(p)')
    BY DEF HoldersOK
  <2>1. p \in fds[Q] /\ p \in Client /\ (Q = P => p # sock[w])
    BY <1>1, <1>4
  <2>2. CASE \E v \in Worker : Process(v) = Q /\ Handles(v, p)
    <3>1. PICK v \in Worker : Process(v) = Q /\ Handles(v, p)
      BY <2>2
    <3>2. v # w
      BY <2>1, <3>1 DEF Handles, P
    <3> QED
      BY <1>6, <3>1, <3>2, SameProgram DEF Handles
  <2>3. CASE Q = "main" /\ Stranded(p)
    <3>1. Handles("main", p)' => Handles("main", p)
      BY <1>6, Processes DEF Handles, Busy, Serving
    <3>2. at'[p] = "none"
      BY <1>0, <1>6, <2>1, <2>3, Processes DEF Stranded
    <3> QED
      BY <2>3, <3>1, <3>2 DEF Stranded
  <2> QED
    BY <2>1, <2>2, <2>3 DEF CInv, HoldersOK
<1> QED
  BY <1>3, <1>7, <1>8, <1>9, <1>11, <1>12 DEF CInv

\* accept(): the worker handles a connection that nobody held.
LEMMA WorkerAccepts ==
  ASSUME CInv, NEW w \in Worker, Accept(w)
  PROVE  CInv'
<1>0. program' = program /\ UNCHANGED status /\ at[w] = "accept"
  BY DEF Accept, chosen, clients
<1> DEFINE x == IF Architecture = "fork" THEN "fork"
                ELSE IF Architecture = "thread" THEN "create" ELSE "receive"
<1>1. /\ fds \in [Worker -> SUBSET Client] /\ at \in [Worker -> Places]
      /\ sock \in [Worker -> Client \union {"nobody"}] /\ DOMAIN status = Client
      /\ backlog \in [1 .. Ports -> Seq(Client)]
  BY DEF CInv, ControlTypes
<1>2. at' = [at EXCEPT ![w] = x]
  BY DEF Accept
<1>3. PICK q \in 1 .. Ports :
        /\ backlog[q] # <<>> /\ backlog' = [backlog EXCEPT ![q] = Tail(@)]
        /\ sock' = [sock EXCEPT ![w] = Head(backlog[q])]
        /\ fds' = [fds EXCEPT ![w] = @ \union {Head(backlog[q])}]
  <2>1. PICK q \in (IF Architecture = "select" THEN ready ELSE Port) :
          /\ backlog[q] # <<>> /\ backlog' = [backlog EXCEPT ![q] = Tail(@)]
          /\ sock' = [sock EXCEPT ![w] = Head(backlog[q])]
          /\ fds' = [fds EXCEPT ![w] = @ \union {Head(backlog[q])}]
    BY DEF Accept
  <2>3. q \in 1 .. Ports
    BY <2>1, ServersAssumption DEF CInv, ReadyOK, Port
  <2> QED
    BY <2>1, <2>3
<1>4. PICK p \in Client :
        /\ p = Head(backlog[q]) /\ backlog' \in [1 .. Ports -> Seq(Client)] /\ QueuesOK' /\ Queued(p)
        /\ \A r \in Client : Queued(r)' => Queued(r) /\ r # p
  BY <1>3, QueueIsTaken DEF CInv
<1>5. at[p] = "none" /\ status[p] # "start" /\ \A v \in Worker : p \notin fds[v]
  BY <1>4 DEF CInv, FreshOK
<1>6. x \in Places /\ x \in Busy /\ x # "none"
  BY DEF Places, Busy, Serving
<1> HIDE DEF x
<1>7. at' \in [Worker -> Places] /\ at'[w] = x /\ \A v \in Worker : v # w => at'[v] = at[v]
  BY <1>1, <1>2, <1>6
<1>8. /\ fds' \in [Worker -> SUBSET Client] /\ fds'[w] = fds[w] \union {p}
      /\ \A v \in Worker : v # w => fds'[v] = fds[v]
  BY <1>1, <1>3, <1>4
<1>9. /\ sock' \in [Worker -> Client \union {"nobody"}] /\ sock'[w] = p
      /\ \A v \in Worker : v # w => sock'[v] = sock[v]
  BY <1>1, <1>3, <1>4
<1>10. ControlTypes' /\ ReadyOK'
  <2>1. ready' \subseteq ready
    BY DEF Accept
  <2> QED
    BY <1>0, <1>1, <1>4, <1>7, <1>8, <1>9, <2>1 DEF CInv, ControlTypes, ReadyOK
<1>11. x \in PlacesOf(w) /\ Process(w) = w /\ w \notin Client /\ (x \in {"fork", "create"} => w = "main")
  <2>1. at[w] \in PlacesOf(w)
    BY DEF CInv, PlacesOK
  <2>2. w \notin Client /\ (w \in Pool => Architecture = "pool")
    BY <1>0, <2>1, ServersAssumption DEF PlacesOf, Serving
  <2>3. w \in Pool \/ w = "main"
    BY <2>2 DEF Worker
  <2>4. Process(w) = w
    BY <2>2, <2>3, Processes
  <2>5. x \in PlacesOf(w)
    BY <2>2, <2>3, Architectures, ServersAssumption DEF PlacesOf, Serving, x
  <2> QED
    BY <2>2, <2>3, <2>4, <2>5 DEF x
<1>12. PlacesOK'
  BY <1>0, <1>7, <1>11, SameProgram DEF CInv, PlacesOK
<1>13. FreshOK'
  BY <1>0, <1>1, <1>4, <1>5, <1>7, <1>8, <1>11, Processes DEF CInv, FreshOK
<1>14. WorkersOK'
  <2>1. \A v \in Worker : at'[v] \in Busy => sock'[v] \in fds'[Process(v)']
    <3> SUFFICES ASSUME NEW v \in Worker, at'[v] \in Busy PROVE sock'[v] \in fds'[Process(v)]
      BY <1>0, SameProgram
    <3>1. CASE v = w
      BY <1>8, <1>9, <1>11, <3>1
    <3>2. CASE v # w
      <4>1. sock[v] \in fds[Process(v)] /\ Process(v) \in Worker
        BY <1>7, <3>2, Processes DEF CInv, WorkersOK
      <4> QED
        BY <1>8, <1>9, <3>2, <4>1
    <3> QED
      BY <3>1, <3>2
  <2>2. \A r \in Client : at'[r] # "none" => sock'[r] = r
    BY <1>7, <1>9, <1>11, Processes DEF CInv, WorkersOK
  <2>3. at'["main"] \in {"fork", "create"} => at'[sock'["main"]] = "none"
    <3>1. CASE w = "main"
      BY <1>4, <1>5, <1>7, <1>9, <1>11, <3>1, Processes
    <3>2. CASE w # "main"
      <4>1. at["main"] \in {"fork", "create"} =>
              at[sock["main"]] = "none" /\ sock["main"] \in Client
        BY <1>1, Processes DEF CInv, WorkersOK, Busy
      <4> QED
        BY <1>7, <1>9, <1>11, <3>2, <4>1, Processes
    <3> QED
      BY <3>1, <3>2
  <2> QED
    BY <2>1, <2>2, <2>3 DEF WorkersOK
<1>15. HoldersOK'
  <2> SUFFICES ASSUME NEW Q \in Worker, NEW r \in fds'[Q]
               PROVE  (\E v \in Worker : Process(v)' = Q /\ Handles(v, r)') \/ (Q = "main" /\ Stranded(r)')
    BY DEF HoldersOK
  <2>1. CASE r = p
    <3>1. Q = w
      BY <1>5, <1>8, <2>1
    <3>2. Handles(w, p)'
      BY <1>6, <1>7, <1>9 DEF Handles, Busy, Serving
    <3> QED
      BY <1>0, <1>11, <2>1, <3>1, <3>2, SameProgram
  <2>2. CASE r # p
    <3>1. r \in fds[Q] /\ r \in Client
      BY <1>1, <1>8, <2>2
    <3>2. CASE \E v \in Worker : Process(v) = Q /\ Handles(v, r)
      <4>1. PICK v \in Worker : Process(v) = Q /\ Handles(v, r)
        BY <3>2
      <4>2. v # w
        BY <1>0, <4>1 DEF Handles
      <4> QED
        BY <1>0, <1>7, <1>9, <4>1, <4>2, SameProgram DEF Handles
    <3>3. CASE Q = "main" /\ Stranded(r)
      <4>1. ~Handles("main", r)'
        BY <1>7, <1>9, <2>2, <3>3, Processes DEF Handles, Stranded
      <4>2. at'[r] = "none"
        BY <1>7, <1>11, <3>1, <3>3, Processes DEF Stranded
      <4> QED
        BY <1>0, <3>3, <4>1, <4>2 DEF Stranded
    <3> QED
      BY <3>1, <3>2, <3>3 DEF CInv, HoldersOK
  <2> QED
    BY <2>1, <2>2
<1> QED
  BY <1>4, <1>10, <1>12, <1>13, <1>14, <1>15 DEF CInv

\* The only connection that a process other than the threads' one holds.
LEMMA HoldsOne ==
  ASSUME CInv, Architecture # "thread", NEW w \in Worker, NEW p \in fds[w]
  PROVE  Handles(w, p)
<1>1. program # "chat/server-mt"
  BY Architectures
<1>2. PICK v \in Worker : Process(v) = w /\ Handles(v, p)
  BY <1>1 DEF CInv, HoldersOK, Stranded
<1> QED
  BY <1>2, Processes

\* fork(): parent and child both handle the connection.
LEMMA MainForks ==
  ASSUME CInv, Fork
  PROVE  CInv'
<1>p. PICK p \in Client : p = sock["main"]
  <2>1. sock["main"] \in fds["main"] /\ fds["main"] \subseteq Client
    BY Processes DEF Fork, CreateThread, CInv, ControlTypes, WorkersOK, Process, Busy
  <2> QED
    BY <2>1
<1>0. /\ UNCHANGED <<program, backlog, ready, status>> /\ at["main"] = "fork"
      /\ fds' = [fds EXCEPT ![p] = fds["main"]] /\ sock' = [sock EXCEPT ![p] = p]
      /\ at' = [at EXCEPT !["main"] = "parent", ![p] = "child"]
  BY <1>p DEF Fork, chosen, clients, loop
<1>1. /\ fds \in [Worker -> SUBSET Client] /\ at \in [Worker -> Places]
      /\ sock \in [Worker -> Client \union {"nobody"}] /\ DOMAIN status = Client
      /\ backlog \in [1 .. Ports -> Seq(Client)]
  BY DEF CInv, ControlTypes
<1>2. p \in fds["main"] /\ at[p] = "none"
  BY <1>0, <1>p, Processes DEF CInv, WorkersOK, Process, Busy
<1>3. p \in Client /\ p # "main" /\ p \in Worker /\ "main" \in Worker
  BY <1>1, <1>2, Processes, ServersAssumption
<1>4. Architecture = "fork"
  <2>1. at["main"] \in PlacesOf("main") /\ "main" \notin Client /\ "main" \notin Pool
    BY <1>3, ServersAssumption DEF CInv, PlacesOK
  <2> QED
    BY <1>0, <2>1 DEF PlacesOf, Serving
<1>5. fds["main"] = {p}
  <2>1. ASSUME NEW r \in fds["main"] PROVE r = p
    BY <1>3, <1>4, <2>1, <1>p, HoldsOne DEF Handles
  <2> QED
    BY <1>2, <2>1
<1>6. /\ fds' \in [Worker -> SUBSET Client] /\ fds'[p] = {p}
      /\ \A v \in Worker : v # p => fds'[v] = fds[v]
  BY <1>0, <1>1, <1>3, <1>5
<1>7. /\ sock' \in [Worker -> Client \union {"nobody"}] /\ sock'[p] = p
      /\ \A v \in Worker : v # p => sock'[v] = sock[v]
  BY <1>0, <1>1, <1>3
<1>8. /\ at' \in [Worker -> Places] /\ at'[p] = "child" /\ at'["main"] = "parent"
      /\ \A v \in Worker : v \notin {p, "main"} => at'[v] = at[v]
  BY <1>0, <1>1, <1>3 DEF Places, Busy
<1>9. ControlTypes' /\ ReadyOK'
  BY <1>0, <1>1, <1>6, <1>7, <1>8 DEF CInv, ControlTypes, ReadyOK
<1>10. PlacesOK'
  <2>1. "child" \in PlacesOf(p) /\ "parent" \in PlacesOf("main")
    BY <1>3, <1>4, ServersAssumption DEF PlacesOf
  <2> QED
    BY <1>0, <1>8, <2>1, SameProgram DEF CInv, PlacesOK
<1>11. QueuesOK' /\ \A r \in Client : Queued(r)' <=> Queued(r)
  BY <1>0 DEF CInv, QueuesOK, Queued
<1>12. FreshOK'
  <2>1. status[p] # "start" /\ ~Queued(p)
    BY <1>2, <1>3 DEF CInv, FreshOK
  <2> QED
    BY <1>0, <1>3, <1>6, <1>8, <1>11, <2>1, ServersAssumption, Processes DEF CInv, FreshOK
<1>13. WorkersOK'
  <2>1. \A v \in Worker : at'[v] \in Busy => sock'[v] \in fds'[Process(v)']
    <3> SUFFICES ASSUME NEW v \in Worker, at'[v] \in Busy PROVE sock'[v] \in fds'[v]
      BY <1>0, <1>4, SameProgram, Processes
    <3>1. CASE v = p
      BY <1>6, <1>7, <3>1
    <3>2. CASE v = "main"
      BY <1>2, <1>3, <1>6, <1>7, <1>p, <3>2
    <3>3. CASE v \notin {p, "main"}
      BY <1>4, <1>6, <1>7, <1>8, <3>3, Processes DEF CInv, WorkersOK
    <3> QED
      BY <3>1, <3>2, <3>3
  <2>2. \A r \in Client : at'[r] # "none" => sock'[r] = r
    BY <1>3, <1>7, <1>8, Processes, ServersAssumption DEF CInv, WorkersOK
  <2> QED
    BY <1>8, <2>1, <2>2 DEF WorkersOK
<1>14. HoldersOK'
  <2> SUFFICES ASSUME NEW Q \in Worker, NEW r \in fds'[Q] PROVE Handles(Q, r)'
    BY <1>0, <1>4, SameProgram, Processes DEF HoldersOK
  <2>1. CASE Q = p
    BY <1>6, <1>7, <1>8, <2>1 DEF Handles
  <2>2. CASE Q # p
    <3>1. Handles(Q, r)
      BY <1>4, <1>6, <2>2, HoldsOne
    <3> QED
      BY <1>3, <1>7, <1>8, <2>2, <3>1 DEF Handles
  <2> QED
    BY <2>1, <2>2
<1> QED
  BY <1>9, <1>10, <1>11, <1>12, <1>13, <1>14 DEF CInv

\* pthread_create() makes the thread, or fails; chat/server-mt then forgets the connection.
LEMMA MainMakesThread ==
  ASSUME CInv, CreateThread
  PROVE  CInv'
<1>p. PICK p \in Client : p = sock["main"]
  <2>1. sock["main"] \in fds["main"] /\ fds["main"] \subseteq Client
    BY Processes DEF Fork, CreateThread, CInv, ControlTypes, WorkersOK, Process, Busy
  <2> QED
    BY <2>1
<1>0. /\ UNCHANGED <<program, ready, status>> /\ at["main"] = "create"
      /\ UNCHANGED <<fds, backlog>> \/ Exit("main", conn)
      /\ \/ /\ sock' = [sock EXCEPT ![p] = p] /\ UNCHANGED <<fds, backlog>>
            /\ at' = [at EXCEPT !["main"] = "accept", ![p] = "start"]
         \/ UNCHANGED sock /\ Exit("main", conn)
         \/ /\ program # "TCPEchoServer-Thread" /\ UNCHANGED <<sock, fds, backlog>>
            /\ at' = [at EXCEPT !["main"] = "accept"]
  BY <1>p DEF CreateThread, chosen, clients, kernel, loop
<1>1. /\ fds \in [Worker -> SUBSET Client] /\ at \in [Worker -> Places]
      /\ sock \in [Worker -> Client \union {"nobody"}] /\ DOMAIN status = Client
      /\ backlog \in [1 .. Ports -> Seq(Client)]
  BY DEF CInv, ControlTypes
<1>2. p \in fds["main"] /\ at[p] = "none"
  BY <1>0, <1>p, Processes DEF CInv, WorkersOK, Process, Busy
<1>3. p \in Client /\ p # "main" /\ p \in Worker /\ "main" \in Worker
  BY <1>1, <1>2, Processes, ServersAssumption
<1>4. Architecture = "thread" /\ \A v \in Worker : Process(v) = "main"
  <2>1. at["main"] \in PlacesOf("main") /\ "main" \notin Client /\ "main" \notin Pool
    BY <1>3, ServersAssumption DEF CInv, PlacesOK
  <2>2. Architecture = "thread"
    BY <1>0, <2>1 DEF PlacesOf, Serving
  <2> QED
    BY <2>2, Processes
<1>5. status[p] # "start" /\ ~Queued(p)
  BY <1>2, <1>3 DEF CInv, FreshOK
<1>6. CASE UNCHANGED sock /\ Exit("main", conn)
  BY <1>0, <1>3, <1>6, ProcessEnds DEF CInv, ReadyOK
<1>7. ASSUME UNCHANGED <<fds, backlog>>, NEW y \in {"none", "start"}, at'["main"] = "accept", at'[p] = y,
             at' \in [Worker -> Places],
             \A v \in Worker : v \notin {p, "main"} => at'[v] = at[v],
             sock' \in [Worker -> Client \union {"nobody"}],
             \A v \in Worker : v # p => sock'[v] = sock[v], y = "start" => sock'[p] = p,
             y = "none" => program = "chat/server-mt"
      PROVE  CInv'
  <2>1. ControlTypes' /\ ReadyOK'
    BY <1>0, <1>1, <1>7 DEF CInv, ControlTypes, ReadyOK
  <2>2. PlacesOK'
    <3>1. y \in PlacesOf(p) /\ "accept" \in PlacesOf("main")
      BY <1>3, <1>4, <1>7, ServersAssumption DEF PlacesOf
    <3> QED
      BY <1>0, <1>7, <3>1, SameProgram DEF CInv, PlacesOK
  <2>3. QueuesOK' /\ \A r \in Client : Queued(r)' <=> Queued(r)
    BY <1>7 DEF CInv, QueuesOK, Queued
  <2>4. FreshOK'
    BY <1>0, <1>3, <1>5, <1>7, <2>3, ServersAssumption, Processes DEF CInv, FreshOK
  <2>5. WorkersOK'
    <3>1. \A v \in Worker : at'[v] \in Busy => sock'[v] \in fds'[Process(v)']
      <4> SUFFICES ASSUME NEW v \in Worker, at'[v] \in Busy PROVE sock'[v] \in fds["main"]
        BY <1>0, <1>4, <1>7, SameProgram
      <4>1. v # "main"
        BY <1>7 DEF Busy, Serving
      <4>2. CASE v = p
        <5>1. y = "start"
          BY <1>7, <4>2 DEF Busy, Serving
        <5> QED
          BY <1>2, <1>7, <4>2, <5>1
      <4>3. CASE v # p
        <5>1. at[v] \in Busy
          BY <1>7, <4>1, <4>3
        <5> QED
          BY <1>4, <1>7, <4>3, <5>1 DEF CInv, WorkersOK
      <4> QED
        BY <4>2, <4>3
    <3>2. \A r \in Client : at'[r] # "none" => sock'[r] = r
      BY <1>3, <1>7, Processes, ServersAssumption DEF CInv, WorkersOK
    <3> QED
      BY <1>7, <3>1, <3>2 DEF WorkersOK
  <2>6. HoldersOK'
    <3> SUFFICES ASSUME NEW Q \in Worker, NEW r \in fds[Q]
                 PROVE  Q = "main" /\ ((\E v \in Worker : Handles(v, r)') \/ Stranded(r)')
      <4>1. \A v \in Worker : Process(v)' = "main"
        BY <1>0, <1>4, SameProgram
      <4> QED
        BY <1>7, <4>1 DEF HoldersOK
    <3>1. Q = "main" /\ ((\E v \in Worker : Handles(v, r)) \/ Stranded(r))
      BY <1>4 DEF CInv, HoldersOK
    <3>2. r \in Client /\ r \in fds["main"]
      BY <1>1, <3>1
    <3>3. CASE r = p
      <4>1. y = "start" => Handles(p, p)'
        BY <1>7 DEF Handles
      <4>2. y = "none" => Stranded(p)'
        BY <1>0, <1>2, <1>7 DEF Stranded, Handles
      <4> QED
        BY <1>3, <1>7, <3>1, <3>3, <4>1, <4>2
    <3>4. CASE r # p /\ \E v \in Worker : Handles(v, r)
      <4>1. PICK v \in Worker : Handles(v, r)
        BY <3>4
      <4>2. v # "main" /\ v # p
        BY <1>2, <1>p, <3>4, <4>1 DEF Handles
      <4> QED
        BY <1>7, <3>1, <4>1, <4>2 DEF Handles
    <3>5. CASE r # p /\ Stranded(r)
      <4>1. at'[r] = "none"
        BY <1>3, <1>7, <3>2, <3>5, Processes, ServersAssumption DEF Stranded
      <4> QED
        BY <1>0, <1>7, <3>1, <3>2, <3>5, <4>1 DEF Stranded, Handles
    <3> QED
      BY <3>1, <3>3, <3>4, <3>5
  <2> QED
    BY <2>1, <2>2, <2>3, <2>4, <2>5, <2>6 DEF CInv
<1>8. CASE /\ sock' = [sock EXCEPT ![p] = p] /\ UNCHANGED <<fds, backlog>>
           /\ at' = [at EXCEPT !["main"] = "accept", ![p] = "start"]
  <2> DEFINE y == "start"
  <2>1. /\ at'["main"] = "accept" /\ at'[p] = y /\ at' \in [Worker -> Places]
        /\ \A v \in Worker : v \notin {p, "main"} => at'[v] = at[v]
    BY <1>1, <1>3, <1>8 DEF Places, Busy
  <2>2. /\ sock' \in [Worker -> Client \union {"nobody"}]
        /\ \A v \in Worker : v # p => sock'[v] = sock[v]
        /\ sock'[p] = p
    BY <1>1, <1>3, <1>8
  <2> QED
    BY <1>7, <1>8, <2>1, <2>2
<1>9. CASE /\ program # "TCPEchoServer-Thread" /\ UNCHANGED <<sock, fds, backlog>>
           /\ at' = [at EXCEPT !["main"] = "accept"]
  <2> DEFINE y == "none"
  <2>1. /\ at'["main"] = "accept" /\ at'[p] = y /\ at' \in [Worker -> Places]
        /\ \A v \in Worker : v \notin {p, "main"} => at'[v] = at[v]
    BY <1>1, <1>2, <1>3, <1>9 DEF Places, Busy
  <2>2. program = "chat/server-mt"
    BY <1>4, <1>9 DEF Architecture
  <2> QED
    BY <1>1, <1>7, <1>9, <2>1, <2>2
<1> QED
  BY <1>0, <1>6, <1>8, <1>9

\* A client's steps concern the servers only when it connects.
LEMMA ClientGoesOn ==
  ASSUME CInv, UNCHANGED <<program, at, sock, fds, backlog, ready>>, DOMAIN status' = Client,
         \A p \in Client : status'[p] = "start" => status[p] = "start"
  PROVE  CInv'
<1>1. QueuesOK' /\ \A p \in Client : Queued(p)' <=> Queued(p)
  BY DEF CInv, QueuesOK, Queued
<1>2. ControlTypes' /\ ReadyOK'
  BY DEF CInv, ControlTypes, ReadyOK
<1>3. PlacesOK'
  BY SameProgram DEF CInv, PlacesOK
<1>4. FreshOK'
  BY <1>1 DEF CInv, FreshOK
<1>5. WorkersOK'
  BY SameProgram, Processes DEF CInv, WorkersOK
<1>6. HoldersOK'
  BY SameProgram DEF CInv, HoldersOK, Handles, Stranded
<1> QED
  BY <1>1, <1>2, <1>3, <1>4, <1>5, <1>6 DEF CInv

LEMMA ClientConnects ==
  ASSUME CInv, NEW p \in Client, Connect(p)
  PROVE  CInv'
<1>0. UNCHANGED <<program, at, sock, fds, ready>> /\ status[p] = "start"
  BY DEF Connect, chosen, workers, loop
<1>1. DOMAIN status = Client /\ backlog \in [1 .. Ports -> Seq(Client)]
  BY DEF CInv, ControlTypes
<1>2. CASE status' = [status EXCEPT ![p] = "refused"] /\ UNCHANGED backlog
  <2>1. DOMAIN status' = Client /\ \A r \in Client : status'[r] = "start" => status[r] = "start"
    BY <1>0, <1>1, <1>2
  <2> QED
    BY <1>0, <1>2, <2>1, ClientGoesOn
<1>3. ASSUME NEW q \in Port, status' = [status EXCEPT ![p] = "connected"],
             backlog' = [backlog EXCEPT ![q] = Append(@, p)]
      PROVE  CInv'
  <2>0. q \in 1 .. Ports /\ backlog[q] \in Seq(Client)
    <3>1. q \in 1 .. Ports
      BY ServersAssumption DEF Port
    <3> QED
      BY <1>1, <3>1
  <2>1. /\ DOMAIN status' = Client /\ status'[p] = "connected"
        /\ \A r \in Client : r # p => status'[r] = status[r]
    BY <1>1, <1>3
  <2>2. /\ Append(backlog[q], p) \in Seq(Client)
        /\ \A k \in DOMAIN Append(backlog[q], p) :
             \/ k \in DOMAIN backlog[q] /\ Append(backlog[q], p)[k] = backlog[q][k]
             \/ k = Len(backlog[q]) + 1 /\ Append(backlog[q], p)[k] = p
    BY <2>0, AppendPlaces
  <2>3. /\ backlog' \in [1 .. Ports -> Seq(Client)] /\ backlog'[q] = Append(backlog[q], p)
        /\ \A r \in 1 .. Ports : r # q => backlog'[r] = backlog[r]
    BY <1>1, <1>3, <2>0, <2>2
  <2>4. \A r \in 1 .. Ports : \A k \in DOMAIN backlog'[r] :
          \/ k \in DOMAIN backlog[r] /\ backlog'[r][k] = backlog[r][k]
          \/ r = q /\ k = Len(backlog[q]) + 1 /\ backlog'[r][k] = p
    BY <2>2, <2>3
  <2>5. ~Queued(p) /\ at[p] = "none" /\ \A w \in Worker : p \notin fds[w]
    BY <1>0 DEF CInv, FreshOK
  <2>6. \A r \in 1 .. Ports : \A k \in DOMAIN backlog[r] : backlog[r][k] # p
    BY <2>5 DEF Queued
  <2>7. QueuesOK'
    <3> SUFFICES ASSUME NEW r \in 1 .. Ports, NEW t \in 1 .. Ports, NEW j \in DOMAIN backlog'[r],
                        NEW k \in DOMAIN backlog'[t], backlog'[r][j] = backlog'[t][k]
                 PROVE  r = t /\ j = k
      BY DEF QueuesOK
    <3>1. CASE backlog'[r][j] = p
      <4>1. r = q /\ j = Len(backlog[q]) + 1
        BY <2>4, <2>6, <3>1
      <4>2. t = q /\ k = Len(backlog[q]) + 1
        BY <2>4, <2>6, <3>1
      <4> QED
        BY <4>1, <4>2
    <3>2. CASE backlog'[r][j] # p
      BY <2>4, <3>2 DEF CInv, QueuesOK
    <3> QED
      BY <3>1, <3>2
  <2>8. \A r \in Client : Queued(r)' => r = p \/ Queued(r)
    BY <2>4 DEF Queued
  <2>9. ControlTypes' /\ ReadyOK'
    BY <1>0, <2>1, <2>3 DEF CInv, ControlTypes, ReadyOK
  <2>10. PlacesOK'
    BY <1>0, SameProgram DEF CInv, PlacesOK
  <2>11. FreshOK'
    BY <1>0, <2>1, <2>5, <2>8 DEF CInv, FreshOK
  <2>12. WorkersOK'
    BY <1>0, SameProgram, Processes DEF CInv, WorkersOK
  <2>13. HoldersOK'
    BY <1>0, SameProgram DEF CInv, HoldersOK, Handles, Stranded
  <2> QED
    BY <2>7, <2>9, <2>10, <2>11, <2>12, <2>13 DEF CInv
<1> QED
  BY <1>2, <1>3 DEF Connect

LEMMA ClientKeepsC ==
  ASSUME CInv, NEW p \in Client, Connect(p) \/ SendWord(p) \/ Read(p) \/ Killed(p)
  PROVE  CInv'
<1>1. CASE Connect(p)
  BY <1>1, ClientConnects
<1>2. CASE SendWord(p) \/ Read(p) \/ Killed(p)
  <2>1. UNCHANGED <<program, at, sock, fds, backlog, ready>>
    BY <1>2 DEF SendWord, Read, Killed, chosen, workers, loop
  <2>2. status' = status \/ \E x \in Outcomes \union {"reading"} : status' = [status EXCEPT ![p] = x]
    <3>1. CASE SendWord(p)
      BY <3>1 DEF SendWord, End, Outcomes
    <3>2. CASE Read(p)
      BY <3>2 DEF Read, End, Outcomes, AtEndOfFile
    <3>3. CASE Killed(p)
      BY <3>3 DEF Killed, End, Outcomes
    <3> QED
      BY <1>2, <3>1, <3>2, <3>3
  <2>3. DOMAIN status' = Client /\ \A r \in Client : status'[r] = "start" => status[r] = "start"
    BY <2>2 DEF CInv, ControlTypes, Outcomes
  <2> QED
    BY <2>1, <2>3, ClientGoesOn
<1> QED
  BY <1>1, <1>2

LEMMA InitC == Init => CInv
<1> SUFFICES ASSUME Init PROVE CInv
  OBVIOUS
<1>1. \A q \in 1 .. Ports : backlog[q] = <<>> /\ DOMAIN backlog[q] = {}
  BY DEF Init
<1>2. QueuesOK /\ \A p \in Client : ~Queued(p)
  BY <1>1 DEF QueuesOK, Queued
<1>3. \A w \in Worker : /\ fds[w] = {} /\ sock[w] = "nobody"
                        /\ w \notin listeners => at[w] = "none"
                        /\ w \in listeners => at[w] = IF Architecture = "select" THEN "select" ELSE "accept"
  BY DEF Init
<1>4. listeners = {"main"} \union IF Architecture = "pool" THEN Pool ELSE {}
  BY DEF Init
<1>5. at \in [Worker -> Places]
  BY DEF Init, Places
<1>6. ControlTypes /\ ReadyOK
  BY <1>5 DEF Init, ControlTypes, ReadyOK
<1>7. PlacesOK
  <2> SUFFICES ASSUME NEW w \in Worker PROVE at[w] \in PlacesOf(w)
    BY DEF PlacesOK
  <2>1. CASE w \in Client
    BY <1>3, <1>4, <2>1, ServersAssumption DEF PlacesOf
  <2>2. CASE w \in Pool
    BY <1>3, <1>4, <2>2, ServersAssumption DEF PlacesOf
  <2>3. CASE w = "main"
    BY <1>3, <1>4, <2>3, ServersAssumption, Architectures DEF PlacesOf
  <2> QED
    BY <2>1, <2>2, <2>3 DEF Worker
<1>8. \A p \in Client : at[p] = "none"
  BY <1>3, <1>4, Processes, ServersAssumption
<1>9. \A w \in Worker : at[w] \notin Busy
  <2> SUFFICES ASSUME NEW w \in Worker PROVE at[w] \in {"none", "select", "accept"}
    BY DEF Busy, Serving
  <2> QED
    BY <1>3
<1>10. FreshOK
  BY <1>2, <1>3, <1>8 DEF FreshOK
<1>11. WorkersOK
  BY <1>8, <1>9, Processes DEF WorkersOK, Busy
<1>12. HoldersOK
  BY <1>3 DEF HoldersOK
<1> QED
  BY <1>2, <1>6, <1>7, <1>10, <1>11, <1>12 DEF CInv

\* A step of a session leads to another, or ends the process, or closes the connection.
LEMMA SessionSteps ==
  ASSUME NEW w \in Worker, Receive(w) \/ Send(w) \/ Finish(w)
  PROVE  \/ \E x \in Serving : at' = [at EXCEPT ![w] = x] /\ UNCHANGED <<fds, backlog>>
         \/ \E c : Exit(w, c)
         \/ /\ Finish(w) /\ Descriptors(conn, [fds EXCEPT ![Process(w)] = @ \ {sock[w]}], listeners)
            /\ Architecture \notin {"once", "fork"}
            /\ \E x \in {"accept"} \union (IF Architecture = "thread" THEN {"ended"} ELSE {})
                                   \union (IF Architecture = "select" THEN {"select"} ELSE {}) :
                 /\ at' = [at EXCEPT ![w] = x]
                 /\ Architecture = "thread" => x = "ended"
<1>1. CASE Receive(w)
  <2> DEFINE p == sock[w]
             there == conn[p]["client"].data
             rest(k) == [conn EXCEPT ![p] = SetData(@, "client", SubSeq(there, k + 1, Len(there)))]
             c == [conn EXCEPT ![p] = ErrorReturned(@, "server")]
  <2>1. \/ /\ \E k \in Sizes(there, buf[w]) :
                /\ conn' = rest(k)
                /\ IF Kind = "vote" THEN TakeVote(w, there) ELSE TakeBytes(w, SubSeq(there, 1, k))
           /\ UNCHANGED <<backlog, fds, listeners>>
        \/ at' = [at EXCEPT ![w] = OnEof] /\ UNCHANGED kernel
        \/ Exit(w, c)
        \/ OnError # "exit" /\ at' = [at EXCEPT ![w] = OnError] /\ UNCHANGED <<backlog, fds, listeners>>
    BY <1>1 DEF Receive
  <2>2. CASE /\ \E k \in Sizes(there, buf[w]) :
                  /\ conn' = rest(k)
                  /\ IF Kind = "vote" THEN TakeVote(w, there) ELSE TakeBytes(w, SubSeq(there, 1, k))
             /\ UNCHANGED <<backlog, fds, listeners>>
    <3>1. CASE TakeVote(w, there)
      BY <2>2, <3>1 DEF TakeVote, Serving
    <3>2. CASE \E k \in Sizes(there, buf[w]) : TakeBytes(w, SubSeq(there, 1, k))
      BY <2>2, <3>2 DEF TakeBytes, Serving
    <3> QED
      BY <2>2, <3>1, <3>2
  <2>3. OnEof \in Serving /\ (OnError # "exit" => OnError \in Serving)
    BY DEF OnEof, OnError, Serving
  <2> QED
    BY <2>1, <2>2, <2>3 DEF kernel
<1>2. CASE Send(w)
  <2>1. \/ \E c : Exit(w, c)
        \/ /\ at' = [at EXCEPT ![w] = IF Kind \in {"echo", "vote"} THEN "receive" ELSE "close"]
           /\ UNCHANGED <<backlog, fds, listeners>>
    BY <1>2 DEF Send
  <2> QED
    BY <2>1 DEF Serving
<1>3. CASE Finish(w)
  <2>1. CASE Architecture \in {"once", "fork"}
    BY <1>3, <2>1 DEF Finish
  <2>2. CASE Architecture \notin {"once", "fork"}
    <3>1. /\ Descriptors(conn, [fds EXCEPT ![Process(w)] = @ \ {sock[w]}], listeners)
          /\ at' = [at EXCEPT ![w] = CASE Architecture = "thread" -> "ended"
                                       [] Architecture = "select" /\ ready = {} -> "select"
                                       [] OTHER -> "accept"]
      BY <1>3, <2>2 DEF Finish
    <3>2. \/ Architecture = "thread" /\ at' = [at EXCEPT ![w] = "ended"]
          \/ Architecture = "select" /\ at' = [at EXCEPT ![w] = "select"]
          \/ Architecture # "thread" /\ at' = [at EXCEPT ![w] = "accept"]
      BY <3>1
    <3> QED
      BY <1>3, <2>2, <3>1, <3>2
  <2> QED
    BY <2>1, <2>2
<1> QED
  BY <1>1, <1>2, <1>3

LEMMA SessionKeepsC ==
  ASSUME CInv, NEW w \in Worker, Receive(w) \/ Send(w) \/ Finish(w)
  PROVE  CInv'
<1>1. UNCHANGED <<program, ready, sock, status>> /\ at[w] \in Serving
  BY DEF Receive, Send, Finish, chosen, loop, clients, Serving
<1>2. ReadyOK'
  BY <1>1 DEF CInv, ReadyOK
<1>3. at[w] \in PlacesOf(w) /\ at[w] \in Busy /\ at[w] # "none"
  BY <1>1 DEF CInv, PlacesOK, Busy, Serving
<1>4. /\ Serving \subseteq PlacesOf(w) /\ "ended" \in PlacesOf(w)
      /\ Architecture \notin {"once", "fork", "thread"} => "accept" \in PlacesOf(w)
      /\ Architecture = "select" => "select" \in PlacesOf(w)
  <2>1. CASE w \in Client
    BY <1>1, <1>3, <2>1, Architectures, ServersAssumption DEF PlacesOf, Serving
  <2>2. CASE w \in Pool
    BY <1>1, <1>3, <2>2, Architectures, ServersAssumption DEF PlacesOf, Serving
  <2>3. CASE w = "main"
    BY <1>1, <1>3, <2>3, Architectures, ServersAssumption DEF PlacesOf, Serving
  <2> QED
    BY <2>1, <2>2, <2>3 DEF Worker
<1>5. CASE \E x \in Serving : at' = [at EXCEPT ![w] = x] /\ UNCHANGED <<fds, backlog>>
  <2>1. PICK x \in Serving : at' = [at EXCEPT ![w] = x] /\ UNCHANGED <<fds, backlog>>
    BY <1>5
  <2>2. x \in PlacesOf(w) /\ x \in Busy /\ x \notin {"fork", "create"} /\ x # "none"
    BY <1>4 DEF Busy, Serving
  <2> QED
    BY <1>1, <1>2, <1>3, <2>1, <2>2, WorkerGoesOn
<1>6. CASE \E c : Exit(w, c)
  BY <1>1, <1>2, <1>6, ProcessEnds
<1>7. CASE /\ Descriptors(conn, [fds EXCEPT ![Process(w)] = @ \ {sock[w]}], listeners)
           /\ Architecture \notin {"once", "fork"}
           /\ \E x \in {"accept"} \union (IF Architecture = "thread" THEN {"ended"} ELSE {})
                                  \union (IF Architecture = "select" THEN {"select"} ELSE {}) :
                /\ at' = [at EXCEPT ![w] = x]
                /\ Architecture = "thread" => x = "ended"
  <2>1. PICK x \in {"accept", "ended", "select"} :
          /\ at' = [at EXCEPT ![w] = x] /\ (Architecture = "thread" => x = "ended")
          /\ x = "ended" => Architecture = "thread"
          /\ x = "select" => Architecture = "select"
    BY <1>7
  <2>2. x \in PlacesOf(w) /\ x \notin Busy /\ x # "none"
    BY <1>4, <1>7, <2>1 DEF Busy, Serving
  <2>3. /\ fds' = [fds EXCEPT ![Process(w)] = @ \ {sock[w]}]
        /\ backlog' \in {backlog, [q \in 1 .. Ports |-> <<>>]}
    BY <1>7 DEF Descriptors
  <2> QED
    BY <1>1, <1>2, <1>3, <2>1, <2>2, <2>3, WorkerCloses
<1> QED
  BY <1>5, <1>6, <1>7, SessionSteps

\* The steps of main() besides sessions, and those of a child or thread before its session.
LEMMA LoopKeepsC ==
  ASSUME CInv, NEW w \in Worker,
         (w = "main" /\ MainStep) \/ (w \in Client /\ (ChildBegins(w) \/ Start(w)))
  PROVE  CInv'
<1>1. UNCHANGED <<program, status>>
  BY DEF MainStep, Select, ShutDown, Fork, ParentCloses, Wait, CreateThread, ChildBegins, Start,
         chosen, clients
<1>2. at[w] \in PlacesOf(w) /\ "main" \notin Client /\ "main" \notin Pool /\ "main" \in Worker
  BY Processes, ServersAssumption DEF CInv, PlacesOK
<1>3. at["main"] \in PlacesOf("main")
  BY <1>2 DEF CInv, PlacesOK
<1>4. "accept" \in PlacesOf("main")
  BY <1>2 DEF PlacesOf
<1>5. CASE w = "main" /\ Select
  <2>1. UNCHANGED <<sock, fds, backlog>> /\ at["main"] = "select"
    BY <1>5 DEF Select, kernel
  <2>2. ReadyOK'
    BY <1>5, ServersAssumption DEF Select, ReadyOK, Port
  <2>3. PICK x \in {"select", "accept"} : at' = [at EXCEPT !["main"] = x]
    BY <1>5 DEF Select
  <2>4. x \in PlacesOf("main")
    BY <1>3, <1>4, <2>1, <2>3
  <2>5. at["main"] # "none" /\ at["main"] \notin Busy /\ x \notin Busy /\ x # "none" /\ x \notin {"fork", "create"}
    BY <2>1, <2>3 DEF Busy, Serving
  <2> QED
    BY <1>1, <1>2, <2>1, <2>2, <2>3, <2>4, <2>5, WorkerGoesOn
<1>6. CASE w = "main" /\ ShutDown
  <2>1. UNCHANGED <<sock, ready>> /\ Exit("main", conn)
    BY <1>6 DEF ShutDown, loop
  <2> QED
    BY <1>1, <1>2, <2>1, ProcessEnds DEF CInv, ReadyOK
<1>7. CASE w = "main" /\ Fork
  BY <1>7, MainForks
<1>8. CASE w = "main" /\ ParentCloses
  <2>1. /\ at["main"] = "parent" /\ UNCHANGED <<sock, ready>>
        /\ at' = [at EXCEPT !["main"] = "wait"]
        /\ fds' = [fds EXCEPT !["main"] = @ \ {sock["main"]}]
        /\ backlog' \in {backlog, [q \in 1 .. Ports |-> <<>>]}
    BY <1>8 DEF ParentCloses, Descriptors
  <2>2. Architecture = "fork" /\ "wait" \in PlacesOf("main")
    BY <1>2, <1>3, <2>1 DEF PlacesOf, Serving
  <2>3. Process("main") = "main" /\ "wait" \notin Busy /\ at["main"] \in Busy
    BY <2>1 DEF Process, Busy, Serving
  <2> QED
    BY <1>1, <1>2, <2>1, <2>2, <2>3, WorkerCloses DEF CInv, ReadyOK
<1>9. CASE w = "main" /\ Wait
  <2>1. /\ at["main"] = "wait" /\ UNCHANGED <<sock, ready>>
        /\ \/ Exit("main", conn)
           \/ UNCHANGED <<fds, backlog>> /\ at' = [at EXCEPT !["main"] = "accept"]
           \/ UNCHANGED <<fds, backlog>> /\ \E p \in Zombies : at' = [at EXCEPT ![p] = "reaped"]
    BY <1>9 DEF Wait, kernel
  <2>2. CASE Exit("main", conn)
    BY <1>1, <1>2, <2>1, <2>2, ProcessEnds DEF CInv, ReadyOK
  <2>3. CASE UNCHANGED <<fds, backlog>> /\ at' = [at EXCEPT !["main"] = "accept"]
    <3>1. at["main"] # "none" /\ at["main"] \notin Busy /\ "accept" \notin Busy
      BY <2>1 DEF Busy, Serving
    <3> QED
      BY <1>1, <1>2, <1>4, <2>1, <2>3, <3>1, WorkerGoesOn DEF CInv, ReadyOK
  <2>4. CASE UNCHANGED <<fds, backlog>> /\ \E p \in Zombies : at' = [at EXCEPT ![p] = "reaped"]
    <3>1. PICK p \in Client : at[p] = "ended" /\ at' = [at EXCEPT ![p] = "reaped"]
      BY <2>4 DEF Zombies
    <3>2. Architecture = "fork"
      BY <1>2, <1>3, <2>1 DEF PlacesOf, Serving
    <3>3. p \in Worker /\ "reaped" \in PlacesOf(p)
      <4>1. p \in Client /\ p \in Worker
        BY <3>1, Processes
      <4>2. PlacesOf(p) = {"none"} \union {"child", "ended", "reaped"} \union Serving
        BY <3>2, <4>1, ServersAssumption DEF PlacesOf
      <4> QED
        BY <4>1, <4>2
    <3>4. at[p] # "none" /\ at[p] \notin Busy /\ "reaped" \notin Busy
      BY <3>1 DEF Busy, Serving
    <3> QED
      BY <1>1, <2>1, <2>4, <3>1, <3>3, <3>4, WorkerGoesOn DEF CInv, ReadyOK
  <2> QED
    BY <2>1, <2>2, <2>3, <2>4
<1>10. CASE w = "main" /\ CreateThread
  BY <1>10, MainMakesThread
<1>11. CASE w \in Client /\ (ChildBegins(w) \/ Start(w))
  <2>1. /\ UNCHANGED <<sock, fds, ready>> /\ at[w] \in {"child", "start"}
        /\ backlog' \in {backlog, [q \in 1 .. Ports |-> <<>>]}
        /\ at' = [at EXCEPT ![w] = "receive"]
    BY <1>11 DEF ChildBegins, Start, Descriptors, kernel, loop
  <2>2. "receive" \in PlacesOf(w)
    BY <1>2, <1>11, <2>1 DEF PlacesOf, Serving
  <2>3. at[w] # "none" /\ at[w] \in Busy /\ "receive" \in Busy
    BY <2>1 DEF Busy, Serving
  <2> QED
    BY <1>1, <2>1, <2>2, <2>3, WorkerGoesOn DEF CInv, ReadyOK
<1> QED
  BY <1>5, <1>6, <1>7, <1>8, <1>9, <1>10, <1>11 DEF MainStep

LEMMA NextKeepsC == CInv /\ [Next]_svars => CInv'
<1> SUFFICES ASSUME CInv, [Next]_svars PROVE CInv'
  OBVIOUS
<1>1. ASSUME NEW w \in Worker, ServerStep(w) PROVE CInv'
  BY <1>1, WorkerAccepts, SessionKeepsC, LoopKeepsC DEF ServerStep, Serve
<1>2. ASSUME NEW w \in Worker, Stops(w) PROVE CInv'
  <2>1. UNCHANGED <<program, sock, status, ready>> /\ Exit(w, conn)
    BY <1>2 DEF Stops, Interrupt, CallFails, chosen, clients, loop
  <2> QED
    BY <2>1, ProcessEnds DEF CInv, ReadyOK
<1>3. ASSUME NEW p \in Client, Connect(p) \/ SendWord(p) \/ Read(p) \/ Killed(p) PROVE CInv'
  BY <1>3, ClientKeepsC
<1>4. CASE HitReturn \/ UNCHANGED svars
  <2>1. UNCHANGED <<program, at, sock, fds, backlog, ready, status>>
    BY <1>4 DEF HitReturn, svars, chosen, kernel, loop, workers, clients
  <2> QED
    BY <2>1, ClientGoesOn DEF CInv, ControlTypes
<1> QED
  BY <1>1, <1>2, <1>3, <1>4 DEF Next, Stops

LEMMA ControlHolds == Spec => []CInv
BY InitC, NextKeepsC, PTL DEF Spec

-----------------------------------------------------------------------------
(* No connection is lost and none is served twice. *)

LEMMA HandledOnce == CInv => HeldIsHandled
<1> SUFFICES ASSUME CInv, NEW P \in Worker, NEW p \in fds[P],
                    NEW v \in Worker, Process(v) = P, Handles(v, p)
             PROVE  Cardinality({w \in Worker : Process(w) = P /\ Handles(w, p)}) = 1
  BY DEF HeldIsHandled, CInv, HoldersOK
<1>1. p \in Client
  BY DEF CInv, ControlTypes
<1>2. {w \in Worker : Process(w) = P /\ Handles(w, p)} = {v}
  BY <1>1, OneHandler
<1> QED
  BY <1>2, FS_Singleton

\* Whatever a process of a server holds, exactly one of its workers is handling, but for
\* what chat/server-mt forgets when it can make no thread.
THEOREM ConnectionsAreHandled == Spec => []HeldIsHandled
BY ControlHolds, HandledOnce, PTL

-----------------------------------------------------------------------------
(* Failures stay apart. *)

\* In a process of its own a step loses at most the connection that it handles.
LEMMA LosesOne ==
  ASSUME CInv, Architecture \in {"fork", "pool"}, [Next]_svars
  PROVE  \E P \in Worker : \A w \in Worker : w # P => fds[w] \subseteq fds'[w]
<1>1. fds \in [Worker -> SUBSET Client] /\ "main" \in Worker
  BY Processes DEF CInv, ControlTypes
<1>2. \A w \in Worker : Process(w) = w
  BY Processes
<1>3. ASSUME NEW w \in Worker, NEW S, fds' = [fds EXCEPT ![w] = S]
      PROVE  \E P \in Worker : \A v \in Worker : v # P => fds[v] \subseteq fds'[v]
  BY <1>1, <1>3
<1>4. ASSUME NEW w \in Worker, NEW c, Exit(w, c)
      PROVE  \E P \in Worker : \A v \in Worker : v # P => fds[v] \subseteq fds'[v]
  <2>1. fds' = [fds EXCEPT ![w] = {}]
    BY <1>2, <1>4 DEF Exit, Descriptors
  <2> QED
    BY <1>3, <2>1
<1>5. ASSUME NEW w \in Worker, Accept(w)
      PROVE  \E P \in Worker : \A v \in Worker : v # P => fds[v] \subseteq fds'[v]
  <2>1. \E S : fds' = [fds EXCEPT ![w] = S]
    BY <1>5 DEF Accept
  <2> QED
    BY <1>3, <2>1
<1>6. ASSUME NEW w \in Worker, Receive(w) \/ Send(w) \/ Finish(w)
      PROVE  \E P \in Worker : \A v \in Worker : v # P => fds[v] \subseteq fds'[v]
  <2>1. UNCHANGED fds \/ (\E c : Exit(w, c)) \/ fds' = [fds EXCEPT ![w] = @ \ {sock[w]}]
    BY <1>2, <1>6, SessionSteps DEF Descriptors
  <2> QED
    BY <1>1, <1>3, <1>4, <2>1
<1>7. CASE MainStep
  <2>1. UNCHANGED fds \/ Exit("main", conn) \/ (\E S : fds' = [fds EXCEPT !["main"] = S])
        \/ (sock["main"] \in Worker /\ \E S : fds' = [fds EXCEPT ![sock["main"]] = S])
    <3>1. Fork => sock["main"] \in Worker
      <4> SUFFICES ASSUME Fork PROVE sock["main"] \in Worker
        OBVIOUS
      <4>1. sock["main"] \in fds["main"]
        BY <1>1, <1>2 DEF Fork, CInv, WorkersOK, Busy
      <4> QED
        BY <1>1, <4>1, Processes
    <3> QED
      BY <1>7, <3>1 DEF MainStep, Select, ShutDown, Fork, ParentCloses, Wait, CreateThread, Descriptors, kernel
  <2> QED
    BY <1>1, <1>3, <1>4, <2>1
<1>8. ASSUME NEW w \in Worker, ChildBegins(w) \/ Start(w) \/ Stops(w)
      PROVE  \E P \in Worker : \A v \in Worker : v # P => fds[v] \subseteq fds'[v]
  <2>1. UNCHANGED fds \/ Exit(w, conn)
    BY <1>8 DEF ChildBegins, Start, Stops, Interrupt, CallFails, Descriptors, kernel
  <2> QED
    BY <1>1, <1>4, <2>1
<1>9. ASSUME UNCHANGED fds
      PROVE  \E P \in Worker : \A v \in Worker : v # P => fds[v] \subseteq fds'[v]
  BY <1>1, <1>9
<1>10. CASE (\E p \in Client : Connect(p) \/ SendWord(p) \/ Read(p) \/ Killed(p)) \/ HitReturn \/ UNCHANGED svars
  <2>1. UNCHANGED fds
    BY <1>10 DEF Connect, SendWord, Read, Killed, HitReturn, svars, kernel
  <2> QED
    BY <1>9, <2>1
<1> QED
  BY <1>5, <1>6, <1>7, <1>8, <1>10 DEF Next, Stops, ServerStep, Serve

LEMMA StepStaysApart ==
  CInv /\ [Next]_svars =>
    [(Architecture \in {"fork", "pool"} =>
       Cardinality((UNION {fds[w] : w \in Worker}) \ (UNION {fds'[w] : w \in Worker})) <= 1)]_svars
<1> DEFINE Lost == (UNION {fds[w] : w \in Worker}) \ (UNION {fds'[w] : w \in Worker})
<1> SUFFICES ASSUME CInv, [Next]_svars, Architecture \in {"fork", "pool"}
             PROVE  Cardinality(Lost) <= 1
  OBVIOUS
<1>1. PICK P \in Worker : \A w \in Worker : w # P => fds[w] \subseteq fds'[w]
  BY LosesOne
<1>2. Lost \subseteq {sock[P]}
  <2> SUFFICES ASSUME NEW p \in Lost PROVE p = sock[P]
    OBVIOUS
  <2>1. p \in fds[P]
    BY <1>1
  <2> QED
    BY <2>1, HoldsOne DEF Handles
<1>3. Lost = {} \/ Lost = {sock[P]}
  BY <1>2
<1> HIDE DEF Lost
<1>4. Cardinality({}) = 0 /\ Cardinality({sock[P]}) = 1
  BY FS_EmptySet, FS_Singleton
<1>5. Cardinality(Lost) \in {0, 1}
  BY <1>3, <1>4
<1> QED
  BY <1>5

\* The end of one process of TCPEchoServer-Fork or TCPEchoServer-ForkN takes along no
\* connection but the one it serves.
THEOREM FailuresApart == Spec => FailuresStayApart
<1>1. CInv /\ [Next]_svars =>
        [(Architecture \in {"fork", "pool"} =>
           Cardinality((UNION {fds[w] : w \in Worker}) \ (UNION {fds'[w] : w \in Worker})) <= 1)]_svars
  BY StepStaysApart
<1> QED
  BY <1>1, ControlHolds, PTL DEF Spec, FailuresStayApart

\* What is chosen at the start stays.
LEMMA ChosenOnce == [Next]_svars => UNCHANGED chosen
<1>1. ASSUME NEW w \in Worker, Serve(w) PROVE UNCHANGED chosen
  BY <1>1 DEF Serve, Accept, Receive, Send, Finish
<1>2. ASSUME MainStep PROVE UNCHANGED chosen
  BY <1>2 DEF MainStep, Select, ShutDown, Fork, ParentCloses, Wait, CreateThread
<1>3. ASSUME NEW w \in Worker, ChildBegins(w) \/ Start(w) \/ Stops(w) PROVE UNCHANGED chosen
  BY <1>3 DEF ChildBegins, Start, Stops, Interrupt, CallFails
<1>4. ASSUME NEW p \in Client, Connect(p) \/ SendWord(p) \/ Read(p) \/ Killed(p) PROVE UNCHANGED chosen
  BY <1>4 DEF Connect, SendWord, Read, Killed
<1>5. ASSUME HitReturn \/ UNCHANGED svars PROVE UNCHANGED chosen
  BY <1>5 DEF HitReturn, svars
<1> QED
  BY <1>1, <1>2, <1>3, <1>4, <1>5 DEF Next, Stops, ServerStep

-----------------------------------------------------------------------------
(* TCPEchoServer-Fork counts its children. *)

\* Between fork() and the increment there is one child more.
CountOK ==
  Architecture = "fork" =>
    /\ IsFiniteSet(Children) /\ childProcCount \in Nat
    /\ at["main"] = "parent" => childProcCount + 1 = Cardinality(Children)
    /\ at["main"] \notin {"parent", "ended"} => childProcCount = Cardinality(Children)

\* Steps that make no child, reap none, and do not count.
LEMMA CountStays ==
  ASSUME CountOK, program' = program, UNCHANGED childProcCount, Children' = Children,
         at'["main"] \notin {"parent", "ended"} => at["main"] \notin {"parent", "ended"},
         at'["main"] = "parent" => at["main"] = "parent"
  PROVE  CountOK'
BY SameProgram DEF CountOK

\* A process that ends stays among the children until it is waited for.
LEMMA ChildrenStay ==
  ASSUME CInv, NEW w \in Worker,
         \/ \E x \in Places \ {"none", "reaped", "parent"} : at[w] \notin {"none", "reaped", "ended"} /\ at' = [at EXCEPT ![w] = x]
         \/ /\ at[w] \notin {"none", "reaped"} /\ Architecture # "thread"
            /\ \E c : Exit(w, c)
  PROVE  /\ Children' = Children
         /\ at'["main"] \notin {"parent", "ended"} => at["main"] \notin {"parent", "ended"} \/ w = "main"
         /\ at'["main"] = "parent" => at["main"] = "parent"
<1>1. at \in [Worker -> Places] /\ "main" \in Worker /\ Client \subseteq Worker
  BY Processes DEF CInv, ControlTypes
<1>2. CASE \E x \in Places \ {"none", "reaped", "parent"} :
             at[w] \notin {"none", "reaped", "ended"} /\ at' = [at EXCEPT ![w] = x]
  BY <1>1, <1>2 DEF Children
<1>3. CASE /\ at[w] \notin {"none", "reaped"} /\ Architecture # "thread"
           /\ \E c : Exit(w, c)
  <2>1. at' = [v \in Worker |-> IF v = w THEN "ended" ELSE at[v]]
    <3>1. \A v \in Worker : Process(v) = v
      BY <1>3, Processes
    <3>2. at' = [v \in Worker |-> IF Process(v) = Process(w) /\ at[v] # "none" THEN "ended" ELSE at[v]]
      BY <1>3 DEF Exit
    <3> QED
      BY <1>3, <3>1, <3>2
  <2> QED
    BY <1>1, <1>3, <2>1 DEF Children
<1> QED
  BY <1>2, <1>3

LEMMA NextKeepsCount == CInv /\ CountOK /\ [Next]_svars => CountOK'
<1> SUFFICES ASSUME CInv, CountOK, [Next]_svars PROVE CountOK'
  OBVIOUS
<1>0. program' = program
  BY ChosenOnce DEF chosen
<1> SUFFICES ASSUME Architecture = "fork" PROVE CountOK'
  BY <1>0, SameProgram DEF CountOK
<1>1. at \in [Worker -> Places] /\ "main" \in Worker /\ Client \subseteq Worker /\ "main" \notin Client
  BY Processes, ServersAssumption DEF CInv, ControlTypes
<1>2. \A w \in Worker : at[w] \in PlacesOf(w)
  BY DEF CInv, PlacesOK
<1>3. /\ \A p \in Client : PlacesOf(p) = {"none"} \union {"child", "ended", "reaped"} \union Serving
      /\ \A w \in Pool : PlacesOf(w) = {"none"}
      /\ PlacesOf("main") = {"accept", "ended"} \union {"fork", "parent", "wait"}
  BY ServersAssumption DEF PlacesOf
<1>4. ASSUME NEW w \in Worker, NEW c, Exit(w, c), at[w] \notin {"none", "reaped"},
             UNCHANGED <<program, childProcCount>>
      PROVE  CountOK'
  <2>1. /\ Children' = Children
        /\ at'["main"] \notin {"parent", "ended"} => at["main"] \notin {"parent", "ended"} \/ w = "main"
        /\ at'["main"] = "parent" => at["main"] = "parent"
    BY <1>4, ChildrenStay
  <2>2. w = "main" => at'["main"] = "ended"
    BY <1>1, <1>4 DEF Exit
  <2> QED
    BY <1>4, <2>1, <2>2, CountStays
<1>5. ASSUME NEW w \in Worker, Accept(w) PROVE CountOK'
  <2>1. UNCHANGED <<program, childProcCount>> /\ at[w] = "accept" /\ at' = [at EXCEPT ![w] = "fork"]
    BY <1>5 DEF Accept, chosen
  <2>2. "fork" \in Places \ {"none", "reaped", "parent"}
    BY DEF Places, Busy
  <2>3. /\ Children' = Children /\ (at'["main"] = "parent" => at["main"] = "parent")
        /\ at'["main"] \notin {"parent", "ended"} => at["main"] \notin {"parent", "ended"}
    BY <1>1, <2>1, <2>2, ChildrenStay
  <2> QED
    BY <2>1, <2>3, CountStays
<1>6. ASSUME NEW w \in Worker, Receive(w) \/ Send(w) \/ Finish(w) PROVE CountOK'
  <2>1. UNCHANGED <<program, childProcCount>> /\ at[w] \in Serving
    BY <1>6 DEF Receive, Send, Finish, chosen, loop, Serving
  <2>2. at[w] \notin {"none", "reaped", "ended"} /\ w # "main"
    BY <1>2, <1>3, <2>1 DEF Serving
  <2>3. CASE \E x \in Serving : at' = [at EXCEPT ![w] = x]
    <3>1. Serving \subseteq Places \ {"none", "reaped", "parent"}
      BY DEF Places, Busy, Serving
    <3>2. /\ Children' = Children /\ (at'["main"] = "parent" => at["main"] = "parent")
          /\ at'["main"] \notin {"parent", "ended"} => at["main"] \notin {"parent", "ended"}
      BY <2>2, <2>3, <3>1, ChildrenStay
    <3> QED
      BY <2>1, <3>2, CountStays
  <2>4. CASE \E c : Exit(w, c)
    BY <1>4, <2>1, <2>2, <2>4
  <2> QED
    BY <1>6, <2>3, <2>4, SessionSteps
<1>7. CASE Fork
  <2>1. PICK p \in Client : p = sock["main"]
    <3>1. sock["main"] \in fds["main"] /\ fds["main"] \subseteq Client
      BY <1>1, <1>7 DEF Fork, CInv, ControlTypes, WorkersOK, Process, Busy
    <3> QED
      BY <3>1
  <2>2. /\ UNCHANGED <<program, childProcCount>> /\ at["main"] = "fork"
        /\ at' = [at EXCEPT !["main"] = "parent", ![p] = "child"]
    BY <1>7, <2>1 DEF Fork, chosen, loop
  <2>3. at[p] = "none"
    BY <2>1, <2>2 DEF CInv, WorkersOK
  <2>4. Children' = Children \union {p} /\ p \notin Children
    BY <1>1, <2>2, <2>3 DEF Children
  <2>5. /\ IsFiniteSet(Children) /\ childProcCount \in Nat
        /\ childProcCount = Cardinality(Children)
    BY <2>2 DEF CountOK
  <2>6. IsFiniteSet(Children') /\ Cardinality(Children') = Cardinality(Children) + 1
    BY <2>4, <2>5, FS_AddElement
  <2>7. at'["main"] = "parent"
    BY <1>1, <2>2
  <2> QED
    BY <2>2, <2>5, <2>6, <2>7 DEF CountOK
<1>8. CASE ParentCloses
  <2>1. /\ program' = program /\ childProcCount' = childProcCount + 1
        /\ at["main"] = "parent" /\ at' = [at EXCEPT !["main"] = "wait"]
    BY <1>8 DEF ParentCloses, chosen
  <2>2. Children' = Children /\ at'["main"] = "wait"
    BY <1>1, <2>1 DEF Children
  <2>3. /\ IsFiniteSet(Children) /\ childProcCount \in Nat
        /\ childProcCount + 1 = Cardinality(Children)
    BY <2>1 DEF CountOK
  <2>4. childProcCount + 1 \in Nat
    BY <2>3
  <2> QED
    BY <2>1, <2>2, <2>3, <2>4 DEF CountOK
<1>9. CASE Wait
  <2>1. program' = program /\ at["main"] = "wait"
    BY <1>9 DEF Wait, chosen
  <2>2. /\ IsFiniteSet(Children) /\ childProcCount \in Nat
        /\ childProcCount = Cardinality(Children)
    BY <2>1 DEF CountOK
  <2>3. ~(childProcCount > 0 /\ Children = {})
    BY <2>2, FS_EmptySet
  <2>4. CASE UNCHANGED childProcCount /\ at' = [at EXCEPT !["main"] = "accept"]
    <3>1. Children' = Children /\ at'["main"] = "accept"
      BY <1>1, <2>4 DEF Children
    <3> QED
      BY <2>1, <2>4, <3>1, CountStays
  <2>5. CASE /\ childProcCount # 0 /\ childProcCount' = childProcCount - 1
             /\ \E p \in Zombies : at' = [at EXCEPT ![p] = "reaped"]
    <3>1. PICK p \in Client : at[p] = "ended" /\ at' = [at EXCEPT ![p] = "reaped"]
      BY <2>5 DEF Zombies
    <3>2. Children' = Children \ {p} /\ p \in Children /\ at'["main"] = "wait"
      BY <1>1, <2>1, <3>1 DEF Children
    <3>3. IsFiniteSet(Children') /\ Cardinality(Children') = Cardinality(Children) - 1
      BY <2>2, <3>2, FS_RemoveElement
    <3>4. childProcCount - 1 \in Nat
      BY <2>2, <2>5
    <3> QED
      BY <2>2, <2>5, <3>2, <3>3, <3>4 DEF CountOK
  <2> QED
    BY <1>9, <2>3, <2>4, <2>5 DEF Wait
<1>10. ASSUME Select \/ ShutDown \/ CreateThread PROVE CountOK'
  <2>1. at["main"] \in {"select", "create"}
    BY <1>10 DEF Select, ShutDown, CreateThread
  <2> QED
    BY <1>1, <1>2, <1>3, <2>1
<1>11. ASSUME NEW p \in Client, ChildBegins(p) \/ Start(p) PROVE CountOK'
  <2>1. /\ UNCHANGED <<program, childProcCount>> /\ at[p] \in {"child", "start"}
        /\ at' = [at EXCEPT ![p] = "receive"] /\ p \in Worker
    BY <1>1, <1>11 DEF ChildBegins, Start, chosen, loop
  <2>2. "receive" \in Places \ {"none", "reaped", "parent"}
    BY DEF Places, Busy, Serving
  <2>3. /\ Children' = Children /\ (at'["main"] = "parent" => at["main"] = "parent")
        /\ at'["main"] \notin {"parent", "ended"} => at["main"] \notin {"parent", "ended"}
    BY <1>1, <2>1, <2>2, ChildrenStay
  <2> QED
    BY <2>1, <2>3, CountStays
<1>12. ASSUME NEW w \in Worker, Stops(w) PROVE CountOK'
  <2>1. UNCHANGED <<program, childProcCount>> /\ Exit(w, conn) /\ at[w] \notin {"none", "reaped"}
    BY <1>12 DEF Stops, Interrupt, CallFails, chosen, loop
  <2> QED
    BY <1>4, <2>1
<1>13. CASE (\E p \in Client : Connect(p) \/ SendWord(p) \/ Read(p) \/ Killed(p)) \/ HitReturn \/ UNCHANGED svars
  <2>1. UNCHANGED <<program, childProcCount, at>>
    BY <1>13 DEF Connect, SendWord, Read, Killed, HitReturn, svars, chosen, loop, workers
  <2> QED
    BY <2>1, CountStays DEF Children
<1> QED
  BY <1>5, <1>6, <1>7, <1>8, <1>9, <1>10, <1>11, <1>12, <1>13 DEF Next, Stops, ServerStep, Serve, MainStep

LEMMA InitCount == Init => CountOK
<1> SUFFICES ASSUME Init, Architecture = "fork" PROVE CountOK
  BY DEF CountOK
<1>1. \A p \in Client : at[p] = "none"
  BY Processes, ServersAssumption DEF Init
<1>2. Children = {} /\ childProcCount = 0
  BY <1>1 DEF Init, Children
<1>3. at["main"] = "accept"
  BY Processes DEF Init
<1> QED
  BY <1>2, <1>3, FS_EmptySet DEF CountOK

\* childProcCount is the number of children that waitpid() has not returned, so that it
\* never fails.
THEOREM ChildrenAreCounted == Spec => []CountsItsChildren
<1>1. CountOK => CountsItsChildren
  BY DEF CountOK, CountsItsChildren
<1> QED
  BY <1>1, ControlHolds, InitCount, NextKeepsCount, PTL DEF Spec

-----------------------------------------------------------------------------
(* Whose connections the processes hold. *)

\* But for fork(), a connection is of one process.
OneProcess ==
  Architecture # "fork" =>
    \A P, Q \in Worker : \A p \in Client : p \in fds[P] /\ p \in fds[Q] => P = Q

\* The worker has no session and will have none with the connection in its sock.
Past(w) == at[w] \notin Busy /\ (Architecture = "thread" => at[w] = "ended")

\* What a worker has accepted is not accepted again, nor held when the session is over.
PastOK ==
  \A w \in Worker :
    sock[w] \in Client =>
      /\ status[sock[w]] # "start" /\ ~Queued(sock[w])
      /\ Architecture # "fork" /\ Past(w) => \A v \in Worker : sock[w] \notin fds[v]

\* Clients come to the ports that the server listens on.
PortsOK == \A q \in 1 .. Ports : q \notin Port => backlog[q] = <<>>

HInv == CInv /\ OneProcess /\ PastOK /\ PortsOK

LEMMA SamePort ==
  ASSUME program' = program
  PROVE  Port' = Port /\ Port \subseteq 1 .. Ports
BY SameProgram, ServersAssumption DEF Port

\* Steps that accept nothing and connect nobody.
LEMMA HoldingShrinks ==
  ASSUME HInv, CInv', program' = program, UNCHANGED sock,
         \A w \in Worker : fds'[w] \subseteq fds[w],
         \A p \in Client : status'[p] = "start" => status[p] = "start",
         backlog' \in {backlog, [q \in 1 .. Ports |-> <<>>]},
         \A w \in Worker : at[w] # "none" /\ Architecture # "fork" /\ Past(w)' =>
                             Past(w) \/ \A v \in Worker : sock[w] \notin fds'[v],
         \A w \in Worker : at[w] = "none" => at'[w] = "none"
  PROVE  HInv'
<1>1. \A p \in Client : Queued(p)' => Queued(p)
  BY QueuesShrink DEF HInv, CInv
<1>2. OneProcess'
  BY SameProgram DEF HInv, OneProcess
<1>3. PastOK'
  <2> SUFFICES ASSUME NEW w \in Worker, sock[w] \in Client
               PROVE  /\ status'[sock[w]] # "start" /\ ~Queued(sock[w])'
                      /\ Architecture # "fork" /\ Past(w)' => \A v \in Worker : sock[w] \notin fds'[v]
    BY SameProgram DEF PastOK
  <2>1. status'[sock[w]] # "start"
    BY DEF HInv, PastOK
  <2>2. PICK p \in Client : p = sock[w]
    OBVIOUS
  <2>3. ~Queued(p)' /\ sock'[w] = p
    BY <1>1, <2>2 DEF HInv, PastOK
  <2>4. ASSUME Architecture # "fork", Past(w)', at[w] = "none" PROVE Past(w)
    BY <2>4, SameProgram DEF Past, Busy, Serving
  <2>5. Architecture # "fork" /\ Past(w)' => \A v \in Worker : sock[w] \notin fds'[v]
    BY <2>4 DEF HInv, PastOK
  <2> QED
    BY <2>1, <2>2, <2>3, <2>5
<1>4. PortsOK'
  BY SamePort DEF HInv, PortsOK
<1> QED
  BY <1>2, <1>3, <1>4 DEF HInv

\* A connection that a busy worker's process lets go is held by nobody.
LEMMA LetGo ==
  ASSUME HInv, Architecture # "fork", NEW w \in Worker, at[w] \in Busy,
         \A v \in Worker : fds'[v] \subseteq fds[v], sock[w] \notin fds'[Process(w)]
  PROVE  \A v \in Worker : sock[w] \notin fds'[v]
<1>1. sock[w] \in fds[Process(w)] /\ Process(w) \in Worker /\ fds \in [Worker -> SUBSET Client]
  BY Processes DEF HInv, CInv, ControlTypes, WorkersOK
<1> QED
  BY <1>1 DEF HInv, OneProcess

LEMMA ExitKeepsH ==
  ASSUME HInv, CInv', program' = program, NEW w \in Worker, NEW c, Exit(w, c), UNCHANGED <<sock, status>>
  PROVE  HInv'
<1> DEFINE P == Process(w)
<1>1. P \in Worker /\ fds \in [Worker -> SUBSET Client]
  BY Processes DEF HInv, CInv, ControlTypes
<1>2. /\ fds' = [fds EXCEPT ![P] = {}] /\ backlog' \in {backlog, [q \in 1 .. Ports |-> <<>>]}
      /\ at' = [v \in Worker |-> IF Process(v) = P /\ at[v] # "none" THEN "ended" ELSE at[v]]
  BY DEF Exit, Descriptors
<1> HIDE DEF P
<1>3. fds'[P] = {} /\ \A v \in Worker : fds'[v] \subseteq fds[v]
  BY <1>1, <1>2
<1>4. ASSUME NEW v \in Worker, at[v] # "none", Architecture # "fork", Past(v)', ~Past(v)
      PROVE  \A u \in Worker : sock[v] \notin fds'[u]
  <2>1. Process(v) = P
    <3>1. Process(v) # P => at'[v] = at[v]
      BY <1>2
    <3> QED
      BY <1>4, <3>1, SameProgram DEF Past
  <2>2. CASE at[v] \in Busy
    BY <1>3, <1>4, <2>1, <2>2, LetGo
  <2>3. CASE at[v] \notin Busy
    <3>1. Architecture = "thread" /\ P = "main"
      BY <1>4, <2>1, <2>3, Processes DEF Past
    <3>2. \A u \in Worker : u # "main" => fds[u] = {}
      BY <1>1, <3>1, Processes DEF HInv, CInv, HoldersOK
    <3> QED
      BY <1>3, <3>1, <3>2
  <2> QED
    BY <2>2, <2>3
<1>5. \A v \in Worker : at[v] = "none" => at'[v] = "none"
  BY <1>2
<1> QED
  BY <1>2, <1>3, <1>4, <1>5, HoldingShrinks

LEMMA AcceptKeepsH ==
  ASSUME HInv, CInv', NEW w \in Worker, Accept(w)
  PROVE  HInv'
<1>1. program' = program /\ UNCHANGED status /\ at[w] = "accept"
  BY DEF Accept, chosen, clients
<1>2. /\ fds \in [Worker -> SUBSET Client] /\ at \in [Worker -> Places]
      /\ sock \in [Worker -> Client \union {"nobody"}]
      /\ backlog \in [1 .. Ports -> Seq(Client)]
  BY DEF HInv, CInv, ControlTypes
<1>3. PICK q \in 1 .. Ports :
        /\ backlog[q] # <<>> /\ backlog' = [backlog EXCEPT ![q] = Tail(@)]
        /\ sock' = [sock EXCEPT ![w] = Head(backlog[q])]
        /\ fds' = [fds EXCEPT ![w] = @ \union {Head(backlog[q])}]
  <2>1. PICK q \in (IF Architecture = "select" THEN ready ELSE Port) :
          /\ backlog[q] # <<>> /\ backlog' = [backlog EXCEPT ![q] = Tail(@)]
          /\ sock' = [sock EXCEPT ![w] = Head(backlog[q])]
          /\ fds' = [fds EXCEPT ![w] = @ \union {Head(backlog[q])}]
    BY DEF Accept
  <2>2. q \in 1 .. Ports
    BY <2>1, ServersAssumption DEF HInv, CInv, ReadyOK, Port
  <2> QED
    BY <2>1, <2>2
<1>4. PICK p \in Client :
        /\ p = Head(backlog[q]) /\ Queued(p)
        /\ \A r \in Client : Queued(r)' => Queued(r) /\ r # p
  BY <1>3, QueueIsTaken DEF HInv, CInv
<1>5. status[p] # "start" /\ \A v \in Worker : p \notin fds[v] /\ p # sock[v]
  BY <1>4 DEF HInv, CInv, FreshOK, PastOK
<1>6. fds'[w] = fds[w] \union {p} /\ \A v \in Worker : v # w => fds'[v] = fds[v]
  BY <1>2, <1>3, <1>4
<1>7. sock'[w] = p /\ \A v \in Worker : v # w => sock'[v] = sock[v]
  BY <1>2, <1>3, <1>4
<1>8. at' = [at EXCEPT ![w] = IF Architecture = "fork" THEN "fork"
                              ELSE IF Architecture = "thread" THEN "create" ELSE "receive"]
  BY DEF Accept
<1>9. at'[w] \in Busy /\ \A v \in Worker : v # w => at'[v] = at[v]
  BY <1>2, <1>8 DEF Busy, Serving
<1>10. OneProcess'
  BY <1>1, <1>5, <1>6, SameProgram DEF HInv, OneProcess
<1>11. PastOK'
  <2> SUFFICES ASSUME NEW v \in Worker, NEW x \in Client, x = sock'[v]
               PROVE  /\ status'[x] # "start" /\ ~Queued(x)'
                      /\ Architecture # "fork" /\ Past(v)' => \A u \in Worker : x \notin fds'[u]
    BY <1>1, SameProgram DEF PastOK
  <2>1. CASE v = w
    BY <1>1, <1>4, <1>5, <1>7, <1>9, <2>1 DEF Past
  <2>2. CASE v # w
    <3>1. sock[v] = x /\ x # p /\ (Past(v)' => Past(v))
      BY <1>1, <1>5, <1>7, <1>9, <2>2, SameProgram DEF Past
    <3> QED
      BY <1>1, <1>4, <1>6, <3>1 DEF HInv, PastOK
  <2> QED
    BY <2>1, <2>2
<1>12. PortsOK'
  BY <1>1, <1>2, <1>3, SamePort DEF HInv, PortsOK
<1> QED
  BY <1>10, <1>11, <1>12 DEF HInv

\* fork() and pthread_create() make a worker for the connection that main() has accepted.
LEMMA MakingKeepsH ==
  ASSUME HInv, CInv', Fork \/ CreateThread
  PROVE  HInv'
<1>1. program' = program /\ UNCHANGED status
  BY DEF Fork, CreateThread, chosen, clients
<1>2. /\ fds \in [Worker -> SUBSET Client] /\ at \in [Worker -> Places] /\ "main" \in Worker
      /\ sock \in [Worker -> Client \union {"nobody"}]
      /\ at["main"] \in PlacesOf("main") /\ "main" \notin Client /\ "main" \notin Pool
  BY Processes, ServersAssumption DEF HInv, CInv, ControlTypes, PlacesOK
<1>3. PICK p \in Client : p = sock["main"]
  <2>1. sock["main"] \in fds["main"]
    BY <1>2, Processes DEF Fork, CreateThread, HInv, CInv, WorkersOK, Process, Busy
  <2> QED
    BY <1>2, <2>1
<1>4. p \in Worker /\ status[p] # "start" /\ ~Queued(p) /\ at[p] = "none"
  <2>1. at["main"] \in {"fork", "create"}
    BY DEF Fork, CreateThread
  <2> QED
    BY <1>2, <1>3, <2>1, Processes DEF HInv, CInv, WorkersOK, PastOK
<1>5. CASE sock' = [sock EXCEPT ![p] = p] /\ UNCHANGED backlog /\ (Architecture = "fork" \/ UNCHANGED fds)
           /\ at'[p] \in Busy /\ (\A w \in Worker \ {p, "main"} : at'[w] = at[w])
           /\ (Architecture = "fork" \/ (Architecture = "thread" /\ at'["main"] = "accept"))
  <2>1. sock'[p] = p /\ \A w \in Worker : w # p => sock'[w] = sock[w]
    BY <1>2, <1>4, <1>5
  <2>2. \A r \in Client : Queued(r)' <=> Queued(r)
    BY <1>5 DEF Queued
  <2>3. OneProcess'
    BY <1>1, <1>5, SameProgram DEF HInv, OneProcess
  <2>4. PastOK'
    <3> SUFFICES ASSUME NEW w \in Worker, NEW x \in Client, x = sock'[w]
                 PROVE  /\ status'[x] # "start" /\ ~Queued(x)'
                        /\ Architecture # "fork" /\ Past(w)' => \A v \in Worker : x \notin fds'[v]
      BY <1>1, SameProgram DEF PastOK
    <3>1. CASE w = p
      BY <1>1, <1>4, <1>5, <2>1, <2>2, <3>1 DEF Past
    <3>2. CASE w = "main"
      <4>1. x = p /\ status'[x] # "start" /\ ~Queued(x)'
        BY <1>1, <1>2, <1>3, <1>4, <2>1, <2>2, <3>2
      <4>2. Architecture' = Architecture
        BY <1>1, SameProgram
      <4>3. Architecture # "fork" => Architecture = "thread" /\ at'["main"] = "accept"
        BY <1>5
      <4>4. Architecture # "fork" => ~Past(w)'
        BY <3>2, <4>2, <4>3 DEF Past
      <4> QED
        BY <4>1, <4>4
    <3>3. CASE w \notin {p, "main"}
      <4>1. sock[w] = x /\ (Past(w)' => Past(w))
        BY <1>1, <1>5, <2>1, <3>3, SameProgram DEF Past
      <4> QED
        BY <1>1, <1>5, <2>2, <4>1 DEF HInv, PastOK
    <3> QED
      BY <3>1, <3>2, <3>3
  <2>5. PortsOK'
    BY <1>1, <1>5, SamePort DEF HInv, PortsOK
  <2> QED
    BY <2>3, <2>4, <2>5 DEF HInv
<1>6. CASE Fork
  <2>1. /\ at["main"] = "fork" /\ at' = [at EXCEPT !["main"] = "parent", ![p] = "child"]
        /\ sock' = [sock EXCEPT ![p] = p] /\ UNCHANGED backlog
    BY <1>3, <1>6 DEF Fork
  <2>2. Architecture = "fork"
    BY <1>2, <2>1 DEF PlacesOf, Serving
  <2>3. at'[p] \in Busy /\ \A w \in Worker \ {p, "main"} : at'[w] = at[w]
    BY <1>2, <1>4, <2>1 DEF Busy
  <2> QED
    BY <1>5, <2>1, <2>2, <2>3
<1>7. CASE CreateThread
  <2>1. /\ at["main"] = "create"
        /\ \/ /\ sock' = [sock EXCEPT ![p] = p] /\ UNCHANGED <<fds, backlog>>
              /\ at' = [at EXCEPT !["main"] = "accept", ![p] = "start"]
           \/ UNCHANGED sock /\ Exit("main", conn)
           \/ UNCHANGED <<sock, fds, backlog>> /\ at' = [at EXCEPT !["main"] = "accept"]
    BY <1>3, <1>7 DEF CreateThread, kernel
  <2>2. Architecture = "thread"
    BY <1>2, <2>1 DEF PlacesOf, Serving
  <2>3. CASE /\ sock' = [sock EXCEPT ![p] = p] /\ UNCHANGED <<fds, backlog>>
             /\ at' = [at EXCEPT !["main"] = "accept", ![p] = "start"]
    <3>1. /\ at'[p] \in Busy /\ \A w \in Worker \ {p, "main"} : at'[w] = at[w]
          /\ at'["main"] = "accept"
      BY <1>2, <1>4, <2>3 DEF Busy
    <3> QED
      BY <1>5, <2>2, <2>3, <3>1
  <2>4. CASE UNCHANGED sock /\ Exit("main", conn)
    BY <1>1, <1>2, <2>4, ExitKeepsH
  <2>5. CASE UNCHANGED <<sock, fds, backlog>> /\ at' = [at EXCEPT !["main"] = "accept"]
    <3>1. \A w \in Worker : Past(w)' => Past(w)
      BY <1>1, <1>2, <2>2, <2>5, SameProgram DEF Past
    <3>2. \A w \in Worker : at[w] = "none" => at'[w] = "none"
      BY <1>2, <2>1, <2>5
    <3> QED
      BY <1>1, <2>5, <3>1, <3>2, HoldingShrinks
  <2> QED
    BY <2>1, <2>3, <2>4, <2>5
<1> QED
  BY <1>6, <1>7

\* One worker that is there goes on and, if it lets its connection go, is done with it.
LEMMA WorkerKeepsH ==
  ASSUME HInv, CInv', program' = program, NEW w \in Worker, NEW x, at' = [at EXCEPT ![w] = x],
         UNCHANGED <<sock, status>>, backlog' \in {backlog, [q \in 1 .. Ports |-> <<>>]},
         at[w] # "none",
         \/ UNCHANGED fds /\ x # "ended" /\ (at[w] \in Busy => x \in Busy)
         \/ UNCHANGED fds /\ Architecture = "thread" /\ x # "ended"
         \/ at[w] \in Busy /\ fds' = [fds EXCEPT ![Process(w)] = @ \ {sock[w]}]
  PROVE  HInv'
<1>1. fds \in [Worker -> SUBSET Client] /\ at \in [Worker -> Places] /\ Process(w) \in Worker
  BY Processes DEF HInv, CInv, ControlTypes
<1>2. at'[w] = x /\ \A v \in Worker : v # w => at'[v] = at[v]
  BY <1>1
<1>3. \A v \in Worker : fds'[v] \subseteq fds[v]
  BY <1>1
<1>4. ASSUME NEW v \in Worker, Architecture # "fork", Past(v)', ~Past(v)
      PROVE  \A u \in Worker : sock[v] \notin fds'[u]
  <2>1. v = w
    BY <1>2, <1>4, SameProgram DEF Past
  <2>2. CASE at[w] \in Busy /\ fds' = [fds EXCEPT ![Process(w)] = @ \ {sock[w]}]
    <3>1. sock[w] \notin fds'[Process(w)]
      BY <1>1, <2>2
    <3> QED
      BY <1>3, <1>4, <2>1, <2>2, <3>1, LetGo
  <2>3. CASE UNCHANGED fds /\ x # "ended" /\ (at[w] \in Busy => x \in Busy)
    BY <1>2, <1>4, <2>1, <2>3, SameProgram DEF Past
  <2>4. CASE UNCHANGED fds /\ Architecture = "thread" /\ x # "ended"
    BY <1>2, <1>4, <2>1, <2>4, SameProgram DEF Past
  <2> QED
    BY <2>2, <2>3, <2>4
<1>5. \A v \in Worker : at[v] = "none" => at'[v] = "none"
  BY <1>2
<1>6. \A p \in Client : status'[p] = "start" => status[p] = "start"
  OBVIOUS
<1> QED
  BY <1>3, <1>4, <1>5, <1>6, HoldingShrinks

LEMMA SessionKeepsH ==
  ASSUME HInv, CInv', NEW w \in Worker, Receive(w) \/ Send(w) \/ Finish(w)
  PROVE  HInv'
<1>1. UNCHANGED <<program, sock, status>> /\ at[w] \in Serving
  BY DEF Receive, Send, Finish, chosen, clients, Serving
<1>2. at[w] # "none" /\ at[w] \in Busy
  BY <1>1 DEF Busy, Serving
<1>3. CASE \E x \in Serving : at' = [at EXCEPT ![w] = x] /\ UNCHANGED <<fds, backlog>>
  <2>1. PICK x \in Serving : at' = [at EXCEPT ![w] = x] /\ UNCHANGED <<fds, backlog>>
    BY <1>3
  <2>2. x \in Busy /\ x # "ended"
    BY <2>1 DEF Busy, Serving
  <2> QED
    BY <1>1, <1>2, <2>1, <2>2, WorkerKeepsH
<1>4. CASE \E c : Exit(w, c)
  BY <1>1, <1>4, ExitKeepsH
<1>5. CASE /\ Descriptors(conn, [fds EXCEPT ![Process(w)] = @ \ {sock[w]}], listeners)
           /\ \E x : at' = [at EXCEPT ![w] = x]
  <2>1. PICK x : at' = [at EXCEPT ![w] = x]
    BY <1>5
  <2>2. /\ fds' = [fds EXCEPT ![Process(w)] = @ \ {sock[w]}]
        /\ backlog' \in {backlog, [q \in 1 .. Ports |-> <<>>]}
    BY <1>5 DEF Descriptors
  <2> QED
    BY <1>1, <1>2, <2>1, <2>2, WorkerKeepsH
<1> QED
  BY <1>3, <1>4, <1>5, SessionSteps

LEMMA LoopKeepsH ==
  ASSUME HInv, CInv', NEW w \in Worker,
         (w = "main" /\ MainStep) \/ (w \in Client /\ (ChildBegins(w) \/ Start(w)))
  PROVE  HInv'
<1>1. UNCHANGED <<program, status>> /\ "main" \in Worker
  BY Processes DEF MainStep, Select, ShutDown, Fork, ParentCloses, Wait, CreateThread, ChildBegins, Start,
     chosen, clients
<1>2. at["main"] \in PlacesOf("main") /\ "main" \notin Client /\ "main" \notin Pool
  BY Processes, ServersAssumption DEF HInv, CInv, PlacesOK
<1>3. CASE w = "main" /\ Select
  <2>1. UNCHANGED <<sock, fds, backlog>> /\ at["main"] = "select"
    BY <1>3 DEF Select, kernel
  <2>2. PICK x \in {"select", "accept"} : at' = [at EXCEPT !["main"] = x]
    BY <1>3 DEF Select
  <2>3. at["main"] # "none" /\ at["main"] \notin Busy /\ x # "ended"
    BY <2>1, <2>2 DEF Busy, Serving
  <2> QED
    BY <1>1, <2>1, <2>2, <2>3, WorkerKeepsH
<1>4. CASE w = "main" /\ ShutDown
  <2>1. UNCHANGED sock /\ Exit("main", conn)
    BY <1>4 DEF ShutDown
  <2> QED
    BY <1>1, <2>1, ExitKeepsH
<1>5. CASE w = "main" /\ ParentCloses
  <2>1. /\ at["main"] = "parent" /\ UNCHANGED sock
        /\ at' = [at EXCEPT !["main"] = "wait"]
        /\ fds' = [fds EXCEPT !["main"] = @ \ {sock["main"]}]
        /\ backlog' \in {backlog, [q \in 1 .. Ports |-> <<>>]}
    BY <1>5 DEF ParentCloses, Descriptors
  <2>2. Process("main") = "main" /\ at["main"] \in Busy /\ at["main"] # "none"
    BY <2>1 DEF Process, Busy
  <2> QED
    BY <1>1, <2>1, <2>2, WorkerKeepsH
<1>6. CASE w = "main" /\ Wait
  <2>1. /\ at["main"] = "wait" /\ UNCHANGED sock
        /\ \/ Exit("main", conn)
           \/ UNCHANGED <<fds, backlog>> /\ at' = [at EXCEPT !["main"] = "accept"]
           \/ UNCHANGED <<fds, backlog>> /\ \E p \in Zombies : at' = [at EXCEPT ![p] = "reaped"]
    BY <1>6 DEF Wait, kernel
  <2>2. at["main"] # "none" /\ at["main"] \notin Busy /\ "ended" \notin Busy
    BY <2>1 DEF Busy, Serving
  <2>3. CASE Exit("main", conn)
    BY <1>1, <2>1, <2>3, ExitKeepsH
  <2>4. CASE UNCHANGED <<fds, backlog>> /\ at' = [at EXCEPT !["main"] = "accept"]
    BY <1>1, <2>1, <2>2, <2>4, WorkerKeepsH
  <2>5. CASE UNCHANGED <<fds, backlog>> /\ \E p \in Zombies : at' = [at EXCEPT ![p] = "reaped"]
    <3>1. PICK p \in Client : at[p] = "ended" /\ at' = [at EXCEPT ![p] = "reaped"]
      BY <2>5 DEF Zombies
    <3>2. p \in Worker /\ at[p] # "none" /\ at[p] \notin Busy
      BY <2>2, <3>1, Processes
    <3> QED
      BY <1>1, <2>1, <2>5, <3>1, <3>2, WorkerKeepsH
  <2> QED
    BY <2>1, <2>3, <2>4, <2>5
<1>7. CASE w \in Client /\ (ChildBegins(w) \/ Start(w))
  <2>1. /\ UNCHANGED <<sock, fds>> /\ at[w] \in {"child", "start"}
        /\ backlog' \in {backlog, [q \in 1 .. Ports |-> <<>>]}
        /\ at' = [at EXCEPT ![w] = "receive"]
    BY <1>7 DEF ChildBegins, Start, Descriptors, kernel
  <2>2. at[w] # "none" /\ "receive" \in Busy
    BY <2>1 DEF Busy, Serving
  <2> QED
    BY <1>1, <2>1, <2>2, WorkerKeepsH
<1> QED
  BY <1>3, <1>4, <1>5, <1>6, <1>7, MakingKeepsH DEF MainStep

LEMMA ClientKeepsH ==
  ASSUME HInv, CInv', NEW p \in Client, Connect(p) \/ SendWord(p) \/ Read(p) \/ Killed(p)
  PROVE  HInv'
<1>1. UNCHANGED <<program, at, sock, fds>>
  BY DEF Connect, SendWord, Read, Killed, chosen, workers
<1>2. CASE Connect(p)
  <2>1. status[p] = "start"
    BY <1>2 DEF Connect
  <2>2. DOMAIN status = Client /\ backlog \in [1 .. Ports -> Seq(Client)]
    BY DEF HInv, CInv, ControlTypes
  <2>3. \A r \in Client : r # p => status'[r] = status[r]
    BY <1>2, <2>2 DEF Connect
  <2>4. UNCHANGED backlog \/ \E q \in Port : backlog' = [backlog EXCEPT ![q] = Append(@, p)]
    BY <1>2 DEF Connect
  <2>5. PortsOK' /\ \A r \in Client : r # p /\ Queued(r)' => Queued(r)
    <3>1. CASE UNCHANGED backlog
      BY <1>1, <3>1, SamePort DEF HInv, PortsOK, Queued
    <3>2. CASE \E q \in Port : backlog' = [backlog EXCEPT ![q] = Append(@, p)]
      <4>1. PICK q \in Port : backlog' = [backlog EXCEPT ![q] = Append(@, p)]
        BY <3>2
      <4>2. q \in 1 .. Ports /\ backlog[q] \in Seq(Client)
        BY <1>1, <2>2, SamePort
      <4>3. \A k \in DOMAIN Append(backlog[q], p) :
              \/ k \in DOMAIN backlog[q] /\ Append(backlog[q], p)[k] = backlog[q][k]
              \/ k = Len(backlog[q]) + 1 /\ Append(backlog[q], p)[k] = p
        BY <4>2, AppendPlaces
      <4>4. /\ backlog'[q] = Append(backlog[q], p)
            /\ \A r \in 1 .. Ports : r # q => backlog'[r] = backlog[r]
        BY <2>2, <4>1, <4>2
      <4>5. PortsOK'
        BY <1>1, <4>1, <4>4, SamePort DEF HInv, PortsOK
      <4>6. ASSUME NEW r \in Client, r # p, Queued(r)' PROVE Queued(r)
        BY <4>3, <4>4, <4>6 DEF Queued
      <4> QED
        BY <4>5, <4>6
    <3> QED
      BY <2>4, <3>1, <3>2
  <2>6. OneProcess'
    BY <1>1, SameProgram DEF HInv, OneProcess
  <2>7. PastOK'
    <3> SUFFICES ASSUME NEW w \in Worker, NEW x \in Client, x = sock[w]
                 PROVE  /\ status'[x] # "start" /\ ~Queued(x)'
                        /\ Architecture # "fork" /\ Past(w)' => \A v \in Worker : x \notin fds[v]
      BY <1>1, SameProgram DEF PastOK
    <3>1. x # p
      BY <2>1 DEF HInv, PastOK
    <3>2. Past(w)' => Past(w)
      BY <1>1, SameProgram DEF Past
    <3> QED
      BY <2>3, <2>5, <3>1, <3>2 DEF HInv, PastOK
  <2> QED
    BY <2>5, <2>6, <2>7 DEF HInv
<1>3. CASE SendWord(p) \/ Read(p) \/ Killed(p)
  <2>1. UNCHANGED backlog
    BY <1>3 DEF SendWord, Read, Killed
  <2>2. status' = status \/ \E x \in Outcomes \union {"reading"} : status' = [status EXCEPT ![p] = x]
    <3>1. CASE SendWord(p)
      BY <3>1 DEF SendWord, End, Outcomes
    <3>2. CASE Read(p)
      BY <3>2 DEF Read, End, Outcomes, AtEndOfFile
    <3>3. CASE Killed(p)
      BY <3>3 DEF Killed, End, Outcomes
    <3> QED
      BY <1>3, <3>1, <3>2, <3>3
  <2>3. \A r \in Client : status'[r] = "start" => status[r] = "start"
    BY <2>2 DEF HInv, CInv, ControlTypes, Outcomes
  <2>4. \A w \in Worker : Past(w)' => Past(w)
    BY <1>1, SameProgram DEF Past
  <2> QED
    BY <1>1, <2>1, <2>3, <2>4, HoldingShrinks
<1> QED
  BY <1>2, <1>3

LEMMA NextKeepsH == HInv /\ [Next]_svars => HInv'
<1> SUFFICES ASSUME HInv, [Next]_svars PROVE HInv'
  OBVIOUS
<1>1. CInv'
  BY NextKeepsC DEF HInv
<1>2. ASSUME NEW w \in Worker, ServerStep(w) PROVE HInv'
  BY <1>1, <1>2, AcceptKeepsH, SessionKeepsH, LoopKeepsH DEF ServerStep, Serve
<1>3. ASSUME NEW w \in Worker, Stops(w) PROVE HInv'
  <2>1. UNCHANGED <<program, sock, status>> /\ Exit(w, conn)
    BY <1>3 DEF Stops, Interrupt, CallFails, chosen, clients
  <2> QED
    BY <1>1, <2>1, ExitKeepsH
<1>4. ASSUME NEW p \in Client, Connect(p) \/ SendWord(p) \/ Read(p) \/ Killed(p) PROVE HInv'
  BY <1>1, <1>4, ClientKeepsH
<1>5. CASE HitReturn \/ UNCHANGED svars
  <2>1. UNCHANGED <<program, at, sock, fds, backlog, status>>
    BY <1>5 DEF HitReturn, svars, chosen, kernel, workers, clients
  <2>2. \A w \in Worker : Past(w)' => Past(w)
    BY <2>1, SameProgram DEF Past
  <2> QED
    BY <1>1, <2>1, <2>2, HoldingShrinks
<1> QED
  BY <1>2, <1>3, <1>4, <1>5 DEF Next, Stops

LEMMA InitH == Init => HInv
<1> SUFFICES ASSUME Init PROVE HInv
  OBVIOUS
<1>1. \A w \in Worker : fds[w] = {} /\ sock[w] = "nobody"
  BY DEF Init
<1>2. \A w \in Worker : sock[w] \notin Client
  BY <1>1, ServersAssumption
<1>3. PortsOK
  BY DEF Init, PortsOK
<1>4. OneProcess
  BY <1>1 DEF OneProcess
<1>5. PastOK
  BY <1>2 DEF PastOK
<1> QED
  BY <1>3, <1>4, <1>5, InitC DEF HInv

-----------------------------------------------------------------------------
(* The streams. *)

\* What the streams carry.
Byte == Nat \union Client

Shaped(c) == DOMAIN c = Ends /\ \A e \in Ends : DOMAIN c[e] = {"data", "end"}

\* The worker that reads from p and writes to it, and what it has read and not answered.
Serves(w, p) == sock[w] = p /\ at[w] \in Serving
Held(p) == IF \E w \in Worker : Serves(w, p) THEN buf[CHOOSE w \in Worker : Serves(w, p)] ELSE <<>>

\* Some worker is at X with p's socket.
Worked(p, X) == \E w \in Worker : sock[w] = p /\ at[w] \in X

\* The server has, or will have, a socket for p.
Kept(p) == Queued(p) \/ \E P \in Worker : p \in fds[P]

\* What is chosen at the start is what may be chosen; what the streams are.
ChosenOK ==
  /\ threadLimit \in Nat
  /\ Kind = "vote" => build \in Builds /\ ballot \in [Client -> Commands]

StreamTypes == DOMAIN conn = Client /\ DOMAIN got = Client /\ DOMAIN buf = Worker

\* What is in a worker's buffer where.
BufOK(w) ==
  /\ Kind # "vote" => buf[w] \in Seq(Byte)
  /\ at[w] \notin Serving \union {"ended", "reaped"} => buf[w] = <<>>
  /\ at[w] = "receive" /\ Kind # "plus one" => buf[w] = <<>>
  /\ at[w] = "send" /\ Kind = "echo" => buf[w] # <<>>
  /\ Kind = "plus one" =>
       /\ at[w] = "receive" => Len(buf[w]) < 2
       /\ at[w] = "send" => Len(buf[w]) = 2

\* A connection is open at the server as long as a process holds it or will accept it.
OpenOK(p) ==
  /\ IsOpen(conn[p], "server") <=> Kept(p)
  /\ ~IsOpen(conn[p], "server") => conn[p]["client"].data = <<>>

\* What p's streams are, where p is, and where its end of the connection.
ClientOK(p) ==
  /\ Shaped(conn[p]) /\ conn[p]["client"].data \in Seq(Byte)
  /\ Kind # "vote" => got[p] \in Seq(Byte) /\ conn[p]["server"].data \in Seq(Byte)
  /\ status[p] \in {"start", "refused"} => conn[p] = Idle
  /\ status[p] \in {"start", "refused", "connected"} => got[p] = <<>>
  /\ status[p] \in {"connected", "reading"} <=> IsOpen(conn[p], "client")
  /\ status[p] = "connected" => conn[p]["client"].data = <<>> /\ conn[p]["server"].data = <<>>

\* The server is still to send to p, if it sends once.
ToSend == {"create", "start", "send"} \union IF Kind = "vote" THEN {} ELSE {"receive"}
Unsent(p) ==
  \/ Queued(p) \/ status[p] = "connected" \/ conn[p]["client"].data # <<>>
  \/ Worked(p, ToSend)

\* Before the one answer nothing was sent, so that a client that has closed has left no
\* reset behind; and when it is sent all that the client had to say is read.
OnceOK(p) ==
  Kind # "echo" =>
    /\ Unsent(p) => /\ conn[p]["server"].data = <<>> /\ got[p] = <<>>
                    /\ conn[p]["client"].end \in {"open", "fin"}
    /\ Worked(p, {"send", "close"}) => conn[p]["client"].data = <<>> /\ status[p] # "connected"

\* PlusOneServer: what it has read of the number and what is under way.
PlusOK(p) ==
  Kind = "plus one" /\ (Queued(p) \/ Worked(p, {"receive", "send"})) =>
    /\ Held(p) \o conn[p]["client"].data \in {<<>>, Word[p]}
    /\ status[p] = "reading" => Held(p) \o conn[p]["client"].data = Word[p]
    /\ status[p] = "connected" => Held(p) = <<>>

\* Nothing of the session has been lost with a child of TCPEchoServer-Fork.
Lively(p) == IsOpen(conn[p], "server") /\ at[p] # "ended"

\* The echo servers: a word is whole as long as client and server are there.
EchoOK(p) ==
  Kind = "echo" =>
    /\ status[p] = "connected" => Held(p) = <<>>
    /\ Worked(p, {"close"}) => ~IsOpen(conn[p], "client")
    /\ Lively(p) /\ status[p] = "reading" =>
         got[p] \o conn[p]["server"].data \o Held(p) \o conn[p]["client"].data = Word[p]

\* A client that was not killed has left nothing behind.
EndOK(p) ==
  Kind = "echo" /\ Architecture # "fork" /\ IsOpen(conn[p], "server") /\ Ended(p) =>
    \/ status[p] = "killed"
    \/ /\ conn[p]["client"].data = <<>> /\ conn[p]["client"].end = "fin"
       /\ conn[p]["server"].data = <<>> /\ Held(p) = <<>>

Answer(p) ==
  CASE Kind = "echo" -> Word[p]
    [] Kind = "plus one" -> PlusOne(Word[p])
    [] Kind = "endpoint" -> <<p>>
    [] OTHER -> <<18>>

\* What p has read, and what is under way to it, is the beginning of its answer.
AnswerOK(p) ==
  Kind # "vote" =>
    /\ status[p] = "reading" => \E t \in Seq(Byte) : (got[p] \o conn[p]["server"].data) \o t = Answer(p)
    /\ status[p] = "answered" => got[p] = Answer(p) \/ (Kind \in {"endpoint", "note"} /\ got[p] = <<>>)

PInv(p) == OpenOK(p) /\ ClientOK(p) /\ OnceOK(p) /\ PlusOK(p) /\ EchoOK(p) /\ EndOK(p) /\ AnswerOK(p)

StreamsOK == StreamTypes /\ (\A w \in Worker : BufOK(w)) /\ (\A p \in Client : PInv(p))

SInv == ChosenOK /\ StreamsOK

-----------------------------------------------------------------------------
(* Sequences, and what the operators of Tcp do to a connection. *)

\* The place of the brackets, as a predicate of the three parts.
Regroups(a, b, c) == (a \o b) \o c = a \o (b \o c)

LEMMA BytesRegroup ==
  ASSUME NEW a \in Seq(Byte), NEW b \in Seq(Byte), NEW c \in Seq(Byte)
  PROVE  Regroups(a, b, c)
BY ConcatAssociative DEF Regroups

LEMMA BytesJoin ==
  ASSUME NEW a \in Seq(Byte), NEW b \in Seq(Byte)
  PROVE  a \o b \in Seq(Byte)
BY ConcatProperties

LEMMA CutInTwo ==
  ASSUME NEW S, NEW s \in Seq(S), NEW k \in 0 .. Len(s)
  PROVE  /\ SubSeq(s, 1, k) \in Seq(S) /\ SubSeq(s, k + 1, Len(s)) \in Seq(S)
         /\ Len(SubSeq(s, 1, k)) = k /\ Len(SubSeq(s, k + 1, Len(s))) = Len(s) - k
         /\ SubSeq(s, 1, k) \o SubSeq(s, k + 1, Len(s)) = s
<1>1. Len(s) \in Nat /\ \A i \in 1 .. Len(s) : s[i] \in S
  BY LenProperties, ElementOfSeq
<1>2. SubSeq(s, 1, k) \in Seq(S) /\ Len(SubSeq(s, 1, k)) = k
  BY <1>1, SubSeqProperties
<1>3. SubSeq(s, k + 1, Len(s)) \in Seq(S) /\ Len(SubSeq(s, k + 1, Len(s))) = Len(s) - k
  BY <1>1, SubSeqProperties
<1>4. SubSeq(s, 1, k) \o SubSeq(s, k + 1, Len(s)) = s
  <2>1. 1 \in 1 .. Len(s) + 1 /\ k \in 1 - 1 .. Len(s) /\ Len(s) \in k .. Len(s)
    BY <1>1
  <2>2. SubSeq(s, 1, k) \o SubSeq(s, k + 1, Len(s)) = SubSeq(s, 1, Len(s))
    BY <2>1, ConcatAdjacentSubSeq
  <2> QED
    BY <2>2, SubSeqFull
<1> QED
  BY <1>2, <1>3, <1>4

\* A sequence that another one is the beginning of, and is as long.
LEMMA WholeOfIt ==
  ASSUME NEW S, NEW s \in Seq(S), NEW t \in Seq(S), Len(s \o t) <= Len(s)
  PROVE  t = <<>> /\ s \o t = s
<1>1. Len(s) \in Nat /\ Len(t) \in Nat /\ Len(s \o t) = Len(s) + Len(t)
  BY LenProperties, ConcatProperties
<1>2. Len(t) = 0
  BY <1>1
<1>3. t = <<>>
  BY <1>2, EmptySeq
<1> QED
  BY <1>3, ConcatEmptySeq

LEMMA SetDataShape ==
  ASSUME NEW c, Shaped(c), NEW e \in Ends, NEW s
  PROVE  /\ Shaped(SetData(c, e, s)) /\ SetData(c, e, s)[Peer(e)] = c[Peer(e)]
         /\ SetData(c, e, s)[e].data = s /\ SetData(c, e, s)[e].end = c[e].end
BY PeerIsOther DEF Shaped, SetData

LEMMA SetEndShape ==
  ASSUME NEW c, Shaped(c), NEW e \in Ends, NEW x
  PROVE  /\ Shaped(SetEnd(c, e, x)) /\ SetEnd(c, e, x)[Peer(e)] = c[Peer(e)]
         /\ SetEnd(c, e, x)[e].data = c[e].data /\ SetEnd(c, e, x)[e].end = x
BY PeerIsOther DEF Shaped, SetEnd

LEMMA ClosedShape ==
  ASSUME NEW c, Shaped(c), NEW e \in Ends, NEW how
  PROVE  /\ Shaped(Closed(c, e, how))
         /\ Closed(c, e, how)[Peer(e)].data = <<>> /\ Closed(c, e, how)[Peer(e)].end = c[Peer(e)].end
         /\ Closed(c, e, how)[e].data = c[e].data
         /\ Closed(c, e, how)[e].end = IF c[Peer(e)].data # <<>> THEN how ELSE "fin"
<1> DEFINE p == Peer(e)
           b == SetData(c, p, <<>>)
           x == IF HasData(c, e) THEN how ELSE "fin"
<1>1. p \in Ends /\ Peer(p) = e /\ p # e
  BY PeerIsOther
<1>2. Closed(c, e, how) = SetEnd(b, e, x)
  BY DEF Closed
<1>3. x = IF c[p].data # <<>> THEN how ELSE "fin"
  BY DEF HasData
<1> HIDE DEF p, x
<1>4. Shaped(b) /\ b[Peer(p)] = c[Peer(p)] /\ b[p].data = <<>> /\ b[p].end = c[p].end
  BY <1>1, SetDataShape
<1> HIDE DEF b
<1>5. /\ Shaped(SetEnd(b, e, x)) /\ SetEnd(b, e, x)[Peer(e)] = b[Peer(e)]
      /\ SetEnd(b, e, x)[e].data = b[e].data /\ SetEnd(b, e, x)[e].end = x
  BY <1>4, SetEndShape
<1> QED
  BY <1>1, <1>2, <1>3, <1>4, <1>5 DEF p

\* d is c after its end e was closed.
Shut(c, d, e) ==
  /\ Shaped(d) /\ d[e].end \in {"fin", "rst", "finrst"}
  /\ d[Peer(e)].data = <<>> /\ d[Peer(e)].end = c[Peer(e)].end
  /\ d[e].data = c[e].data \/ \E k \in 0 .. Len(c[e].data) : d[e].data = SubSeq(c[e].data, 1, k)

LEMMA ClosingShape ==
  ASSUME NEW c, Shaped(c), NEW e \in Ends, NEW d \in Closings(c, e)
  PROVE  /\ Shut(c, d, e)
         /\ c[Peer(e)].data = <<>> => d[e].data = c[e].data /\ d[e].end = "fin"
<1>1. \/ d = Closed(c, e, "finrst")
      \/ /\ c[Peer(e)].data # <<>>
         /\ \E k \in 0 .. Len(c[e].data) : d = SetData(Closed(c, e, "rst"), e, SubSeq(c[e].data, 1, k))
  BY DEF Closings, HasData
<1>2. CASE d = Closed(c, e, "finrst")
  BY <1>2, ClosedShape DEF Shut
<1>3. CASE /\ c[Peer(e)].data # <<>>
           /\ \E k \in 0 .. Len(c[e].data) : d = SetData(Closed(c, e, "rst"), e, SubSeq(c[e].data, 1, k))
  <2> DEFINE b == Closed(c, e, "rst")
  <2>1. PICK k \in 0 .. Len(c[e].data) : d = SetData(b, e, SubSeq(c[e].data, 1, k))
    BY <1>3
  <2>2. /\ Shaped(b) /\ b[Peer(e)].data = <<>> /\ b[Peer(e)].end = c[Peer(e)].end
        /\ b[e].end = "rst"
    BY <1>3, ClosedShape
  <2> HIDE DEF b
  <2> DEFINE t == SubSeq(c[e].data, 1, k)
  <2>3. d = SetData(b, e, t)
    BY <2>1
  <2>4. t = SubSeq(c[e].data, 1, k)
    OBVIOUS
  <2> HIDE DEF t
  <2>5. /\ Shaped(d) /\ d[Peer(e)] = b[Peer(e)] /\ d[e].data = t /\ d[e].end = b[e].end
    BY <2>2, <2>3, SetDataShape
  <2> QED
    BY <1>3, <2>2, <2>4, <2>5 DEF Shut
<1> QED
  BY <1>1, <1>2, <1>3

LEMMA AbortedShape ==
  ASSUME NEW c, Shaped(c)
  PROVE  Shut(c, Aborted(c, "server"), "server")
<1> DEFINE b == SetData(c, "client", <<>>)
<1>1. "client" \in Ends /\ "server" \in Ends /\ Peer("client") = "server" /\ Peer("server") = "client"
  BY DEF Ends, Peer
<1>2. Aborted(c, "server") = SetEnd(b, "server", "rst")
  BY <1>1 DEF Aborted
<1>3. Shaped(b) /\ b["server"] = c["server"] /\ b["client"].data = <<>> /\ b["client"].end = c["client"].end
  BY <1>1, SetDataShape
<1> HIDE DEF b
<1>4. /\ Shaped(SetEnd(b, "server", "rst")) /\ SetEnd(b, "server", "rst")["client"] = b["client"]
      /\ SetEnd(b, "server", "rst")["server"].data = b["server"].data
      /\ SetEnd(b, "server", "rst")["server"].end = "rst"
  BY <1>1, <1>3, SetEndShape
<1> QED
  BY <1>1, <1>2, <1>3, <1>4 DEF Shut

-----------------------------------------------------------------------------
(* The session of a client. *)

LEMMA EndsAre == "client" \in Ends /\ "server" \in Ends /\ Peer("client") = "server" /\ Peer("server") = "client"
BY DEF Ends, Peer

\* No two workers serve a client.
LEMMA OneServer ==
  ASSUME HInv, NEW p \in Client, NEW v \in Worker, NEW w \in Worker, Serves(v, p), Serves(w, p)
  PROVE  v = w
<1>1. /\ sock[v] = p /\ sock[w] = p /\ at[v] \in Busy /\ at[w] \in Busy
      /\ p \in fds[Process(v)] /\ p \in fds[Process(w)] /\ Process(v) \in Worker /\ Process(w) \in Worker
      /\ Handles(v, p) /\ Handles(w, p)
  BY Processes DEF Serves, Busy, Serving, Handles, HInv, CInv, WorkersOK
<1>2. CASE Architecture # "fork"
  <2>1. Process(v) = Process(w)
    BY <1>1, <1>2 DEF HInv, OneProcess
  <2> QED
    BY <1>1, <2>1, OneHandler DEF HInv
<1>3. CASE Architecture = "fork"
  <2>1. \A u \in {v, w} : u \in Client
    BY <1>3, ServersAssumption DEF Serves, Serving, HInv, CInv, PlacesOK, PlacesOf, Worker
  <2>2. at[v] # "none" /\ at[w] # "none"
    BY DEF Serves, Serving
  <2>3. sock[v] = v /\ sock[w] = w
    BY <2>1, <2>2 DEF HInv, CInv, WorkersOK
  <2> QED
    BY <1>1, <2>3
<1> QED
  BY <1>2, <1>3

LEMMA HeldBy ==
  ASSUME HInv, NEW p \in Client, NEW w \in Worker, Serves(w, p)
  PROVE  Held(p) = buf[w]
<1>1. Serves(CHOOSE v \in Worker : Serves(v, p), p) /\ (CHOOSE v \in Worker : Serves(v, p)) \in Worker
  OBVIOUS
<1>2. (CHOOSE v \in Worker : Serves(v, p)) = w
  BY <1>1, OneServer
<1> QED
  BY <1>2 DEF Held

LEMMA HeldByNobody ==
  ASSUME NEW p \in Client, \A w \in Worker : ~Serves(w, p)
  PROVE  Held(p) = <<>>
BY DEF Held

LEMMA Kinds ==
  /\ Architecture = "fork" => Kind = "echo"
  /\ Kind = "plus one" => Architecture = "iterative"
BY DEF Architecture, Kind

\* t is the beginning of s.
Begins(t, s) == \E r \in Seq(Byte) : s = t \o r

\* What an end that is closed had sent, the other may read the beginning of.
LEMMA ShutPart ==
  ASSUME NEW c, NEW d, NEW e \in Ends, Shut(c, d, e), c[e].data \in Seq(Byte)
  PROVE  /\ d[e].data \in Seq(Byte)
         /\ Begins(d[e].data, c[e].data)
         /\ c[e].data = <<>> => d[e].data = <<>>
<1> DEFINE s == c[e].data
           t == d[e].data
<1>1. s \in Seq(Byte) /\ (t = s \/ \E k \in 0 .. Len(s) : t = SubSeq(s, 1, k))
  BY DEF Shut
<1> HIDE DEF s, t
<1>2. CASE t = s
  BY <1>1, <1>2, EmptySeq, ConcatEmptySeq DEF s, t, Begins
<1>3. CASE \E k \in 0 .. Len(s) : t = SubSeq(s, 1, k)
  <2>1. PICK k \in 0 .. Len(s) : t = SubSeq(s, 1, k)
    BY <1>3
  <2>2. t \in Seq(Byte) /\ SubSeq(s, k + 1, Len(s)) \in Seq(Byte) /\ t \o SubSeq(s, k + 1, Len(s)) = s
    BY <1>1, <2>1, CutInTwo
  <2>3. s = <<>> => t = <<>>
    BY <2>1, <2>2, EmptySeq, ConcatEqualIffEmpty
  <2> QED
    BY <2>2, <2>3 DEF s, t, Begins
<1> QED
  BY <1>1, <1>2, <1>3

LEMMA ShutEmpty ==
  ASSUME NEW c, NEW d, NEW e, Shut(c, d, e), c[e].data = <<>>
  PROVE  d[e].data = <<>>
<1>1. d[e].data = <<>> \/ \E k \in 0 .. Len(<<>>) : d[e].data = SubSeq(<<>>, 1, k)
  BY DEF Shut
<1>2. Len(<<>>) = 0 /\ SubSeq(<<>>, 1, 0) = <<>>
  BY EmptySeq, SubSeqEmpty
<1> QED
  BY <1>1, <1>2

\* Nothing changes between p and the server but where its worker is.
LEMMA MovesOn ==
  ASSUME program' = program, NEW p \in Client, PInv(p),
         conn'[p] = conn[p], status'[p] = status[p], got'[p] = got[p],
         Kept(p)' <=> Kept(p), Queued(p)' => Queued(p),
         Held(p)' = Held(p) \/ (Held(p)' = <<>> /\ at'[p] = "ended" /\ Architecture = "fork"),
         at[p] = "ended" => at'[p] = "ended" \/ ~Kept(p),
         Kind # "echo" /\ Worked(p, ToSend)' => Unsent(p),
         Worked(p, {"send", "close"})' => Worked(p, {"send", "close"}),
         Worked(p, {"close"})' => Worked(p, {"close"}),
         Kind = "plus one" /\ Worked(p, {"receive", "send"})' => Queued(p) \/ Worked(p, {"receive", "send"})
  PROVE  PInv(p)'
<1>1. Architecture' = Architecture /\ Kind' = Kind
  BY SameProgram
<1>2. OpenOK(p)'
  BY DEF PInv, OpenOK
<1>3. ClientOK(p)'
  BY <1>1 DEF PInv, ClientOK
<1>4. OnceOK(p)'
  <2>1. Kind # "echo" /\ Unsent(p)' => Unsent(p)
    BY DEF Unsent
  <2> QED
    BY <1>1, <2>1 DEF PInv, OnceOK
<1>5. PlusOK(p)'
  <2>1. Kind = "plus one" => Held(p)' = Held(p)
    BY Kinds
  <2> QED
    BY <1>1, <2>1 DEF PInv, PlusOK
<1>6. EchoOK(p)'
  <2>1. Lively(p)' => Lively(p) /\ Held(p)' = Held(p)
    BY DEF Lively, PInv, OpenOK
  <2> QED
    BY <1>1, <2>1 DEF PInv, EchoOK
<1>7. EndOK(p)'
  BY <1>1 DEF PInv, EndOK, Ended
<1>8. AnswerOK(p)'
  <2>1. Answer(p)' = Answer(p)
    BY <1>1 DEF Answer, PlusOne
  <2> QED
    BY <1>1, <2>1 DEF PInv, AnswerOK
<1> QED
  BY <1>2, <1>3, <1>4, <1>5, <1>6, <1>7, <1>8 DEF PInv

\* A busy worker's connection is open at the server.
LEMMA BusyIsKept ==
  ASSUME HInv, NEW p \in Client, NEW w \in Worker, sock[w] = p, at[w] \in Busy
  PROVE  Kept(p) /\ ~Queued(p)
<1>1. p \in fds[Process(w)] /\ Process(w) \in Worker
  BY Processes DEF HInv, CInv, WorkersOK
<1> QED
  BY <1>1 DEF Kept, HInv, CInv, FreshOK

LEMMA BusyWillBeKept ==
  ASSUME HInv', program' = program, NEW p \in Client, NEW w \in Worker, sock'[w] = p, at'[w] \in Busy
  PROVE  Kept(p)' /\ ~Queued(p)'
<1>1. p \in fds'[Process(w)] /\ Process(w) \in Worker
  BY SameProgram, Processes DEF HInv, CInv, WorkersOK
<1> QED
  BY <1>1 DEF Kept, HInv, CInv, FreshOK

\* The server's end of p's connection is closed; c may be what recv() or send() have
\* made of it before.
LEMMA Closes ==
  ASSUME HInv', program' = program, NEW p \in Client, PInv(p), Kept(p), ~Kept(p)',
         status'[p] = status[p], got'[p] = got[p],
         NEW c, c["server"] = conn[p]["server"], Shut(c, conn'[p], "server"),
         c["client"].end = conn[p]["client"].end \/ (conn[p]["client"].end = "rst" /\ c["client"].end = "broken")
  PROVE  PInv(p)'
<1>1. Architecture' = Architecture /\ Kind' = Kind
  BY SameProgram
<1>0. PICK d : d = conn'[p]
  OBVIOUS
<1>2. /\ Shaped(d) /\ d["server"].end # "open" /\ d["client"].data = <<>>
      /\ d["client"].end = c["client"].end
  BY <1>0, EndsAre DEF Shut
<1>3. /\ conn[p]["server"].data = <<>> => d["server"].data = <<>>
      /\ conn[p]["server"].data \in Seq(Byte) =>
           /\ d["server"].data \in Seq(Byte)
           /\ Begins(d["server"].data, conn[p]["server"].data)
  <2>1. Shut(c, d, "server") /\ c["server"].data = conn[p]["server"].data /\ "server" \in Ends
    BY <1>0, EndsAre
  <2>2. c["server"].data \in Seq(Byte) =>
          d["server"].data \in Seq(Byte) /\ Begins(d["server"].data, c["server"].data)
    BY <2>1, ShutPart
  <2>3. c["server"].data = <<>> => d["server"].data = <<>>
    BY <2>1, ShutEmpty
  <2> QED
    BY <2>1, <2>2, <2>3
<1>4. ASSUME NEW w \in Worker, sock'[w] = p
      PROVE  at'[w] \notin Busy
  BY <1>4, BusyWillBeKept
<1>5. ~Worked(p, ToSend)' /\ ~Worked(p, {"send", "close"})' /\ ~Worked(p, {"close"})'
      /\ ~Worked(p, {"receive", "send"})' /\ ~Queued(p)'
  BY <1>4, <1>1 DEF Worked, Kept, ToSend, Busy, Serving
<1>6. Held(p)' = <<>>
  BY <1>4 DEF Held, Serves, Busy, Serving
<1>7. IsOpen(conn[p], "server") /\ status[p] \notin {"start", "refused"}
  BY DEF PInv, OpenOK, ClientOK, IsOpen, Idle, Ends
<1>8. OpenOK(p)'
  BY <1>0, <1>2 DEF OpenOK, IsOpen
<1>9. ClientOK(p)'
  <2>1. IsOpen(d, "client") <=> IsOpen(conn[p], "client")
    BY <1>2 DEF IsOpen
  <2> QED
    BY <1>0, <1>1, <1>2, <1>3, <1>7, <2>1, EmptySeq DEF PInv, ClientOK
<1>10. OnceOK(p)'
  <2>1. Unsent(p)' => status[p] = "connected"
    BY <1>0, <1>2, <1>5 DEF Unsent
  <2>2. status[p] = "connected" => Unsent(p) /\ d["client"].end = "open"
    BY <1>2 DEF PInv, ClientOK, IsOpen, Unsent
  <2> QED
    BY <1>0, <1>1, <1>3, <1>5, <2>1, <2>2 DEF PInv, OnceOK
<1>11. PlusOK(p)'
  BY <1>5 DEF PlusOK
<1>12. EchoOK(p)'
  BY <1>0, <1>2, <1>5, <1>6 DEF EchoOK, Lively, IsOpen
<1>13. EndOK(p)'
  BY <1>0, <1>2 DEF EndOK, IsOpen
<1>14. AnswerOK(p)'
  <2>1. Answer(p)' = Answer(p)
    BY <1>1 DEF Answer, PlusOne
  <2>2. ASSUME Kind # "vote", status[p] = "reading"
        PROVE  \E t \in Seq(Byte) : (got[p] \o d["server"].data) \o t = Answer(p)
    <3> DEFINE g == got[p]
               s == conn[p]["server"].data
               u == d["server"].data
    <3>1. g \in Seq(Byte) /\ s \in Seq(Byte) /\ u \in Seq(Byte)
      BY <1>3, <2>2 DEF PInv, ClientOK
    <3>2. PICK r \in Seq(Byte) : s = u \o r
      BY <1>3, <3>1 DEF Begins
    <3>3. PICK t \in Seq(Byte) : (g \o s) \o t = Answer(p)
      BY <2>2 DEF PInv, AnswerOK
    <3> HIDE DEF g, s, u
    <3>4. (g \o (u \o r)) \o t = (g \o u) \o (r \o t)
      <4>1. Regroups(g, u, r)
        BY <3>1, BytesRegroup
      <4>2. g \o u \in Seq(Byte)
        BY <3>1, BytesJoin
      <4>3. Regroups(g \o u, r, t)
        BY <4>2, BytesRegroup
      <4> QED
        BY <4>1, <4>3, Zenon DEF Regroups
    <3>5. r \o t \in Seq(Byte) /\ (g \o u) \o (r \o t) = Answer(p)
      BY <3>2, <3>3, <3>4, ConcatProperties
    <3> QED
      BY <3>5 DEF g, u
  <2> QED
    BY <1>0, <1>1, <2>1, <2>2 DEF PInv, AnswerOK
<1> QED
  BY <1>8, <1>9, <1>10, <1>11, <1>12, <1>13, <1>14 DEF PInv

\* What a worker that serves p has read is what is held of p's session.
HeldRight ==
  \A p \in Client :
    /\ \A v, w \in Worker : Serves(v, p) /\ Serves(w, p) => v = w
    /\ \A w \in Worker : Serves(w, p) => Held(p) = buf[w]
    /\ (\A w \in Worker : ~Serves(w, p)) => Held(p) = <<>>

LEMMA HeldIsRight == HInv => HeldRight
BY OneServer, HeldBy, HeldByNobody DEF HeldRight

LEMMA HeldStaysRight == (HInv => HeldRight)'
BY HeldIsRight, PTL

\* Whoever serves p is the child that was made for it, in TCPEchoServer-Fork.
LEMMA ChildServes ==
  ASSUME CInv, Architecture = "fork", NEW p \in Client, NEW w \in Worker, Serves(w, p)
  PROVE  w = p
<1>1. w \in Client
  BY ServersAssumption DEF Serves, Serving, CInv, PlacesOK, PlacesOf, Worker
<1>2. sock[w] = p /\ at[w] # "none"
  BY DEF Serves, Serving
<1> QED
  BY <1>1, <1>2 DEF CInv, WorkersOK

ChildrenServe == Architecture = "fork" => \A p \in Client, w \in Worker : Serves(w, p) => w = p
LEMMA OnlyChildrenServe == HInv => ChildrenServe
BY ChildServes DEF HInv, ChildrenServe
LEMMA OnlyChildrenWillServe == (HInv => ChildrenServe)'
BY OnlyChildrenServe, PTL

\* Nothing is read or sent, and p's worker is where it was, or begins, or a child that ends.
LEMMA ControlMoves ==
  ASSUME HInv, HInv', SInv, program' = program, NEW p \in Client,
         conn'[p] = conn[p], status'[p] = status[p], got'[p] = got[p],
         Kept(p)' <=> Kept(p), Queued(p)' => Queued(p),
         at[p] = "ended" => at'[p] = "ended" \/ ~Kept(p),
         \A w \in Worker : Serves(w, p) => Serves(w, p)' \/ (at'[p] = "ended" /\ Architecture = "fork"),
         \A w \in Worker : Serves(w, p)' =>
           /\ buf'[w] = buf[w]
           /\ \/ Serves(w, p) /\ at'[w] = at[w]
              \/ /\ at'[w] = "receive" /\ at[w] \notin Serving \union {"ended", "reaped"}
                 /\ Queued(p) \/ Architecture = "fork" \/ (Architecture = "thread" /\ Worked(p, {"start"})),
         Worked(p, {"create", "start"})' => Worked(p, {"create", "start"}) \/ Queued(p)
  PROVE  PInv(p)'
<1>1. Architecture' = Architecture /\ Kind' = Kind
  BY SameProgram
<1>2. PInv(p) /\ \A w \in Worker : BufOK(w)
  BY DEF SInv, StreamsOK
<1>3. HeldRight /\ HeldRight'
  BY HeldIsRight, HeldStaysRight
<1>4. ASSUME NEW w \in Worker, NEW u \in Worker, Serves(w, p)', ~Serves(w, p), Serves(u, p)
      PROVE  FALSE
  <2>1. CASE Serves(u, p)'
    BY <1>3, <1>4, <2>1 DEF HeldRight
  <2>2. CASE at'[p] = "ended" /\ Architecture = "fork"
    <3>1. w = p
      BY <1>1, <1>4, <2>2, OnlyChildrenWillServe DEF ChildrenServe
    <3> QED
      BY <1>4, <2>2, <3>1 DEF Serves, Serving
  <2> QED
    BY <1>4, <2>1, <2>2
<1>5. Held(p)' = Held(p) \/ (Held(p)' = <<>> /\ at'[p] = "ended" /\ Architecture = "fork")
  <2>1. CASE \E w \in Worker : Serves(w, p)'
    <3>1. PICK w \in Worker : Serves(w, p)'
      BY <2>1
    <3>2. Held(p)' = buf[w]
      BY <1>3, <3>1 DEF HeldRight
    <3>3. CASE Serves(w, p)
      BY <1>3, <3>2, <3>3 DEF HeldRight
    <3>4. CASE ~Serves(w, p)
      <4>1. Held(p) = <<>>
        BY <1>3, <1>4, <3>1, <3>4 DEF HeldRight
      <4>2. buf[w] = <<>>
        BY <1>2, <3>1, <3>4 DEF BufOK
      <4> QED
        BY <3>2, <4>1, <4>2
    <3> QED
      BY <3>3, <3>4
  <2>2. CASE \A w \in Worker : ~Serves(w, p)'
    <3>1. Held(p)' = <<>>
      BY <1>3, <2>2 DEF HeldRight
    <3>2. (\A w \in Worker : ~Serves(w, p)) => Held(p) = <<>>
      BY <1>3 DEF HeldRight
    <3> QED
      BY <2>2, <3>1, <3>2
  <2> QED
    BY <2>1, <2>2
<1>6. Worked(p, {"send", "close"})' => Worked(p, {"send", "close"})
  BY DEF Worked, Serves, Serving
<1>7. Worked(p, {"close"})' => Worked(p, {"close"})
  BY DEF Worked, Serves, Serving
<1>8. Kind # "echo" /\ Worked(p, ToSend)' => Unsent(p)
  <2> SUFFICES ASSUME Kind # "echo", NEW w \in Worker, sock'[w] = p, at'[w] \in ToSend
               PROVE  Unsent(p)
    BY <1>1 DEF Worked, ToSend
  <2>1. Worked(p, {"create", "start"}) => Unsent(p)
    BY DEF Worked, Unsent, ToSend
  <2>2. CASE at'[w] \in {"create", "start"}
    BY <2>1, <2>2 DEF Worked, Unsent
  <2>3. CASE at'[w] \in Serving
    <3>1. Serves(w, p)'
      BY <2>3 DEF Serves
    <3>2. CASE Serves(w, p) /\ at'[w] = at[w]
      BY <3>2 DEF Serves, Unsent, Worked
    <3>3. CASE Queued(p) \/ Architecture = "fork" \/ Worked(p, {"start"})
      BY <3>3, <2>1, Kinds DEF Unsent, Worked
    <3> QED
      BY <3>1, <3>2, <3>3
  <2> QED
    BY <2>2, <2>3 DEF ToSend, Serving
<1>9. Kind = "plus one" /\ Worked(p, {"receive", "send"})' => Queued(p) \/ Worked(p, {"receive", "send"})
  <2> SUFFICES ASSUME Kind = "plus one", NEW w \in Worker, sock'[w] = p, at'[w] \in {"receive", "send"}
               PROVE  Queued(p) \/ Worked(p, {"receive", "send"})
    BY DEF Worked
  <2>1. Serves(w, p)' /\ Architecture = "iterative"
    BY Kinds DEF Serves, Serving
  <2> QED
    BY <2>1 DEF Serves, Worked
<1> QED
  BY <1>2, <1>5, <1>6, <1>7, <1>8, <1>9, MovesOn

\* A worker's buffer when the worker ends, waits, or begins with nothing.
LEMMA BufferKeeps ==
  ASSUME program' = program, NEW w \in Worker, BufOK(w),
         \/ at'[w] = at[w] /\ buf'[w] = buf[w]
         \/ buf'[w] \in {buf[w], <<>>} /\ at'[w] \in {"ended", "reaped"}
         \/ at[w] \notin Serving \union {"ended", "reaped"} /\ buf'[w] = buf[w] /\ at'[w] # "send"
         \/ buf'[w] = <<>> /\ at'[w] # "send"
  PROVE  BufOK(w)'
<1>1. Kind' = Kind
  BY SameProgram
<1>2. <<>> \in Seq(Byte) /\ Len(<<>>) = 0
  BY EmptySeq
<1>3. CASE at'[w] = at[w] /\ buf'[w] = buf[w]
  BY <1>1, <1>3 DEF BufOK
<1>4. CASE buf'[w] \in {buf[w], <<>>} /\ at'[w] \in {"ended", "reaped"}
  BY <1>1, <1>2, <1>4 DEF BufOK
<1>5. CASE buf'[w] = <<>> /\ at'[w] # "send"
  <2>1. buf'[w] \in Seq(Byte) /\ Len(buf'[w]) < 2
    BY <1>2, <1>5
  <2> QED
    BY <1>1, <1>5, <2>1 DEF BufOK
<1> QED
  BY <1>3, <1>4, <1>5 DEF BufOK

-----------------------------------------------------------------------------
(* Connections that are let go. *)

\* What Descriptors says of one client.
LEMMA DescriptorsOf ==
  ASSUME HInv, NEW c, NEW F, NEW L, Descriptors(c, F, L), NEW p \in Client
  PROVE  /\ fds' = F /\ backlog' = IF L = {} THEN [q \in 1 .. Ports |-> <<>>] ELSE backlog
         /\ (\E P \in Worker : p \in fds[P]) /\ (\A P \in Worker : p \notin F[P]) =>
              conn'[p] \in Closings(c[p], "server")
         /\ L = {} /\ Queued(p) /\ (\A P \in Worker : p \notin fds[P]) => conn'[p] = Aborted(c[p], "server")
         /\ (\A P \in Worker : p \notin fds[P]) \/ (\E P \in Worker : p \in F[P]) =>
              conn'[p] = c[p] \/ (L = {} /\ Queued(p))
<1> DEFINE held(G) == UNION {G[w] : w \in Worker}
           queued == UNION {{backlog[q][k] : k \in DOMAIN backlog[q]} : q \in Port}
           next(r) == IF r \in held(fds) \ held(F) THEN Closings(c[r], "server")
                      ELSE IF L = {} /\ r \in queued THEN {Aborted(c[r], "server")} ELSE {c[r]}
<1>1. /\ conn' \in {f \in [Client -> UNION {next(r) : r \in Client}] : \A r \in Client : f[r] \in next(r)}
      /\ fds' = F /\ backlog' = IF L = {} THEN [q \in 1 .. Ports |-> <<>>] ELSE backlog
  BY DEF Descriptors
<1>2. \A G : p \in held(G) <=> \E P \in Worker : p \in G[P]
  OBVIOUS
<1>3. p \in queued <=> Queued(p)
  <2>1. Port \subseteq 1 .. Ports /\ \A q \in 1 .. Ports : q \notin Port => backlog[q] = <<>>
    <3>1. Port \subseteq 1 .. Ports
      BY ServersAssumption DEF Port
    <3> QED
      BY <3>1 DEF HInv, PortsOK
  <2>2. \A q \in 1 .. Ports : q \notin Port => DOMAIN backlog[q] = {}
    BY <2>1
  <2> QED
    BY <2>1, <2>2 DEF Queued
<1>4. conn'[p] \in next(p)
  BY <1>1
<1> HIDE DEF held, queued
<1>5. /\ p \in held(fds) \ held(F) => conn'[p] \in Closings(c[p], "server")
      /\ p \notin held(fds) \ held(F) /\ L = {} /\ p \in queued => conn'[p] = Aborted(c[p], "server")
      /\ p \notin held(fds) \ held(F) => conn'[p] = c[p] \/ (L = {} /\ p \in queued)
  BY <1>4
<1> QED
  BY <1>1, <1>2, <1>3, <1>4, <1>5

LEMMA ConnStaysAFunction ==
  ASSUME NEW c, NEW F, NEW L, Descriptors(c, F, L)
  PROVE  DOMAIN conn' = Client
<1> DEFINE held(G) == UNION {G[w] : w \in Worker}
           queued == UNION {{backlog[q][k] : k \in DOMAIN backlog[q]} : q \in Port}
           next(r) == IF r \in held(fds) \ held(F) THEN Closings(c[r], "server")
                      ELSE IF L = {} /\ r \in queued THEN {Aborted(c[r], "server")} ELSE {c[r]}
<1>1. conn' \in {f \in [Client -> UNION {next(r) : r \in Client}] : \A r \in Client : f[r] \in next(r)}
  BY DEF Descriptors
<1> HIDE DEF next
<1> QED
  BY <1>1

\* A child of TCPEchoServer-Fork reads an error and ends before its parent lets go.
LEMMA ErrorAtEnd ==
  ASSUME program' = program, NEW p \in Client, PInv(p), Architecture = "fork",
         conn[p]["client"].end = "rst", conn'[p] = ErrorReturned(conn[p], "server"),
         status'[p] = status[p], got'[p] = got[p], Kept(p)' <=> Kept(p),
         at'[p] = "ended", \A w \in Worker : ~Serves(w, p)'
  PROVE  PInv(p)'
<1>1. Architecture' = Architecture /\ Kind' = Kind /\ Kind = "echo"
  BY SameProgram, Kinds
<1>2. /\ Shaped(conn'[p]) /\ conn'[p]["server"] = conn[p]["server"]
      /\ conn'[p]["client"].data = conn[p]["client"].data /\ conn'[p]["client"].end = "broken"
  BY EndsAre, SetEndShape DEF ErrorReturned, PInv, ClientOK
<1>3. status[p] \notin {"start", "refused", "connected", "reading"}
  <2>1. status[p] \in {"start", "refused"} => conn[p]["client"].end = "idle"
    BY EndsAre DEF PInv, ClientOK, Idle
  <2> QED
    BY <2>1 DEF PInv, ClientOK, IsOpen
<1>4. OpenOK(p)'
  BY <1>2 DEF PInv, OpenOK, IsOpen
<1>5. ClientOK(p)'
  BY <1>1, <1>2, <1>3 DEF PInv, ClientOK, IsOpen
<1>6. OnceOK(p)' /\ PlusOK(p)' /\ EndOK(p)'
  BY <1>1 DEF OnceOK, PlusOK, EndOK
<1>7. EchoOK(p)'
  BY <1>2, <1>3 DEF EchoOK, Worked, Serves, Serving, Lively, IsOpen
<1>8. AnswerOK(p)'
  <2>1. Answer(p)' = Answer(p)
    BY <1>1 DEF Answer, PlusOne
  <2> QED
    BY <1>1, <1>3, <2>1 DEF PInv, AnswerOK
<1> QED
  BY <1>4, <1>5, <1>6, <1>7, <1>8 DEF PInv

\* Processes let connections go: those that end, and those that close a socket. (A worker
\* that ends may have read an error before.)
LEMMA LettingGo ==
  ASSUME HInv, HInv', SInv, program' = program, UNCHANGED <<sock, status, got>>,
         NEW c, NEW F, NEW L, Descriptors(c, F, L), \A P \in Worker : F[P] \subseteq fds[P],
         \A v \in Worker :
           /\ at'[v] \in Serving => /\ buf'[v] = buf[v]
                                    /\ at'[v] = at[v] \/ (at'[v] = "receive" /\ at[v] = "child")
           /\ at[v] \in Serving => \/ at'[v] = at[v]
                                   \/ sock[v] \notin F[Process(v)] /\ (Architecture = "fork" => at'[v] = "ended")
           /\ at'[v] \in {"create", "start"} => at'[v] = at[v]
           /\ at[v] = "ended" => at'[v] = "ended",
         NEW p \in Client,
         \/ c[p] = conn[p]
         \/ /\ conn[p]["client"].end = "rst" /\ c[p] = ErrorReturned(conn[p], "server")
            /\ \E w \in Worker : Serves(w, p) /\ at'[w] = "ended"
  PROVE  PInv(p)'
<1>1. PInv(p)
  BY DEF SInv, StreamsOK
<1>2. /\ Shaped(c[p]) /\ c[p]["server"] = conn[p]["server"]
      /\ c[p]["client"].end = conn[p]["client"].end \/ (conn[p]["client"].end = "rst" /\ c[p]["client"].end = "broken")
  <2>1. Shaped(conn[p])
    BY <1>1 DEF PInv, ClientOK
  <2>2. /\ Shaped(SetEnd(conn[p], "client", "broken"))
        /\ SetEnd(conn[p], "client", "broken")["server"] = conn[p]["server"]
        /\ SetEnd(conn[p], "client", "broken")["client"].end = "broken"
    BY <2>1, EndsAre, SetEndShape
  <2>3. ErrorReturned(conn[p], "server") = SetEnd(conn[p], "client", "broken")
    BY EndsAre DEF ErrorReturned
  <2> QED
    BY <2>1, <2>2, <2>3
<1>3. /\ fds' = F /\ backlog' = IF L = {} THEN [q \in 1 .. Ports |-> <<>>] ELSE backlog
      /\ (\E P \in Worker : p \in fds[P]) /\ (\A P \in Worker : p \notin F[P]) =>
           conn'[p] \in Closings(c[p], "server")
      /\ L = {} /\ Queued(p) /\ (\A P \in Worker : p \notin fds[P]) => conn'[p] = Aborted(c[p], "server")
      /\ (\A P \in Worker : p \notin fds[P]) \/ (\E P \in Worker : p \in F[P]) =>
           conn'[p] = c[p] \/ (L = {} /\ Queued(p))
  BY DescriptorsOf
<1>4. /\ Queued(p)' => Queued(p) /\ L # {}
      /\ Queued(p) /\ L # {} => Queued(p)'
  <2>1. CASE L = {}
    <3>1. \A q \in 1 .. Ports : DOMAIN backlog'[q] = {}
      BY <1>3, <2>1
    <3> QED
      BY <2>1, <3>1 DEF Queued
  <2>2. CASE L # {}
    BY <1>3, <2>2 DEF Queued
  <2> QED
    BY <2>1, <2>2
<1>5. Queued(p) => \A P \in Worker : p \notin fds[P]
  BY DEF HInv, CInv, FreshOK
<1>6. Kept(p)' <=> (Queued(p) /\ L # {}) \/ \E P \in Worker : p \in F[P]
  BY <1>3, <1>4 DEF Kept
<1>7. CASE Kept(p) /\ ~Kept(p)'
  <2>1. Shut(c[p], conn'[p], "server")
    <3>1. CASE \E P \in Worker : p \in fds[P]
      BY <1>2, <1>3, <1>6, <1>7, <3>1, EndsAre, ClosingShape
    <3>2. CASE \A P \in Worker : p \notin fds[P]
      <4>1. conn'[p] = Aborted(c[p], "server")
        BY <1>3, <1>4, <1>6, <1>7, <3>2 DEF Kept
      <4> QED
        BY <1>2, <4>1, AbortedShape
    <3> QED
      BY <3>1, <3>2
  <2> QED
    BY <1>1, <1>2, <1>7, <2>1, Closes
<1>8. CASE Kept(p)' \/ ~Kept(p)
  <2>1. Kept(p)' <=> Kept(p)
    BY <1>6, <1>8 DEF Kept
  <2>2. conn'[p] = c[p]
    BY <1>3, <1>5, <1>6, <2>1 DEF Kept
  <2>3. ASSUME NEW w \in Worker, Serves(w, p), at'[w] # at[w]
        PROVE  Architecture = "fork" /\ at'[p] = "ended"
    <3>1. at[w] \in Busy /\ sock[w] = p /\ p \notin fds'[Process(w)] /\ Kept(p) /\ ~Queued(p)
      BY <1>3, <2>3, BusyIsKept DEF Serves, Busy, Serving
    <3>2. \A v \in Worker : fds'[v] \subseteq fds[v]
      BY <1>3
    <3>3. Architecture = "fork"
      <4>1. Architecture # "fork" => \A v \in Worker : p \notin fds'[v]
        BY <3>1, <3>2, LetGo
      <4> QED
        BY <1>3, <1>6, <2>1, <3>1, <4>1
    <3>4. w = p
      BY <2>3, <3>3, ChildServes DEF HInv
    <3> QED
      BY <2>3, <3>3, <3>4 DEF Serves
  <2>4. CASE c[p] = conn[p]
    <3>1. \A w \in Worker : Serves(w, p) => Serves(w, p)' \/ (at'[p] = "ended" /\ Architecture = "fork")
      BY <2>3 DEF Serves
    <3>2. ASSUME NEW w \in Worker, Serves(w, p)'
          PROVE  /\ buf'[w] = buf[w]
                 /\ \/ Serves(w, p) /\ at'[w] = at[w]
                    \/ /\ at'[w] = "receive" /\ at[w] \notin Serving \union {"ended", "reaped"}
                       /\ Queued(p) \/ Architecture = "fork" \/ (Architecture = "thread" /\ Worked(p, {"start"}))
      <4>1. at'[w] \in Serving /\ sock[w] = p
        BY <3>2 DEF Serves
      <4>2. CASE at'[w] = at[w]
        BY <4>1, <4>2 DEF Serves
      <4>3. CASE at'[w] = "receive" /\ at[w] = "child"
        <5>1. Architecture = "fork"
          BY <4>3, ServersAssumption DEF HInv, CInv, PlacesOK, PlacesOf, Worker, Serving
        <5> QED
          BY <4>1, <4>3, <5>1 DEF Serving
      <4> QED
        BY <4>1, <4>2, <4>3
    <3>3. Worked(p, {"create", "start"})' => Worked(p, {"create", "start"}) \/ Queued(p)
      BY DEF Worked
    <3>4. at[p] = "ended" => at'[p] = "ended"
      BY Processes
    <3>5. conn'[p] = conn[p] /\ status'[p] = status[p] /\ got'[p] = got[p] /\ (Queued(p)' => Queued(p))
      BY <1>4, <2>2, <2>4
    <3> QED
      BY <2>1, <3>1, <3>2, <3>3, <3>4, <3>5, ControlMoves
  <2>5. CASE /\ conn[p]["client"].end = "rst" /\ c[p] = ErrorReturned(conn[p], "server")
             /\ \E w \in Worker : Serves(w, p) /\ at'[w] = "ended"
    <3>1. Architecture = "fork" /\ at'[p] = "ended"
      BY <2>3, <2>5 DEF Serves, Serving
    <3>2. \A w \in Worker : ~Serves(w, p)'
      <4>1. Architecture' = "fork"
        BY <3>1, SameProgram
      <4>2. \A w \in Worker : Serves(w, p)' => w = p
        BY <4>1, OnlyChildrenWillServe DEF ChildrenServe
      <4> QED
        BY <3>1, <4>2 DEF Serves, Serving
    <3> QED
      BY <1>1, <2>1, <2>2, <2>5, <3>1, <3>2, ErrorAtEnd
  <2> QED
    BY <2>4, <2>5
<1> QED
  BY <1>7, <1>8

\* A process of the server ends.
LEMMA ExitKeepsS ==
  ASSUME HInv, HInv', SInv, program' = program, UNCHANGED <<sock, status, got>>,
         NEW w \in Worker, NEW c, Exit(w, c), buf' \in {buf, [buf EXCEPT ![w] = <<>>]},
         \A p \in Client : \/ c[p] = conn[p]
                           \/ /\ conn[p]["client"].end = "rst" /\ c[p] = ErrorReturned(conn[p], "server")
                              /\ Serves(w, p)
  PROVE  StreamsOK'
<1> DEFINE P == Process(w)
           F == [fds EXCEPT ![P] = {}]
           L == listeners \ {P}
<1>1. P \in Worker /\ fds \in [Worker -> SUBSET Client] /\ at \in [Worker -> Places]
  BY Processes DEF HInv, CInv, ControlTypes
<1>2. Descriptors(c, F, L)
  BY DEF Exit
<1>3. F[P] = {} /\ (\A Q \in Worker : F[Q] \subseteq fds[Q])
  BY <1>1
<1>4. at' = [v \in Worker |-> IF Process(v) = P /\ at[v] # "none" THEN "ended" ELSE at[v]]
  BY DEF Exit
<1>5. DOMAIN buf = Worker
  BY DEF SInv, StreamsOK, StreamTypes
<1>6. P = Process(w)
  OBVIOUS
<1> HIDE DEF P, F, L
<1>7. \A v \in Worker : at'[v] = IF Process(v) = P /\ at[v] # "none" THEN "ended" ELSE at[v]
  BY <1>4
<1>8. at'[w] \in {"ended", "none"}
  BY <1>6, <1>7
<1>9. /\ DOMAIN buf' = Worker /\ \A v \in Worker : buf'[v] = buf[v] \/ (v = w /\ buf'[v] = <<>>)
  BY <1>5
<1>10. ASSUME NEW v \in Worker
       PROVE  /\ at'[v] \in Serving => /\ buf'[v] = buf[v]
                                       /\ at'[v] = at[v] \/ (at'[v] = "receive" /\ at[v] = "child")
              /\ at[v] \in Serving => \/ at'[v] = at[v]
                                      \/ sock[v] \notin F[Process(v)] /\ (Architecture = "fork" => at'[v] = "ended")
              /\ at'[v] \in {"create", "start"} => at'[v] = at[v]
              /\ at[v] = "ended" => at'[v] = "ended"
  BY <1>3, <1>7, <1>8, <1>9 DEF Serving
<1>11. ASSUME NEW p \in Client
       PROVE  PInv(p)'
  <2>1. \/ c[p] = conn[p]
        \/ /\ conn[p]["client"].end = "rst" /\ c[p] = ErrorReturned(conn[p], "server")
           /\ \E v \in Worker : Serves(v, p) /\ at'[v] = "ended"
    BY <1>6, <1>7 DEF Serves, Serving
  <2> QED
    BY <1>2, <1>3, <1>10, <2>1, LettingGo
<1>12. ASSUME NEW v \in Worker
       PROVE  BufOK(v)'
  <2>1. BufOK(v)
    BY DEF SInv, StreamsOK
  <2>2. \/ at'[v] = at[v] /\ buf'[v] = buf[v]
        \/ buf'[v] \in {buf[v], <<>>} /\ at'[v] \in {"ended", "reaped"}
        \/ buf'[v] = <<>> /\ at'[v] # "send"
    BY <1>7, <1>8, <1>9
  <2> QED
    BY <2>1, <2>2, BufferKeeps
<1>13. DOMAIN conn' = Client
  BY <1>2, ConnStaysAFunction
<1>14. StreamTypes'
  BY <1>9, <1>13 DEF SInv, StreamsOK, StreamTypes
<1> QED
  BY <1>11, <1>12, <1>14 DEF StreamsOK

\* The session is over: its worker closes the connection, and goes on or ends.
LEMMA FinishKeepsS ==
  ASSUME HInv, HInv', SInv, NEW w \in Worker, Finish(w)
  PROVE  StreamsOK'
<1>1. UNCHANGED <<program, sock, status, got>> /\ at[w] = "close" /\ buf' = [buf EXCEPT ![w] = <<>>]
  BY DEF Finish, chosen, clients
<1>2. CASE Exit(w, conn)
  <2>1. \A p \in Client : conn[p] = conn[p]
    OBVIOUS
  <2> QED
    BY <1>1, <1>2, <2>1, ExitKeepsS
<1>3. CASE /\ Descriptors(conn, [fds EXCEPT ![Process(w)] = @ \ {sock[w]}], listeners)
           /\ Architecture \notin {"once", "fork"}
           /\ \E x \in {"accept", "ended", "select"} : at' = [at EXCEPT ![w] = x]
  <2> DEFINE F == [fds EXCEPT ![Process(w)] = @ \ {sock[w]}]
  <2>1. PICK x \in {"accept", "ended", "select"} : at' = [at EXCEPT ![w] = x]
    BY <1>3
  <2>2. /\ Process(w) \in Worker /\ fds \in [Worker -> SUBSET Client] /\ at \in [Worker -> Places]
        /\ DOMAIN buf = Worker /\ \A v \in Worker : BufOK(v)
    BY Processes DEF HInv, CInv, ControlTypes, SInv, StreamsOK, StreamTypes
  <2>3. Descriptors(conn, F, listeners) /\ sock[w] \notin F[Process(w)] /\ \A P \in Worker : F[P] \subseteq fds[P]
    BY <1>3, <2>2
  <2> HIDE DEF F
  <2>4. at'[w] = x /\ \A v \in Worker : v # w => at'[v] = at[v]
    BY <2>1, <2>2
  <2>5. DOMAIN buf' = Worker /\ buf'[w] = <<>> /\ \A v \in Worker : v # w => buf'[v] = buf[v]
    BY <1>1, <2>2
  <2>6. ASSUME NEW v \in Worker
        PROVE  /\ at'[v] \in Serving => /\ buf'[v] = buf[v]
                                        /\ at'[v] = at[v] \/ (at'[v] = "receive" /\ at[v] = "child")
               /\ at[v] \in Serving => \/ at'[v] = at[v]
                                       \/ sock[v] \notin F[Process(v)] /\ (Architecture = "fork" => at'[v] = "ended")
               /\ at'[v] \in {"create", "start"} => at'[v] = at[v]
               /\ at[v] = "ended" => at'[v] = "ended"
    BY <1>1, <1>3, <2>1, <2>3, <2>4, <2>5 DEF Serving
  <2>7. ASSUME NEW p \in Client
        PROVE  PInv(p)'
    <3>1. conn[p] = conn[p]
      OBVIOUS
    <3> QED
      BY <1>1, <2>3, <2>6, <3>1, LettingGo
  <2>8. ASSUME NEW v \in Worker
        PROVE  BufOK(v)'
    <3>1. BufOK(v) /\ ((at'[v] = at[v] /\ buf'[v] = buf[v]) \/ (buf'[v] = <<>> /\ at'[v] # "send"))
      BY <2>1, <2>2, <2>4, <2>5
    <3> QED
      BY <1>1, <3>1, BufferKeeps
  <2>9. StreamTypes'
    BY <1>1, <2>3, <2>5, ConnStaysAFunction DEF SInv, StreamsOK, StreamTypes
  <2> QED
    BY <2>7, <2>8, <2>9 DEF StreamsOK
<1>4. Finish(w)
  OBVIOUS
<1>5. Architecture \in {"once", "fork"} => Exit(w, conn)
  BY <1>4 DEF Finish
<1>6. Architecture \notin {"once", "fork"} =>
        /\ Descriptors(conn, [fds EXCEPT ![Process(w)] = @ \ {sock[w]}], listeners)
        /\ at' = [at EXCEPT ![w] = CASE Architecture = "thread" -> "ended"
                                     [] Architecture = "select" /\ ready = {} -> "select"
                                     [] OTHER -> "accept"]
  BY <1>4 DEF Finish
<1>7. Architecture \notin {"once", "fork"} => \E x \in {"accept", "ended", "select"} : at' = [at EXCEPT ![w] = x]
  BY <1>6
<1> QED
  BY <1>2, <1>3, <1>5, <1>6, <1>7

\* TCPEchoServer-Fork: the parent closes the child's socket, and the child the listening one.
LEMMA ForkedKeepS ==
  ASSUME HInv, HInv', SInv, ParentCloses \/ \E p \in Client : ChildBegins(p)
  PROVE  StreamsOK'
<1>1. UNCHANGED <<program, sock, status, got, buf>>
  BY DEF ParentCloses, ChildBegins, chosen, clients
<1>2. /\ "main" \in Worker /\ Client \subseteq Worker /\ fds \in [Worker -> SUBSET Client]
      /\ at \in [Worker -> Places] /\ DOMAIN buf = Worker /\ \A v \in Worker : BufOK(v)
  BY Processes DEF HInv, CInv, ControlTypes, SInv, StreamsOK, StreamTypes
<1>3. PICK w, F, L, x :
        /\ w \in Worker /\ Descriptors(conn, F, L) /\ (\A P \in Worker : F[P] \subseteq fds[P])
        /\ at' = [at EXCEPT ![w] = x]
        /\ \/ at[w] = "parent" /\ x = "wait"
           \/ at[w] = "child" /\ x = "receive"
  <2>1. CASE ParentCloses
    <3> DEFINE F == [fds EXCEPT !["main"] = @ \ {sock["main"]}]
    <3>1. Descriptors(conn, F, listeners) /\ at["main"] = "parent" /\ at' = [at EXCEPT !["main"] = "wait"]
      BY <2>1 DEF ParentCloses
    <3>2. \A P \in Worker : F[P] \subseteq fds[P]
      BY <1>2
    <3> HIDE DEF F
    <3> QED
      BY <1>2, <3>1, <3>2
  <2>2. CASE \E p \in Client : ChildBegins(p)
    <3>1. PICK p \in Client : ChildBegins(p)
      BY <2>2
    <3>2. /\ Descriptors(conn, fds, listeners \ {p}) /\ at[p] = "child" /\ at' = [at EXCEPT ![p] = "receive"]
          /\ p \in Worker
      BY <1>2, <3>1 DEF ChildBegins
    <3> QED
      BY <3>2
  <2> QED
    BY <2>1, <2>2
<1>4. at'[w] = x /\ \A v \in Worker : v # w => at'[v] = at[v]
  BY <1>2, <1>3
<1>5. ASSUME NEW v \in Worker
      PROVE  /\ at'[v] \in Serving => /\ buf'[v] = buf[v]
                                      /\ at'[v] = at[v] \/ (at'[v] = "receive" /\ at[v] = "child")
             /\ at[v] \in Serving => \/ at'[v] = at[v]
                                     \/ sock[v] \notin F[Process(v)] /\ (Architecture = "fork" => at'[v] = "ended")
             /\ at'[v] \in {"create", "start"} => at'[v] = at[v]
             /\ at[v] = "ended" => at'[v] = "ended"
  BY <1>1, <1>3, <1>4 DEF Serving
<1>6. ASSUME NEW p \in Client
      PROVE  PInv(p)'
  <2>1. conn[p] = conn[p]
    OBVIOUS
  <2> QED
    BY <1>1, <1>3, <1>5, <2>1, LettingGo
<1>7. ASSUME NEW v \in Worker
      PROVE  BufOK(v)'
  <2>1. /\ BufOK(v) /\ buf'[v] = buf[v]
        /\ at'[v] = at[v] \/ (at[v] \notin Serving \union {"ended", "reaped"} /\ at'[v] # "send")
    BY <1>1, <1>2, <1>3, <1>4 DEF Serving
  <2> QED
    BY <1>1, <2>1, BufferKeeps
<1>8. StreamTypes'
  BY <1>1, <1>3, ConnStaysAFunction DEF SInv, StreamsOK, StreamTypes
<1> QED
  BY <1>6, <1>7, <1>8 DEF StreamsOK

-----------------------------------------------------------------------------
(* Connections that are accepted, and workers that are made for them. *)

\* What a queue has behind its head stays queued.
LEMMA QueueIsKept ==
  ASSUME ControlTypes, NEW q \in 1 .. Ports, backlog[q] # <<>>,
         backlog' = [backlog EXCEPT ![q] = Tail(@)],
         NEW p \in Client, Queued(p), p # Head(backlog[q])
  PROVE  Queued(p)'
<1>1. PICK r \in 1 .. Ports : \E k \in DOMAIN backlog[r] : backlog[r][k] = p
  BY DEF Queued
<1>2. PICK k \in DOMAIN backlog[r] : backlog[r][k] = p
  BY <1>1
<1>3. backlog \in [1 .. Ports -> Seq(Client)]
  BY DEF ControlTypes
<1>4. CASE r # q
  BY <1>2, <1>3, <1>4 DEF Queued
<1>5. CASE r = q
  <2> DEFINE s == backlog[q]
  <2>1. s \in Seq(Client) /\ s # <<>> /\ k \in 1 .. Len(s) /\ s[k] = p /\ Len(s) \in Nat
    BY <1>2, <1>3, <1>5, LenProperties
  <2>2. backlog'[q] = Tail(s)
    BY <1>3
  <2> HIDE DEF s
  <2>3. Head(s) = s[1]
    BY <2>1
  <2>4. k # 1
    BY <2>1, <2>3 DEF s
  <2>5. k - 1 \in 1 .. Len(Tail(s)) /\ Tail(s)[k - 1] = s[k] /\ Tail(s) \in Seq(Client)
    BY <2>1, <2>4
  <2>6. k - 1 \in DOMAIN backlog'[q] /\ backlog'[q][k - 1] = p
    BY <2>1, <2>2, <2>5, LenProperties
  <2> QED
    BY <2>6 DEF Queued
<1> QED
  BY <1>4, <1>5

LEMMA AcceptKeepsS ==
  ASSUME HInv, HInv', SInv, NEW w \in Worker, Accept(w)
  PROVE  StreamsOK'
<1>1. UNCHANGED <<program, conn, status, got, buf>> /\ at[w] = "accept"
  BY DEF Accept, chosen, clients
<1>2. /\ fds \in [Worker -> SUBSET Client] /\ at \in [Worker -> Places]
      /\ sock \in [Worker -> Client \union {"nobody"}]
      /\ backlog \in [1 .. Ports -> Seq(Client)] /\ ControlTypes /\ Client \subseteq Worker
  BY Processes DEF HInv, CInv, ControlTypes
<1>3. PICK q \in 1 .. Ports :
        /\ backlog[q] # <<>> /\ backlog' = [backlog EXCEPT ![q] = Tail(@)]
        /\ sock' = [sock EXCEPT ![w] = Head(backlog[q])]
        /\ fds' = [fds EXCEPT ![w] = @ \union {Head(backlog[q])}]
  <2>1. PICK q \in (IF Architecture = "select" THEN ready ELSE Port) :
          /\ backlog[q] # <<>> /\ backlog' = [backlog EXCEPT ![q] = Tail(@)]
          /\ sock' = [sock EXCEPT ![w] = Head(backlog[q])]
          /\ fds' = [fds EXCEPT ![w] = @ \union {Head(backlog[q])}]
    BY DEF Accept
  <2>2. q \in 1 .. Ports
    BY <2>1, ServersAssumption DEF HInv, CInv, ReadyOK, Port
  <2> QED
    BY <2>1, <2>2
<1>4. PICK p \in Client :
        /\ p = Head(backlog[q]) /\ Queued(p)
        /\ \A r \in Client : Queued(r)' => Queued(r) /\ r # p
  BY <1>3, QueueIsTaken DEF HInv, CInv
<1>5. \A r \in Client : Queued(r) /\ r # p => Queued(r)'
  BY <1>2, <1>3, <1>4, QueueIsKept
<1>6. fds'[w] = fds[w] \union {p} /\ \A v \in Worker : v # w => fds'[v] = fds[v]
  BY <1>2, <1>3, <1>4
<1>7. sock'[w] = p /\ \A v \in Worker : v # w => sock'[v] = sock[v]
  BY <1>2, <1>3, <1>4
<1>8. at' = [at EXCEPT ![w] = IF Architecture = "fork" THEN "fork"
                              ELSE IF Architecture = "thread" THEN "create" ELSE "receive"]
  BY DEF Accept
<1>9. at'[w] \in {"fork", "create", "receive"} /\ \A v \in Worker : v # w => at'[v] = at[v]
  BY <1>2, <1>8
<1>10. ASSUME NEW r \in Client
       PROVE  PInv(r)'
  <2>1. Kept(r)' <=> Kept(r)
    BY <1>4, <1>5, <1>6 DEF Kept
  <2>2. at[r] = "ended" => at'[r] = "ended"
    BY <1>1, <1>2, <1>9
  <2>3. \A v \in Worker : Serves(v, r) => Serves(v, r)'
    BY <1>1, <1>7, <1>9 DEF Serves, Serving
  <2>4. ASSUME NEW v \in Worker, Serves(v, r)'
        PROVE  /\ buf'[v] = buf[v]
               /\ \/ Serves(v, r) /\ at'[v] = at[v]
                  \/ /\ at'[v] = "receive" /\ at[v] \notin Serving \union {"ended", "reaped"}
                     /\ Queued(r) \/ Architecture = "fork" \/ (Architecture = "thread" /\ Worked(r, {"start"}))
    <3>1. CASE v = w
      BY <1>1, <1>4, <1>7, <1>9, <2>4, <3>1 DEF Serves, Serving
    <3>2. CASE v # w
      BY <1>1, <1>7, <1>9, <2>4, <3>2 DEF Serves
    <3> QED
      BY <3>1, <3>2
  <2>5. Worked(r, {"create", "start"})' => Worked(r, {"create", "start"}) \/ Queued(r)
    BY <1>4, <1>7, <1>9 DEF Worked
  <2>6. conn'[r] = conn[r] /\ status'[r] = status[r] /\ got'[r] = got[r] /\ (Queued(r)' => Queued(r))
    BY <1>1, <1>4
  <2> QED
    BY <1>1, <2>1, <2>2, <2>3, <2>4, <2>5, <2>6, ControlMoves
<1>11. ASSUME NEW v \in Worker
       PROVE  BufOK(v)'
  <2>1. BufOK(v)
    BY DEF SInv, StreamsOK
  <2>2. /\ buf'[v] = buf[v]
        /\ at'[v] = at[v] \/ (at[v] \notin Serving \union {"ended", "reaped"} /\ at'[v] # "send")
    BY <1>1, <1>9 DEF Serving
  <2> QED
    BY <1>1, <2>1, <2>2, BufferKeeps
<1> QED
  BY <1>1, <1>10, <1>11 DEF SInv, StreamsOK, StreamTypes

\* TCPEchoServer-Fork: nobody but the parent holds the connection when it forks.
LEMMA ForkKeepsS ==
  ASSUME HInv, HInv', SInv, Fork
  PROVE  StreamsOK'
<1>1. UNCHANGED <<program, conn, backlog, status, got, buf>> /\ at["main"] = "fork"
  BY DEF Fork, chosen, clients
<1>2. /\ fds \in [Worker -> SUBSET Client] /\ at \in [Worker -> Places] /\ "main" \in Worker
      /\ sock \in [Worker -> Client \union {"nobody"}] /\ Client \subseteq Worker
      /\ at["main"] \in PlacesOf("main") /\ "main" \notin Client /\ "main" \notin Pool
  BY Processes, ServersAssumption DEF HInv, CInv, ControlTypes, PlacesOK
<1>3. Architecture = "fork"
  BY <1>1, <1>2 DEF PlacesOf, Serving
<1>4. sock["main"] \in fds["main"] /\ at[sock["main"]] = "none"
  BY <1>1, <1>2, <1>3, Processes DEF HInv, CInv, WorkersOK, Busy
<1>5. PICK p \in Client : p = sock["main"]
  BY <1>2, <1>4
<1>6. /\ fds' = [fds EXCEPT ![p] = fds["main"]] /\ sock' = [sock EXCEPT ![p] = p]
      /\ at' = [at EXCEPT !["main"] = "parent", ![p] = "child"] /\ at[p] = "none" /\ p # "main"
  BY <1>2, <1>4, <1>5 DEF Fork
<1>7. fds[p] = {}
  <2>1. \A r \in fds[p] : \E v \in Worker : Process(v) = p /\ Handles(v, r)
    BY <1>2, <1>6 DEF HInv, CInv, HoldersOK
  <2>2. \A r : ~Handles(p, r)
    BY <1>6 DEF Handles
  <2> QED
    BY <1>3, <2>1, <2>2, Processes
<1>8. fds'[p] = fds["main"] /\ \A v \in Worker : v # p => fds'[v] = fds[v]
  BY <1>2, <1>6
<1>9. sock'[p] = p /\ \A v \in Worker : v # p => sock'[v] = sock[v]
  BY <1>2, <1>6
<1>10. at'["main"] = "parent" /\ at'[p] = "child" /\ \A v \in Worker \ {p, "main"} : at'[v] = at[v]
  BY <1>2, <1>6
<1>11. ASSUME NEW r \in Client
       PROVE  PInv(r)'
  <2>1. Queued(r)' <=> Queued(r)
    BY <1>1 DEF Queued
  <2>2. Kept(r)' <=> Kept(r)
    BY <1>2, <1>6, <1>7, <1>8, <2>1 DEF Kept
  <2>3. at[r] = "ended" => at'[r] = "ended"
    BY <1>2, <1>6, <1>10
  <2>4. \A v \in Worker : Serves(v, r) => Serves(v, r)'
    BY <1>1, <1>6, <1>9, <1>10 DEF Serves, Serving
  <2>5. ASSUME NEW v \in Worker, Serves(v, r)'
        PROVE  buf'[v] = buf[v] /\ Serves(v, r) /\ at'[v] = at[v]
    <3>1. v \notin {p, "main"}
      BY <1>10, <2>5 DEF Serves, Serving
    <3> QED
      BY <1>1, <1>9, <1>10, <2>5, <3>1 DEF Serves
  <2>6. Worked(r, {"create", "start"})' => Worked(r, {"create", "start"})
    <3> SUFFICES ASSUME NEW v \in Worker, sock'[v] = r, at'[v] \in {"create", "start"}
                 PROVE  Worked(r, {"create", "start"})
      BY DEF Worked
    <3>1. v \notin {p, "main"}
      BY <1>10
    <3> QED
      BY <1>9, <1>10, <3>1 DEF Worked
  <2>7. conn'[r] = conn[r] /\ status'[r] = status[r] /\ got'[r] = got[r]
    BY <1>1
  <2> QED
    BY <1>1, <2>1, <2>2, <2>3, <2>4, <2>5, <2>6, <2>7, ControlMoves
<1>12. ASSUME NEW v \in Worker
       PROVE  BufOK(v)'
  <2>1. BufOK(v)
    BY DEF SInv, StreamsOK
  <2>2. /\ buf'[v] = buf[v]
        /\ at'[v] = at[v] \/ (at[v] \notin Serving \union {"ended", "reaped"} /\ at'[v] # "send")
    BY <1>1, <1>6, <1>10 DEF Serving
  <2> QED
    BY <1>1, <2>1, <2>2, BufferKeeps
<1> QED
  BY <1>1, <1>11, <1>12 DEF SInv, StreamsOK, StreamTypes

\* A child that waitpid() returns has no connection any more.
LEMMA ReapedIsGone ==
  ASSUME HInv, Architecture = "fork", at["main"] = "wait", NEW p \in Client, at[p] = "ended"
  PROVE  ~Kept(p)
<1>1. ~Queued(p)
  BY DEF HInv, CInv, FreshOK
<1>2. ASSUME NEW P \in Worker, p \in fds[P]
      PROVE  FALSE
  <2>1. Handles(P, p)
    BY <1>2, HoldsOne DEF HInv
  <2>2. P \in Client
    BY <2>1, ServersAssumption DEF Handles, HInv, CInv, PlacesOK, PlacesOf, Worker
  <2>3. sock[P] = P
    BY <2>1, <2>2 DEF Handles, HInv, CInv, WorkersOK
  <2> QED
    BY <2>1, <2>3 DEF Handles
<1> QED
  BY <1>1, <1>2 DEF Kept

\* Workers come and go, and no connection is touched.
LEMMA PlacesMove ==
  ASSUME HInv, HInv', SInv, UNCHANGED <<program, conn, fds, backlog, status, got, buf>>,
         \A v \in Worker :
           \/ at'[v] = at[v] /\ sock'[v] = sock[v]
           \/ /\ at[v] \in {"select", "accept", "wait", "create"} /\ at'[v] \in {"select", "accept"}
              /\ sock'[v] = sock[v]
           \/ /\ at[v] = "ended" /\ at'[v] = "reaped" /\ sock'[v] = sock[v]
              /\ Architecture = "fork" /\ at["main"] = "wait"
           \/ at[v] = "start" /\ at'[v] = "receive" /\ sock'[v] = sock[v] /\ Architecture = "thread"
           \/ at[v] = "none" /\ at'[v] = "start" /\ sock'[v] = v /\ Worked(v, {"create"})
  PROVE  StreamsOK'
<1>1. ASSUME NEW p \in Client
      PROVE  PInv(p)'
  <2>1. (Queued(p)' <=> Queued(p)) /\ (Kept(p)' <=> Kept(p))
    BY DEF Kept, Queued
  <2>2. at[p] = "ended" => at'[p] = "ended" \/ ~Kept(p)
    BY Processes, ReapedIsGone
  <2>3. \A w \in Worker : Serves(w, p) => Serves(w, p)'
    BY DEF Serves, Serving
  <2>4. ASSUME NEW w \in Worker, Serves(w, p)'
        PROVE  /\ buf'[w] = buf[w]
               /\ \/ Serves(w, p) /\ at'[w] = at[w]
                  \/ /\ at'[w] = "receive" /\ at[w] \notin Serving \union {"ended", "reaped"}
                     /\ Queued(p) \/ Architecture = "fork" \/ (Architecture = "thread" /\ Worked(p, {"start"}))
    <3>1. \/ at'[w] = at[w] /\ sock'[w] = sock[w]
          \/ at[w] = "start" /\ at'[w] = "receive" /\ sock'[w] = sock[w] /\ Architecture = "thread"
      BY <2>4 DEF Serves, Serving
    <3> QED
      BY <2>4, <3>1 DEF Serves, Serving, Worked
  <2>5. Worked(p, {"create", "start"})' => Worked(p, {"create", "start"}) \/ Queued(p)
    BY DEF Worked
  <2>6. conn'[p] = conn[p] /\ status'[p] = status[p] /\ got'[p] = got[p] /\ (Queued(p)' => Queued(p))
    BY <2>1
  <2> QED
    BY <2>1, <2>2, <2>3, <2>4, <2>5, <2>6, ControlMoves
<1>2. ASSUME NEW v \in Worker
      PROVE  BufOK(v)'
  <2>1. BufOK(v)
    BY DEF SInv, StreamsOK
  <2>2. \/ at'[v] = at[v] /\ buf'[v] = buf[v]
        \/ buf'[v] \in {buf[v], <<>>} /\ at'[v] \in {"ended", "reaped"}
        \/ at[v] \notin Serving \union {"ended", "reaped"} /\ buf'[v] = buf[v] /\ at'[v] # "send"
    BY DEF Serving
  <2> QED
    BY <2>1, <2>2, BufferKeeps
<1> QED
  BY <1>1, <1>2 DEF SInv, StreamsOK, StreamTypes

\* The steps of main() besides sessions, those of a child or thread before its session,
\* and those of a user at the server.
LEMMA LoopKeepsS ==
  ASSUME HInv, HInv', SInv, NEW w \in Worker,
         \/ w = "main" /\ MainStep
         \/ w \in Client /\ (ChildBegins(w) \/ Start(w))
         \/ Stops(w)
         \/ HitReturn
         \/ UNCHANGED svars
  PROVE  StreamsOK'
<1>0. /\ "main" \in Worker /\ Client \subseteq Worker
      /\ at \in [Worker -> Places] /\ sock \in [Worker -> Client \union {"nobody"}]
      /\ at["main"] \in PlacesOf("main") /\ at[w] \in PlacesOf(w) /\ "main" \notin Client /\ "main" \notin Pool
      /\ \A p \in Client : conn[p] = conn[p]
  BY Processes, ServersAssumption DEF HInv, CInv, ControlTypes, PlacesOK
<1>1. CASE w = "main" /\ Select
  <2>1. /\ UNCHANGED <<program, conn, fds, backlog, status, got, buf, sock>> /\ at["main"] = "select"
        /\ at' = [at EXCEPT !["main"] = IF ready' = {} THEN "select" ELSE "accept"]
    BY <1>1 DEF Select, chosen, kernel, clients
  <2> QED
    BY <1>0, <2>1, PlacesMove
<1>2. CASE w = "main" /\ ShutDown
  <2>1. UNCHANGED <<program, sock, status, got>> /\ Exit("main", conn) /\ buf' = buf
    BY <1>2 DEF ShutDown, chosen, clients
  <2> QED
    BY <1>0, <2>1, ExitKeepsS
<1>3. CASE w = "main" /\ Wait
  <2>1. UNCHANGED <<program, sock, buf, status, got>> /\ at["main"] = "wait"
    BY <1>3 DEF Wait, chosen, clients
  <2>2. Architecture = "fork"
    BY <1>0, <2>1 DEF PlacesOf, Serving
  <2>3. \/ Exit("main", conn)
        \/ UNCHANGED kernel /\ at' = [at EXCEPT !["main"] = "accept"]
        \/ UNCHANGED kernel /\ \E p \in Zombies : at' = [at EXCEPT ![p] = "reaped"]
    BY <1>3 DEF Wait
  <2>4. CASE Exit("main", conn)
    BY <1>0, <2>1, <2>4, ExitKeepsS
  <2>5. CASE UNCHANGED kernel /\ at' = [at EXCEPT !["main"] = "accept"]
    BY <1>0, <2>1, <2>5, PlacesMove DEF kernel
  <2>6. CASE UNCHANGED kernel /\ \E p \in Zombies : at' = [at EXCEPT ![p] = "reaped"]
    BY <1>0, <2>1, <2>2, <2>6, PlacesMove DEF kernel, Zombies
  <2> QED
    BY <2>3, <2>4, <2>5, <2>6
<1>4. CASE w = "main" /\ CreateThread
  <2>1. UNCHANGED <<program, buf, status, got>> /\ at["main"] = "create"
    BY <1>4 DEF CreateThread, chosen, clients
  <2>2. PICK p : p = sock["main"]
    OBVIOUS
  <2>3. \/ /\ sock' = [sock EXCEPT ![p] = p] /\ UNCHANGED kernel
           /\ at' = [at EXCEPT !["main"] = "accept", ![p] = "start"]
        \/ Exit("main", conn) /\ UNCHANGED sock
        \/ at' = [at EXCEPT !["main"] = "accept"] /\ UNCHANGED kernel /\ UNCHANGED sock
    BY <1>4, <2>2 DEF CreateThread
  <2>4. CASE /\ sock' = [sock EXCEPT ![p] = p] /\ UNCHANGED kernel
             /\ at' = [at EXCEPT !["main"] = "accept", ![p] = "start"]
    <3>1. p \in Client /\ at[p] = "none"
      <4>1. sock["main"] \in fds[Process("main")] /\ at[p] = "none"
        BY <1>0, <2>1, <2>2 DEF HInv, CInv, WorkersOK, Busy
      <4> QED
        BY <1>0, <2>2, <4>1, Processes DEF HInv, CInv, ControlTypes
    <3>2. p # "main" /\ Worked(p, {"create"})
      BY <1>0, <2>1, <2>2, <3>1 DEF Worked
    <3>3. /\ at'["main"] = "accept" /\ at'[p] = "start" /\ sock'[p] = p
          /\ \A v \in Worker : v \notin {"main", p} => at'[v] = at[v] /\ sock'[v] = sock[v]
          /\ sock'["main"] = sock["main"]
      BY <1>0, <2>4, <3>1, <3>2
    <3>4. ASSUME NEW v \in Worker
          PROVE  \/ at'[v] = at[v] /\ sock'[v] = sock[v]
                 \/ /\ at[v] \in {"select", "accept", "wait", "create"} /\ at'[v] \in {"select", "accept"}
                    /\ sock'[v] = sock[v]
                 \/ at[v] = "none" /\ at'[v] = "start" /\ sock'[v] = v /\ Worked(v, {"create"})
      BY <2>1, <3>1, <3>2, <3>3
    <3> QED
      BY <2>1, <2>4, <3>4, PlacesMove DEF kernel
  <2>5. CASE Exit("main", conn) /\ UNCHANGED sock
    BY <1>0, <2>1, <2>5, ExitKeepsS
  <2>6. CASE at' = [at EXCEPT !["main"] = "accept"] /\ UNCHANGED kernel /\ UNCHANGED sock
    BY <1>0, <2>1, <2>6, PlacesMove DEF kernel
  <2> QED
    BY <2>3, <2>4, <2>5, <2>6
<1>5. CASE w \in Client /\ Start(w)
  <2>1. /\ UNCHANGED <<program, conn, fds, backlog, status, got, buf, sock>> /\ at[w] = "start"
        /\ at' = [at EXCEPT ![w] = "receive"]
    BY <1>5 DEF Start, chosen, kernel, clients
  <2>2. Architecture = "thread"
    BY <1>0, <1>5, <2>1, ServersAssumption DEF PlacesOf, Serving
  <2> QED
    BY <1>0, <2>1, <2>2, PlacesMove
<1>6. CASE Stops(w)
  <2>1. UNCHANGED <<program, sock, status, got>> /\ Exit(w, conn) /\ buf' = buf
    BY <1>6 DEF Stops, Interrupt, CallFails, chosen, clients
  <2> QED
    BY <1>0, <2>1, ExitKeepsS
<1>7. CASE HitReturn \/ UNCHANGED svars
  <2>1. UNCHANGED <<program, conn, fds, backlog, status, got, buf, sock, at>>
    BY <1>7 DEF HitReturn, svars, chosen, kernel, workers, clients
  <2> QED
    BY <2>1, PlacesMove
<1> QED
  BY <1>1, <1>2, <1>3, <1>4, <1>5, <1>6, <1>7, ForkKeepsS, ForkedKeepS DEF MainStep

-----------------------------------------------------------------------------
(* A step of a session. *)

\* A client that is served has nobody else to serve it.
Alone ==
  \A p \in Client, v \in Worker, w \in Worker :
    Serves(w, p) /\ sock[v] = p /\ at[v] \in {"create", "start"} \union Serving => v = w

LEMMA ServedAlone == HInv => Alone
<1> SUFFICES ASSUME HInv, NEW p \in Client, NEW v \in Worker, NEW w \in Worker, Serves(w, p),
                    sock[v] = p, at[v] \in {"create", "start"} \union Serving
             PROVE  v = w
  BY DEF Alone
<1>1. CASE at[v] \in Serving
  BY <1>1, OneServer DEF Serves
<1>2. CASE at[v] \in {"create", "start"}
  <2>1. Architecture = "thread"
    BY <1>2, ServersAssumption DEF HInv, CInv, PlacesOK, PlacesOf, Worker, Serving
  <2>2. Process(v) = Process(w) /\ Handles(v, p) /\ Handles(w, p)
    BY <1>2, <2>1, Processes DEF Handles, Serves, Serving
  <2> QED
    BY <2>2, OneHandler DEF HInv
<1> QED
  BY <1>1, <1>2

LEMMA StaysAlone == (HInv => Alone)'
BY ServedAlone, PTL

\* What is so of a client that is served.
LEMMA ServedFacts ==
  ASSUME HInv, SInv, NEW p \in Client, NEW w \in Worker, Serves(w, p)
  PROVE  /\ PInv(p) /\ BufOK(w) /\ Shaped(conn[p])
         /\ Kept(p) /\ ~Queued(p) /\ IsOpen(conn[p], "server") /\ Held(p) = buf[w]
         /\ status[p] \notin {"start", "refused"} /\ Lively(p)
<1>1. PInv(p) /\ BufOK(w)
  BY DEF SInv, StreamsOK
<1>2. Kept(p) /\ ~Queued(p)
  BY BusyIsKept DEF Serves, Busy, Serving
<1>3. IsOpen(conn[p], "server") /\ Shaped(conn[p])
  BY <1>1, <1>2 DEF PInv, OpenOK, ClientOK
<1>4. status[p] \notin {"start", "refused"}
  BY <1>1, <1>3 DEF PInv, ClientOK, IsOpen, Idle, Ends
<1>5. Held(p) = buf[w]
  BY HeldBy
<1>6. at[p] # "ended"
  <2>1. CASE Architecture \in {"fork", "thread"}
    <3>1. w \in Client
      BY <2>1, ServersAssumption DEF Serves, Serving, HInv, CInv, PlacesOK, PlacesOf, Worker
    <3>2. w = p
      BY <3>1 DEF Serves, Serving, HInv, CInv, WorkersOK
    <3> QED
      BY <3>2 DEF Serves, Serving
  <2>2. CASE Architecture \notin {"fork", "thread"}
    BY <2>2, Processes, ServersAssumption DEF HInv, CInv, PlacesOK, PlacesOf
  <2> QED
    BY <2>1, <2>2
<1> QED
  BY <1>1, <1>2, <1>3, <1>4, <1>5, <1>6 DEF Lively

\* A worker goes on with its session: nothing else changes but its connection and buffer.
GoesOn(w, x, b, d) ==
  /\ UNCHANGED <<program, fds, backlog, sock, status, got>>
  /\ at[w] \in Serving /\ x \in Serving
  /\ DOMAIN buf' = Worker /\ DOMAIN conn' = Client
  /\ at'[w] = x /\ buf'[w] = b /\ conn'[sock[w]] = d
  /\ \A v \in Worker : v # w => at'[v] = at[v] /\ buf'[v] = buf[v]
  /\ \A p \in Client : p # sock[w] => conn'[p] = conn[p]

LEMMA GoingOn ==
  ASSUME HInv, SInv, UNCHANGED <<program, fds, backlog, sock, status, got>>,
         NEW w \in Worker, sock[w] \in Client, NEW x \in Serving, NEW b, NEW d, at[w] \in Serving,
         at' = [at EXCEPT ![w] = x],
         buf' = [buf EXCEPT ![w] = b] \/ (buf' = buf /\ b = buf[w]),
         conn' = [conn EXCEPT ![sock[w]] = d] \/ (conn' = conn /\ d = conn[sock[w]])
  PROVE  GoesOn(w, x, b, d)
<1>1. at \in [Worker -> Places] /\ DOMAIN conn = Client /\ DOMAIN buf = Worker
  BY DEF HInv, CInv, ControlTypes, SInv, StreamsOK, StreamTypes
<1>2. at'[w] = x /\ \A v \in Worker : v # w => at'[v] = at[v]
  BY <1>1
<1>3. DOMAIN buf' = Worker /\ buf'[w] = b /\ \A v \in Worker : v # w => buf'[v] = buf[v]
  BY <1>1
<1>4. DOMAIN conn' = Client /\ conn'[sock[w]] = d /\ \A p \in Client : p # sock[w] => conn'[p] = conn[p]
  BY <1>1
<1> QED
  BY <1>2, <1>3, <1>4 DEF GoesOn

LEMMA Served ==
  ASSUME HInv, NEW w \in Worker, at[w] \in Serving
  PROVE  sock[w] \in Client /\ Serves(w, sock[w])
<1>1. sock[w] \in fds[Process(w)] /\ Process(w) \in Worker /\ fds \in [Worker -> SUBSET Client]
  BY Processes DEF HInv, CInv, ControlTypes, WorkersOK, Busy
<1> QED
  BY <1>1 DEF Serves

\* What it means for the session.
OwnStep(w, p, x, b, d) ==
  /\ conn'[p] = d /\ status'[p] = status[p] /\ got'[p] = got[p] /\ Kind' = Kind
  /\ Architecture' = Architecture
  /\ at'[w] = x /\ buf'[w] = b /\ Held(p)' = b
  /\ Kept(p)' /\ ~Queued(p)'
  /\ Worked(p, ToSend)' <=> x \in ToSend
  /\ Worked(p, {"send", "close"})' <=> x \in {"send", "close"}
  /\ Worked(p, {"close"})' <=> x = "close"
  /\ Worked(p, {"receive", "send"})' <=> x \in {"receive", "send"}
  /\ at'[p] = "ended" => at[p] = "ended"

LEMMA OwnSession ==
  ASSUME HInv, HInv', SInv, NEW w \in Worker, NEW x, NEW b, NEW d, GoesOn(w, x, b, d),
         NEW p \in Client, Serves(w, p)
  PROVE  OwnStep(w, p, x, b, d)
<1>0. p = sock[w]
  BY DEF Serves
<1>1. at \in [Worker -> Places] /\ DOMAIN conn = Client /\ DOMAIN buf = Worker /\ at[w] \in Serving /\ x \in Serving
  BY DEF HInv, CInv, ControlTypes, SInv, StreamsOK, StreamTypes, GoesOn
<1>2. conn'[p] = d /\ at'[w] = x /\ buf'[w] = b /\ sock'[w] = p /\ UNCHANGED <<program, fds, backlog, status, got>>
  BY <1>0, <1>1 DEF GoesOn
<1>3. Serves(w, p)'
  BY <1>1, <1>2 DEF Serves
<1>4. Kept(p)' /\ ~Queued(p)'
  BY <1>1, <1>2, BusyWillBeKept DEF Busy
<1>5. Held(p)' = b
  BY <1>2, <1>3, HeldStaysRight DEF HeldRight
<1>6. ASSUME NEW v \in Worker, sock'[v] = p, at'[v] \in {"create", "start"} \union Serving
      PROVE  v = w
  BY <1>3, <1>6, StaysAlone DEF Alone
<1>7. Kind' = Kind /\ Architecture' = Architecture /\ ToSend' = ToSend
  BY <1>2, SameProgram DEF ToSend
<1>8. ToSend \subseteq {"create", "start"} \union Serving
  BY DEF ToSend, Serving
<1>9. /\ Worked(p, ToSend)' <=> x \in ToSend
      /\ Worked(p, {"send", "close"})' <=> x \in {"send", "close"}
      /\ Worked(p, {"close"})' <=> x = "close"
      /\ Worked(p, {"receive", "send"})' <=> x \in {"receive", "send"}
  BY <1>1, <1>2, <1>6, <1>7, <1>8 DEF Worked, Serving
<1>10. at'[p] = "ended" => at[p] = "ended"
  BY <1>1, <1>2, Processes DEF GoesOn, Serving
<1> QED
  BY <1>2, <1>4, <1>5, <1>7, <1>9, <1>10 DEF OwnStep

\* What it means for the others: nothing.
LEMMA OtherSessions ==
  ASSUME HInv, HInv', SInv, NEW w \in Worker, NEW x, NEW b, NEW d, GoesOn(w, x, b, d),
         PInv(sock[w])', BufOK(w)'
  PROVE  StreamsOK'
<1>0. PICK p \in Client : p = sock[w]
  BY Served DEF GoesOn
<1>1. at \in [Worker -> Places] /\ DOMAIN conn = Client /\ DOMAIN buf = Worker /\ at[w] \in Serving /\ x \in Serving
  BY DEF HInv, CInv, ControlTypes, SInv, StreamsOK, StreamTypes, GoesOn
<1>2. /\ UNCHANGED <<program, fds, backlog, sock, status, got>>
      /\ DOMAIN buf' = Worker /\ DOMAIN conn' = Client /\ \A r \in Client : r # p => conn'[r] = conn[r]
  BY <1>0 DEF GoesOn
<1>3. \A v \in Worker : v # w => at'[v] = at[v] /\ buf'[v] = buf[v]
  BY DEF GoesOn
<1>4. ASSUME NEW r \in Client, r # p
      PROVE  PInv(r)'
  <2>1. conn'[r] = conn[r] /\ status'[r] = status[r] /\ got'[r] = got[r]
    BY <1>1, <1>2, <1>4
  <2>2. (Queued(r)' <=> Queued(r)) /\ (Kept(r)' <=> Kept(r))
    BY <1>2 DEF Queued, Kept
  <2>3. at[r] = "ended" => at'[r] = "ended"
    BY <1>1, <1>3, Processes DEF Serving
  <2>4. \A v \in Worker : sock[v] = r => v # w
    BY <1>0, <1>4
  <2>5. \A v \in Worker : Serves(v, r) => Serves(v, r)'
    BY <1>2, <1>3, <2>4 DEF Serves
  <2>6. \A v \in Worker : Serves(v, r)' => buf'[v] = buf[v] /\ Serves(v, r) /\ at'[v] = at[v]
    BY <1>2, <1>3, <2>4 DEF Serves
  <2>7. Worked(r, {"create", "start"})' => Worked(r, {"create", "start"})
    BY <1>2, <1>3, <2>4 DEF Worked
  <2> QED
    BY <1>2, <2>1, <2>2, <2>3, <2>5, <2>6, <2>7, ControlMoves
<1>5. ASSUME NEW v \in Worker, v # w
      PROVE  BufOK(v)'
  <2>1. BufOK(v) /\ at'[v] = at[v] /\ buf'[v] = buf[v]
    BY <1>3, <1>5 DEF SInv, StreamsOK
  <2> QED
    BY <1>2, <2>1, BufferKeeps
<1>6. PInv(p)'
  <2>1. sock' = sock
    BY <1>2
  <2> QED
    BY <1>0, <2>1
<1>7. StreamTypes'
  BY <1>1, <1>2 DEF SInv, StreamsOK, StreamTypes
<1> QED
  BY <1>4, <1>5, <1>6, <1>7 DEF StreamsOK

LEMMA LesserOfTwo ==
  ASSUME NEW a \in Int, NEW b \in Int
  PROVE  Min({a, b}) \in Int /\ Min({a, b}) <= a /\ Min({a, b}) <= b
<1> DEFINE S == {a, b}
<1>1. \E x \in S : \A y \in S : x <= y
  <2>1. CASE a <= b
    BY <2>1
  <2>2. CASE b <= a
    BY <2>2
  <2> QED
    BY <2>1, <2>2
<1>2. S \subseteq Int /\ a \in S /\ b \in S
  OBVIOUS
<1> HIDE DEF S
<1>3. Min(S) \in S /\ \A y \in S : Min(S) <= y
  BY <1>1 DEF Min
<1> QED
  BY <1>2, <1>3 DEF S

\* What has been read of a number.
Partial(b) == Kind = "plus one" => b \in Seq(Byte)

\* recv() returns at least one byte, and no more than have arrived.
Fits(k, s, b) ==
  /\ k \in 1 .. Len(s) /\ (Kind \notin {"echo", "plus one"} => k = Len(s))
  /\ Kind = "plus one" => k <= 2 - Len(b)

LEMMA SomeArrive ==
  ASSUME NEW s \in Seq(Byte), NEW b, Partial(b), s # <<>>, NEW k \in Sizes(s, b)
  PROVE  Fits(k, s, b)
<1>1. Len(s) \in Nat \ {0}
  BY EmptySeq
<1> DEFINE n == Len(s)
           m == Len(b)
           e == Min({BUFSIZE, n})
           f == Min({2 - m, n})
<1>2. CASE Kind = "echo"
  <2>1. BUFSIZE \in Nat \ {0}
    BY ServersAssumption
  <2>2. k \in 1 .. e
    BY <1>2 DEF Sizes
  <2>3. e \in Int /\ e <= n
    <3>1. BUFSIZE \in Int /\ n \in Int
      BY <1>1, <2>1
    <3> QED
      BY <3>1, LesserOfTwo
  <2> HIDE DEF n, e
  <2>4. k \in 1 .. n
    BY <1>1, <2>2, <2>3 DEF n
  <2> QED
    BY <1>2, <2>4 DEF n, Fits
<1>3. CASE Kind = "plus one"
  <2>1. m \in Nat
    BY <1>3, LenProperties DEF Partial
  <2>2. k \in 1 .. f
    BY <1>3 DEF Sizes
  <2>3. f \in Int /\ f <= n /\ f <= 2 - m
    <3>1. 2 - m \in Int /\ n \in Int
      BY <1>1, <2>1
    <3> QED
      BY <3>1, LesserOfTwo
  <2> HIDE DEF n, m, f
  <2>4. k \in 1 .. n /\ k <= 2 - m
    BY <1>1, <2>1, <2>2, <2>3 DEF n
  <2> QED
    BY <1>3, <2>4 DEF n, m, Fits
<1>4. CASE Kind \notin {"echo", "plus one"}
  <2>1. k = n
    BY <1>4 DEF Sizes
  <2>2. n \in 1 .. n
    BY <1>1
  <2>3. k \in 1 .. n /\ Kind # "plus one"
    BY <1>4, <2>1, <2>2
  <2> QED
    BY <2>1, <2>3 DEF Fits
<1> QED
  BY <1>2, <1>3, <1>4

\* A word is of two bytes here.
LEMMA WordsAreTwo ==
  ASSUME NEW p \in Client
  PROVE  Word[p] \in Seq(Byte) /\ Len(Word[p]) = 2 /\ Word[p] \in [1 .. 2 -> 0 .. BYTE - 1]
<1>1. Word[p] \in [1 .. 2 -> 0 .. BYTE - 1] /\ BYTE \in Nat
  BY ServersAssumption
<1>2. 0 .. BYTE - 1 \subseteq Byte
  BY <1>1 DEF Byte
<1>3. Word[p] \in Seq(Byte)
  <2>1. Word[p] \in [1 .. 2 -> Byte]
    BY <1>1, <1>2
  <2>2. 2 \in Nat
    OBVIOUS
  <2> QED
    BY <2>1, <2>2, SeqDef
<1>4. Len(Word[p]) \in Nat /\ 1 .. Len(Word[p]) = 1 .. 2
  BY <1>1, <1>3, LenProperties
<1> QED
  BY <1>1, <1>3, <1>4

\* A word that is cut elsewhere is the same word.
CutElsewhere(a, b, r, h, s) == b \o r = h \o s => (a \o b) \o r = (a \o h) \o s

LEMMA SameWhole ==
  ASSUME NEW a \in Seq(Byte), NEW b \in Seq(Byte), NEW r \in Seq(Byte), NEW h \in Seq(Byte), NEW s \in Seq(Byte)
  PROVE  CutElsewhere(a, b, r, h, s)
<1>1. Regroups(a, b, r) /\ Regroups(a, h, s)
  BY BytesRegroup
<1>2. \A x, y : x = y => a \o x = a \o y
  OBVIOUS
<1>3. PICK x, y : x = b \o r /\ y = h \o s
  OBVIOUS
<1>4. (a \o b) \o r = a \o x /\ (a \o h) \o s = a \o y
  BY <1>1, <1>3, Zenon DEF Regroups
<1>5. b \o r = h \o s => x = y
  BY <1>3, Zenon
<1> QED
  BY <1>2, <1>4, <1>5, Zenon DEF CutElsewhere

\* Where the worker is when it has read b.
NextPlace(b) == IF Kind = "plus one" /\ Len(b) < 2 THEN "receive" ELSE "send"

\* The worker w of p reads the bytes t, and r are left.
Takes(w, p, t, r, x, b, d) ==
  /\ p = sock[w] /\ at[w] = "receive" /\ Kind # "vote"
  /\ t \in Seq(Byte) /\ r \in Seq(Byte) /\ conn[p]["client"].data = t \o r /\ t # <<>>
  /\ Kind \notin {"echo", "plus one"} => r = <<>>
  /\ Kind = "plus one" => Len(b) <= 2
  /\ b = buf[w] \o t /\ x = NextPlace(b) /\ d = SetData(conn[p], "client", r)

\* Bytes move from the stream to the worker's buffer.
LEMMA TakingKeepsP ==
  ASSUME HInv, HInv', SInv, NEW w \in Worker, NEW p \in Client, NEW t, NEW r, NEW x, NEW b, NEW d,
         Takes(w, p, t, r, x, b, d), GoesOn(w, x, b, d)
  PROVE  PInv(p)' /\ BufOK(w)'
<1>0. p = sock[w] /\ at[w] = "receive" /\ Kind # "vote"
  BY DEF Takes
<1>1. Serves(w, p) /\ at[w] \in Serving
  BY <1>0, Served DEF Serving
<1>2. /\ PInv(p) /\ BufOK(w) /\ Shaped(conn[p])
      /\ Kept(p) /\ ~Queued(p) /\ IsOpen(conn[p], "server") /\ Held(p) = buf[w]
      /\ status[p] \notin {"start", "refused"} /\ Lively(p)
  BY <1>1, ServedFacts
<1>3. OwnStep(w, p, x, b, d)
  BY <1>1, OwnSession
<1>4. Shaped(d) /\ d["server"] = conn[p]["server"] /\ d["client"].data = r /\ d["client"].end = conn[p]["client"].end
  <2>1. d = SetData(conn[p], "client", r)
    BY DEF Takes
  <2> QED
    BY <1>2, <2>1, EndsAre, SetDataShape
<1>5. PICK s : s = conn[p]["client"].data
  OBVIOUS
<1>t. t \in Seq(Byte) /\ r \in Seq(Byte) /\ t # <<>> /\ b = buf[w] \o t
  BY DEF Takes
<1>6. /\ s \in Seq(Byte) /\ s # <<>> /\ s = t \o r /\ buf[w] \in Seq(Byte)
  <2>1. s = t \o r /\ s \in Seq(Byte) /\ buf[w] \in Seq(Byte)
    BY <1>0, <1>2, <1>5 DEF PInv, ClientOK, BufOK, Takes
  <2>2. t \o r # <<>>
    BY <1>t, ConcatEqualIffEmpty
  <2> QED
    BY <2>1, <2>2
<1>h. PICK h : h = buf[w]
  OBVIOUS
<1>7. b \in Seq(Byte) /\ b # <<>> /\ b \o r = buf[w] \o s /\ Len(b) \in Nat
  <2>0. h \in Seq(Byte)
    BY <1>6, <1>h
  <2>1. h \o t \in Seq(Byte) /\ h \o t # <<>>
    BY <2>0, <1>t, ConcatProperties, ConcatEqualIffEmpty
  <2>2. (h \o t) \o r = h \o (t \o r)
    <3>1. Regroups(h, t, r)
      BY <2>0, <1>t, BytesRegroup
    <3> QED
      BY <3>1, Zenon DEF Regroups
  <2>3. b = h \o t /\ b \o r = h \o s
    BY <1>6, <1>h, <1>t, <2>2
  <2> QED
    BY <1>h, <2>1, <2>3, LenProperties
<1>8. status[p] # "connected"
  BY <1>2, <1>5, <1>6 DEF PInv, ClientOK
<1>8a. ASSUME Kind = "plus one"
       PROVE  Len(b) \in 0 .. 2 /\ (x = "send" => Len(b) = 2) /\ (x = "receive" => Len(b) < 2)
  <2>1. PICK n \in Nat : n = Len(b)
    BY <1>7
  <2>2. n <= 2 /\ x = IF n < 2 THEN "receive" ELSE "send"
    BY <1>8a, <2>1 DEF Takes, NextPlace
  <2>3. n \in 0 .. 2 /\ (x = "send" => n = 2) /\ (x = "receive" => n < 2)
    BY <2>2
  <2> QED
    BY <2>1, <2>3
<1>9. BufOK(w)'
  <2>1. x \in {"receive", "send"} /\ (x = "receive" => Kind = "plus one")
    BY DEF Takes, NextPlace
  <2> QED
    BY <1>3, <1>7, <1>8a, <2>1 DEF BufOK, Serving, OwnStep
<1>10. OpenOK(p)'
  BY <1>2, <1>3, <1>4 DEF OpenOK, IsOpen, OwnStep
<1>11. ClientOK(p)'
  BY <1>2, <1>3, <1>4, <1>8, <1>t DEF PInv, ClientOK, IsOpen, OwnStep
<1>12. Kind = "plus one" => buf[w] \o s \in {<<>>, Word[p]} /\ (status[p] = "reading" => buf[w] \o s = Word[p])
  <2>1. Worked(p, {"receive", "send"})
    BY <1>0 DEF Worked
  <2> QED
    BY <1>2, <1>5, <2>1 DEF PInv, PlusOK
<1>13. OnceOK(p)'
  <2>1. Unsent(p)
    BY <1>5, <1>6 DEF Unsent
  <2>2. ASSUME Kind # "echo", x \in {"send", "close"} PROVE r = <<>>
    <3>0. x = "send"
      BY <2>2 DEF Takes, NextPlace
    <3>1. CASE Kind = "plus one"
      <4>1. Len(b) = 2
        BY <1>8a, <3>0, <3>1
      <4>2. b \o r \in {<<>>, Word[p]}
        BY <1>7, <1>12, <3>1
      <4>3. Len(b \o r) = Len(b) + Len(r) /\ Len(r) \in Nat
        BY <1>7, <1>t, ConcatProperties, LenProperties
      <4>4. Len(b \o r) \in {0, 2}
        BY <4>2, WordsAreTwo, EmptySeq
      <4>5. Len(r) = 0
        BY <4>1, <4>3, <4>4
      <4> QED
        BY <4>5, EmptySeq
    <3> QED
      BY <2>2, <3>1 DEF Takes
  <2> QED
    BY <1>2, <1>3, <1>4, <1>8, <2>1, <2>2 DEF PInv, OnceOK, OwnStep
<1>14. PlusOK(p)'
  BY <1>2, <1>3, <1>4, <1>7, <1>8, <1>12 DEF PlusOK, OwnStep
<1>15. EchoOK(p)'
  <2>1. ASSUME Kind = "echo", status[p] = "reading"
        PROVE  got[p] \o d["server"].data \o b \o r = Word[p]
    <3>1. PICK a : a = got[p] \o conn[p]["server"].data
      OBVIOUS
    <3>2. a \in Seq(Byte)
      BY <1>2, <2>1, <3>1, ConcatProperties DEF PInv, ClientOK
    <3>3. a \o buf[w] \o s = Word[p]
      BY <1>2, <1>5, <2>1, <3>1 DEF PInv, EchoOK
    <3>4. h \in Seq(Byte) /\ b \in Seq(Byte) /\ s \in Seq(Byte) /\ r \in Seq(Byte) /\ b \o r = h \o s
      BY <1>6, <1>7, <1>h, <1>t
    <3>5. (a \o b) \o r = (a \o h) \o s
      <4>1. CutElsewhere(a, b, r, h, s)
        <5>1. h \in Seq(Byte) /\ b \in Seq(Byte) /\ s \in Seq(Byte) /\ r \in Seq(Byte)
          BY <3>4
        <5> QED
          BY <3>2, <5>1, SameWhole
      <4> QED
        BY <3>4, <4>1 DEF CutElsewhere
    <3>6. a \o b \o r = Word[p]
      BY <1>h, <3>3, <3>5
    <3> QED
      BY <1>4, <3>1, <3>6
  <2>2. x # "close"
    BY DEF Takes, NextPlace
  <2> QED
    BY <1>3, <1>4, <1>8, <2>1, <2>2 DEF EchoOK, OwnStep
<1>16. EndOK(p)'
  BY <1>2, <1>3, <1>4, <1>5, <1>6 DEF PInv, EndOK, Ended, IsOpen, OwnStep
<1>17. AnswerOK(p)'
  <2>1. Answer(p)' = Answer(p)
    BY <1>3 DEF Answer, PlusOne, OwnStep
  <2> QED
    BY <1>2, <1>3, <1>4, <2>1 DEF PInv, AnswerOK, OwnStep
<1> QED
  BY <1>9, <1>10, <1>11, <1>13, <1>14, <1>15, <1>16, <1>17 DEF PInv

\* VoteServerTCP: a vote, or end-of-file, or an error is read.
LEMMA VoteKeepsP ==
  ASSUME HInv, HInv', SInv, NEW w \in Worker, NEW p \in Client, Serves(w, p), at[w] = "receive", Kind = "vote",
         NEW x \in {"send", "close"}, NEW b, NEW d, GoesOn(w, x, b, d),
         Shaped(d), d["server"] = conn[p]["server"], d["client"].data = <<>>,
         \/ d["client"].end = conn[p]["client"].end
         \/ conn[p]["client"].end = "rst" /\ d["client"].end = "broken" /\ x = "close",
         x = "send" => conn[p]["client"].data # <<>>,
         conn[p]["client"].data # <<>> \/ ~IsOpen(conn[p], "client")
  PROVE  PInv(p)' /\ BufOK(w)'
<1>1. /\ PInv(p) /\ BufOK(w) /\ Shaped(conn[p])
      /\ Kept(p) /\ ~Queued(p) /\ IsOpen(conn[p], "server") /\ Held(p) = buf[w]
      /\ status[p] \notin {"start", "refused"} /\ Lively(p)
  BY ServedFacts
<1>2. OwnStep(w, p, x, b, d)
  BY OwnSession
<1>3. status[p] # "connected"
  BY <1>1 DEF PInv, ClientOK
<1>4. IsOpen(d, "client") <=> IsOpen(conn[p], "client")
  BY DEF IsOpen
<1>5. OpenOK(p)'
  BY <1>1, <1>2 DEF OpenOK, IsOpen, OwnStep
<1>6. ClientOK(p)'
  BY <1>1, <1>2, <1>3, <1>4, EmptySeq DEF PInv, ClientOK, OwnStep
<1>7. OnceOK(p)'
  <2>1. x = "send" => Unsent(p)
    BY DEF Unsent
  <2>2. Unsent(p)' => x = "send"
    BY <1>2, <1>3 DEF Unsent, OwnStep, ToSend
  <2> QED
    BY <1>1, <1>2, <1>3, <2>1, <2>2 DEF PInv, OnceOK, OwnStep
<1>8. PlusOK(p)' /\ EchoOK(p)' /\ EndOK(p)' /\ AnswerOK(p)'
  BY <1>2 DEF PlusOK, EchoOK, EndOK, AnswerOK, OwnStep
<1>9. BufOK(w)'
  BY <1>2 DEF BufOK, OwnStep, Serving
<1> QED
  BY <1>5, <1>6, <1>7, <1>8, <1>9 DEF PInv

\* The others read end-of-file.
LEMMA EofKeepsP ==
  ASSUME HInv, HInv', SInv, NEW w \in Worker, NEW p \in Client, Serves(w, p), at[w] = "receive", Kind # "vote",
         AtEof(conn[p], "server"), GoesOn(w, OnEof, buf[w], conn[p])
  PROVE  PInv(p)' /\ BufOK(w)'
<1>1. /\ PInv(p) /\ BufOK(w) /\ Shaped(conn[p])
      /\ Kept(p) /\ ~Queued(p) /\ IsOpen(conn[p], "server") /\ Held(p) = buf[w]
      /\ status[p] \notin {"start", "refused"} /\ Lively(p)
  BY ServedFacts
<1>2. PICK x \in {"send", "close"} : x = OnEof
  BY DEF OnEof
<1>3. x = "send" <=> Kind \in {"endpoint", "note"}
  BY <1>2 DEF OnEof
<1>4. PICK b, d : b = buf[w] /\ d = conn[p]
  OBVIOUS
<1>5. OwnStep(w, p, x, b, d)
  <2>1. GoesOn(w, x, b, d)
    BY <1>2, <1>4
  <2> QED
    BY <2>1, OwnSession
<1>6. d["client"].data = <<>> /\ ~IsOpen(d, "client")
  BY <1>4, EndsAre DEF AtEof, HasData, IsOpen
<1>7. status[p] # "connected"
  BY <1>1, <1>4, <1>6 DEF PInv, ClientOK
<1>8. OpenOK(p)' /\ ClientOK(p)'
  BY <1>1, <1>4, <1>5 DEF PInv, OpenOK, ClientOK, OwnStep
<1>9. OnceOK(p)'
  <2>1. Kind # "echo" => Unsent(p)
    BY DEF Unsent, Worked, ToSend, Serves
  <2> QED
    BY <1>1, <1>4, <1>5, <1>6, <1>7, <2>1 DEF PInv, OnceOK, OwnStep
<1>10. PlusOK(p)'
  BY <1>3, <1>5 DEF PlusOK, OwnStep
<1>11. EchoOK(p)'
  BY <1>1, <1>4, <1>5, <1>6, <1>7 DEF PInv, EchoOK, OwnStep
<1>12. EndOK(p)'
  BY <1>1, <1>4, <1>5 DEF PInv, EndOK, Ended, OwnStep
<1>13. AnswerOK(p)'
  <2>1. Answer(p)' = Answer(p)
    BY <1>5 DEF Answer, PlusOne, OwnStep
  <2> QED
    BY <1>1, <1>4, <1>5, <2>1 DEF PInv, AnswerOK, OwnStep
<1>14. BufOK(w)'
  BY <1>1, <1>3, <1>4, <1>5 DEF BufOK, Serving, OwnStep
<1> QED
  BY <1>8, <1>9, <1>10, <1>11, <1>12, <1>13, <1>14 DEF PInv

LEMMA ReceiveKeepsS ==
  ASSUME HInv, HInv', SInv, NEW w \in Worker, Receive(w)
  PROVE  StreamsOK'
<1>0. PICK p \in Client : p = sock[w] /\ Serves(w, p) /\ at[w] = "receive" /\ at[w] \in Serving
  BY Served DEF Receive, Serving
<1>1. /\ PInv(p) /\ BufOK(w) /\ Shaped(conn[p])
      /\ Kept(p) /\ ~Queued(p) /\ IsOpen(conn[p], "server") /\ Held(p) = buf[w]
      /\ status[p] \notin {"start", "refused"} /\ Lively(p)
  BY <1>0, ServedFacts
<1>2. UNCHANGED <<program, sock, status, got>>
  BY DEF Receive, chosen, clients
<1> DEFINE s == conn[p]["client"].data
           c == [conn EXCEPT ![p] = ErrorReturned(@, "server")]
           left(k) == SetData(conn[p], "client", SubSeq(s, k + 1, Len(s)))
<1>3. \/ /\ HasData(conn[p], "server")
         /\ \E k \in Sizes(s, buf[w]) :
              /\ conn' = [conn EXCEPT ![p] = left(k)]
              /\ IF Kind = "vote" THEN TakeVote(w, s) ELSE TakeBytes(w, SubSeq(s, 1, k))
         /\ UNCHANGED <<backlog, fds>>
      \/ AtEof(conn[p], "server") /\ at' = [at EXCEPT ![w] = OnEof] /\ UNCHANGED kernel /\ buf' = buf
      \/ /\ AtReset(conn[p], "server") /\ buf' = buf
         /\ IF OnError = "exit" THEN Exit(w, c)
            ELSE conn' = c /\ at' = [at EXCEPT ![w] = OnError] /\ UNCHANGED <<backlog, fds>>
  BY <1>0 DEF Receive
<1>4. s \in Seq(Byte) /\ DOMAIN conn = Client
  BY <1>1 DEF PInv, ClientOK, SInv, StreamsOK, StreamTypes
<1>5. CASE /\ HasData(conn[p], "server") /\ UNCHANGED <<backlog, fds>>
           /\ \E k \in Sizes(s, buf[w]) :
                /\ conn' = [conn EXCEPT ![p] = left(k)]
                /\ IF Kind = "vote" THEN TakeVote(w, s) ELSE TakeBytes(w, SubSeq(s, 1, k))
  <2>1. PICK k \in Sizes(s, buf[w]) :
          /\ conn' = [conn EXCEPT ![p] = left(k)]
          /\ IF Kind = "vote" THEN TakeVote(w, s) ELSE TakeBytes(w, SubSeq(s, 1, k))
    BY <1>5
  <2>2. s # <<>>
    BY <1>5, EndsAre DEF HasData
  <2>3. PICK b0 : b0 = buf[w]
    OBVIOUS
  <2>4. Partial(b0) /\ k \in Sizes(s, b0)
    BY <1>0, <1>1, <2>1, <2>3 DEF Partial, BufOK
  <2>5. PICK d, t, r : d = left(k) /\ t = SubSeq(s, 1, k) /\ r = SubSeq(s, k + 1, Len(s))
    OBVIOUS
  <2>6. conn' = [conn EXCEPT ![p] = d] /\ d = SetData(conn[p], "client", r)
    BY <2>1, <2>5
  <2>7. /\ Shaped(d) /\ d["server"] = conn[p]["server"] /\ d["client"].data = r
        /\ d["client"].end = conn[p]["client"].end
    BY <1>1, <2>6, EndsAre, SetDataShape
  <2> HIDE DEF left
  <2>8. IF Kind = "vote" THEN TakeVote(w, s) ELSE TakeBytes(w, t)
    BY <2>1, <2>5
  <2>9. PICK u : u = s
    OBVIOUS
  <2>10. u \in Seq(Byte) /\ u # <<>> /\ k \in Sizes(u, b0) /\ t = SubSeq(u, 1, k) /\ r = SubSeq(u, k + 1, Len(u))
    BY <1>4, <2>2, <2>4, <2>5, <2>9
  <2> HIDE DEF s
  <2>11. Fits(k, u, b0)
    BY <2>4, <2>10, SomeArrive
  <2>12. k \in 1 .. Len(u) /\ Len(u) \in Nat /\ Len(<<>>) = 0
    BY <2>10, <2>11, LenProperties, EmptySeq DEF Fits
  <2>13. t \in Seq(Byte) /\ r \in Seq(Byte) /\ Len(t) = k /\ Len(r) = Len(u) - k /\ t \o r = u
    BY <2>10, <2>12, CutInTwo
  <2>14. t # <<>> /\ (Kind \notin {"echo", "plus one"} => r = <<>>)
    <3>1. t # <<>>
      BY <2>12, <2>13
    <3>2. Kind \notin {"echo", "plus one"} => Len(r) = 0
      <4>1. Kind \notin {"echo", "plus one"} => k = Len(u)
        BY <2>11 DEF Fits
      <4>2. k = Len(u) => Len(u) - k = 0
        BY <2>12
      <4> QED
        BY <2>13, <4>1, <4>2
    <3> QED
      BY <2>13, <3>1, <3>2, EmptySeq
  <2>15. CASE Kind = "vote"
    <3>1. TakeVote(w, s)
      BY <2>8, <2>15
    <3>2. \E x \in {"send", "close"} : \E b :
            at' = [at EXCEPT ![w] = x] /\ (buf' = [buf EXCEPT ![w] = b] \/ (buf' = buf /\ b = buf[w]))
      BY <3>1 DEF TakeVote
    <3>3. PICK x \in {"send", "close"} : \E b :
            at' = [at EXCEPT ![w] = x] /\ (buf' = [buf EXCEPT ![w] = b] \/ (buf' = buf /\ b = buf[w]))
      BY <3>2
    <3>b. PICK b :
            at' = [at EXCEPT ![w] = x] /\ (buf' = [buf EXCEPT ![w] = b] \/ (buf' = buf /\ b = buf[w]))
      BY <3>3
    <3>4. x \in Serving
      BY DEF Serving
    <3>5. GoesOn(w, x, b, d)
      BY <1>0, <1>2, <1>5, <2>6, <3>b, <3>4, GoingOn
    <3>6. r = <<>> /\ conn[p]["client"].data # <<>>
      BY <2>2, <2>14, <2>15 DEF s
    <3>7. PInv(p)' /\ BufOK(w)'
      BY <1>0, <2>7, <2>15, <3>5, <3>6, VoteKeepsP
    <3> QED
      BY <1>0, <1>2, <3>5, <3>7, OtherSessions
  <2>16. CASE Kind # "vote"
    <3>1. TakeBytes(w, t)
      BY <2>8, <2>16
    <3>2. PICK b : b = IF Kind = "plus one" THEN buf[w] \o t ELSE t
      OBVIOUS
    <3>3. PICK x : x = NextPlace(b)
      OBVIOUS
    <3>4. DOMAIN buf = Worker
      BY DEF SInv, StreamsOK, StreamTypes
    <3>5. buf' = [buf EXCEPT ![w] = b] /\ at' = [at EXCEPT ![w] = x]
      <4>1. buf' = [buf EXCEPT ![w] = b]
        BY <3>1, <3>2 DEF TakeBytes
      <4>2. buf'[w] = b
        BY <3>4, <4>1
      <4>3. at' = [at EXCEPT ![w] = IF Kind = "plus one" /\ Len(b) < 2 THEN "receive" ELSE "send"]
        BY <3>1, <4>2 DEF TakeBytes
      <4> QED
        BY <3>3, <4>1, <4>3 DEF NextPlace
    <3>6. x \in Serving
      BY <3>3 DEF NextPlace, Serving
    <3>7. GoesOn(w, x, b, d)
      BY <1>0, <1>2, <1>5, <2>6, <3>5, <3>6, GoingOn
    <3>8. b = b0 \o t
      <4>1. Kind # "plus one" => b0 = <<>>
        BY <1>0, <1>1, <2>3, <2>16 DEF BufOK
      <4>2. <<>> \o t = t
        BY <2>13, ConcatEmptySeq
      <4> QED
        BY <2>3, <3>2, <4>1, <4>2
    <3>9. Kind = "plus one" => Len(b) <= 2
      <4>1. SUFFICES ASSUME Kind = "plus one" PROVE Len(b) <= 2
        OBVIOUS
      <4>2. b0 \in Seq(Byte) /\ k <= 2 - Len(b0)
        BY <2>4, <2>11, <4>1 DEF Partial, Fits
      <4>3. Len(b0 \o t) = Len(b0) + Len(t) /\ Len(b0) \in Nat
        BY <2>13, <4>2, ConcatProperties, LenProperties
      <4>4. Len(b0) + k <= 2
        BY <2>12, <4>2, <4>3
      <4> QED
        BY <2>13, <3>8, <4>3, <4>4
    <3>10. Takes(w, p, t, r, x, b, d)
      <4>1. conn[p]["client"].data = t \o r
        BY <2>9, <2>13 DEF s
      <4>2. b = buf[w] \o t
        BY <2>3, <3>8
      <4> QED
        BY <1>0, <2>6, <2>13, <2>14, <2>16, <3>3, <3>9, <4>1, <4>2 DEF Takes
    <3>11. PInv(p)' /\ BufOK(w)'
      BY <3>7, <3>10, TakingKeepsP
    <3> QED
      BY <1>0, <1>2, <3>7, <3>11, OtherSessions
  <2> QED
    BY <2>15, <2>16
<1>6. CASE AtEof(conn[p], "server") /\ at' = [at EXCEPT ![w] = OnEof] /\ UNCHANGED kernel /\ buf' = buf
  <2>1. PICK x \in Serving : x = OnEof
    BY DEF OnEof, Serving
  <2>2. PICK b, d : b = buf[w] /\ d = conn[p]
    OBVIOUS
  <2>3. GoesOn(w, x, b, d)
    BY <1>0, <1>2, <1>6, <2>1, <2>2, GoingOn DEF kernel
  <2>4. PInv(p)' /\ BufOK(w)'
    <3>1. CASE Kind # "vote"
      BY <1>0, <1>6, <2>1, <2>2, <2>3, <3>1, EofKeepsP
    <3>2. CASE Kind = "vote"
      <4>1. x = "close"
        BY <2>1, <3>2 DEF OnEof
      <4>2. d["client"].data = <<>> /\ ~IsOpen(conn[p], "client")
        BY <1>6, <2>2, EndsAre DEF AtEof, HasData, IsOpen
      <4> QED
        BY <1>0, <1>1, <2>2, <2>3, <3>2, <4>1, <4>2, VoteKeepsP
    <3> QED
      BY <3>1, <3>2
  <2> QED
    BY <1>0, <1>2, <2>3, <2>4, OtherSessions
<1>7. CASE /\ AtReset(conn[p], "server") /\ buf' = buf
           /\ IF OnError = "exit" THEN Exit(w, c)
              ELSE conn' = c /\ at' = [at EXCEPT ![w] = OnError] /\ UNCHANGED <<backlog, fds>>
  <2>1. conn[p]["client"].end = "rst" /\ conn[p]["client"].data = <<>>
    BY <1>7, EndsAre DEF AtReset, HasData
  <2>2. c[p] = ErrorReturned(conn[p], "server") /\ \A q \in Client : q # p => c[q] = conn[q]
    BY <1>4
  <2>3. CASE OnError = "exit"
    <3>1. Exit(w, c) /\ buf' = buf
      BY <1>7, <2>3
    <3>2. \A q \in Client : \/ c[q] = conn[q]
                            \/ /\ conn[q]["client"].end = "rst" /\ c[q] = ErrorReturned(conn[q], "server")
                               /\ Serves(w, q)
      BY <1>0, <2>1, <2>2
    <3> HIDE DEF c
    <3> QED
      BY <1>2, <3>1, <3>2, ExitKeepsS
  <2>4. CASE OnError # "exit"
    <3>1. Kind = "vote"
      <4>1. Kind # "endpoint"
        <5>1. SUFFICES ASSUME Kind = "endpoint" PROVE FALSE
          OBVIOUS
        <5>2. Worked(p, ToSend)
          BY <1>0, <5>1 DEF Worked, ToSend
        <5>3. Unsent(p)
          BY <5>2 DEF Unsent
        <5> QED
          BY <1>1, <2>1, <5>1, <5>3 DEF PInv, OnceOK
      <4> QED
        BY <2>4, <4>1 DEF OnError
    <3>2. PICK x : x = OnError
      OBVIOUS
    <3>3. x = "close" /\ x \in Serving
      BY <3>1, <3>2 DEF OnError, Serving
    <3>4. PICK b, d : b = buf[w] /\ d = c[p]
      OBVIOUS
    <3>5. conn' = [conn EXCEPT ![p] = d] /\ at' = [at EXCEPT ![w] = x] /\ UNCHANGED <<backlog, fds>>
      BY <1>7, <2>2, <2>4, <3>2, <3>4
    <3>6. d = SetEnd(conn[p], "client", "broken")
      BY <2>2, <3>4, EndsAre DEF ErrorReturned
    <3> HIDE DEF c
    <3>7. GoesOn(w, x, b, d)
      BY <1>0, <1>2, <1>7, <3>3, <3>4, <3>5, GoingOn
    <3>8. /\ Shaped(d) /\ d["server"] = conn[p]["server"] /\ d["client"].data = <<>> /\ d["client"].end = "broken"
      BY <1>1, <2>1, <3>6, EndsAre, SetEndShape
    <3>9. ~IsOpen(conn[p], "client")
      BY <2>1 DEF IsOpen
    <3>10. PInv(p)' /\ BufOK(w)'
      BY <1>0, <2>1, <3>1, <3>3, <3>7, <3>8, <3>9, VoteKeepsP
    <3> QED
      BY <1>0, <1>2, <3>7, <3>10, OtherSessions
  <2> QED
    BY <2>3, <2>4
<1> QED
  BY <1>3, <1>5, <1>6, <1>7

\* A number plus one is two bytes again.
LEMMA PlusOneIsTwo ==
  ASSUME NEW p \in Client
  PROVE  PlusOne(Word[p]) \in Seq(Byte)
<1> DEFINE B == BYTE
           m == BYTE * BYTE
           sum == Word[p][1] * BYTE + Word[p][2] + 1
           val == sum % m
<1>1. BYTE \in Nat \ {0} /\ Word[p][1] \in Nat /\ Word[p][2] \in Nat
  <2>1. BYTE \in Nat \ {0} /\ Word[p] \in [1 .. 2 -> 0 .. BYTE - 1]
    BY ServersAssumption
  <2> QED
    BY <2>1
<1>2. \A a, b \in Nat : a * b \in Nat /\ (a # 0 /\ b # 0 => a * b # 0)
  OBVIOUS
<1>3. m \in Nat \ {0} /\ sum \in Nat
  <2>1. m \in Nat \ {0} /\ Word[p][1] * BYTE \in Nat
    BY <1>1, <1>2
  <2> QED
    BY <1>1, <2>1
<1>4. val \in Nat
  <2> HIDE DEF m, sum
  <2> QED
    BY <1>3
<1>5. val \div BYTE \in Nat /\ val % BYTE \in Nat
  <2> HIDE DEF val
  <2> QED
    BY <1>1, <1>4
<1>6. PlusOne(Word[p]) = <<val \div BYTE, val % BYTE>>
  BY DEF PlusOne
<1> HIDE DEF val
<1> QED
  BY <1>5, <1>6 DEF Byte

\* What is read and answered is the beginning of the answer.
Continues(p, s) == \E t \in Seq(Byte) : (got[p] \o s) \o t = Answer(p)

LEMMA MovedAlong ==
  ASSUME NEW g \in Seq(Byte), NEW s \in Seq(Byte), NEW m \in Seq(Byte)
  PROVE  s \o m \in Seq(Byte) /\ g \o s \in Seq(Byte) /\ g \o (s \o m) = (g \o s) \o m
<1>1. s \o m \in Seq(Byte) /\ g \o s \in Seq(Byte)
  BY BytesJoin
<1>2. Regroups(g, s, m)
  BY BytesRegroup
<1> QED
  BY <1>1, <1>2, Zenon DEF Regroups

\* The answer goes to a client that reads.
LEMMA ReplyIsAnswer ==
  ASSUME HInv, SInv, NEW w \in Worker, NEW p \in Client, Serves(w, p), at[w] = "send",
         status[p] = "reading", Kind # "vote"
  PROVE  /\ Reply(w) \in Seq(Byte) /\ conn[p]["server"].data \o Reply(w) \in Seq(Byte)
         /\ Continues(p, conn[p]["server"].data \o Reply(w))
<1>1. /\ PInv(p) /\ BufOK(w) /\ Shaped(conn[p])
      /\ Kept(p) /\ ~Queued(p) /\ IsOpen(conn[p], "server") /\ Held(p) = buf[w]
      /\ status[p] \notin {"start", "refused"} /\ Lively(p)
  BY ServedFacts
<1>2. PICK g, s, b, c, m : /\ g = got[p] /\ s = conn[p]["server"].data /\ b = buf[w]
                           /\ c = conn[p]["client"].data /\ m = Reply(w)
  OBVIOUS
<1>3. g \in Seq(Byte) /\ s \in Seq(Byte) /\ b \in Seq(Byte) /\ c \in Seq(Byte)
  BY <1>1, <1>2 DEF PInv, ClientOK, BufOK
<1>4. CASE Kind = "echo"
  <2>1. m = b
    BY <1>2, <1>4 DEF Reply
  <2>2. (g \o s) \o b \o c = Word[p] /\ Answer(p) = Word[p]
    BY <1>1, <1>2, <1>4 DEF PInv, EchoOK, Answer
  <2>3. s \o b \in Seq(Byte) /\ g \o (s \o b) = (g \o s) \o b
    BY <1>3, MovedAlong
  <2>4. Continues(p, s \o b)
    BY <1>2, <1>3, <2>2, <2>3 DEF Continues
  <2> QED
    BY <1>2, <1>3, <2>1, <2>3, <2>4
<1>5. CASE Kind # "echo"
  <2>1. Worked(p, ToSend) /\ Worked(p, {"send", "close"}) /\ Worked(p, {"receive", "send"})
    BY DEF Worked, Serves, ToSend
  <2>2. s = <<>> /\ g = <<>> /\ c = <<>>
    BY <1>1, <1>2, <1>5, <2>1 DEF PInv, OnceOK, Unsent
  <2>3. m = Answer(p) /\ m \in Seq(Byte)
    <3>1. CASE Kind = "plus one"
      <4>1. b \o c = Word[p]
        BY <1>1, <1>2, <2>1, <3>1 DEF PInv, PlusOK
      <4>2. b \o <<>> = b
        BY <1>3, ConcatEmptySeq
      <4>3. b = Word[p]
        BY <2>2, <4>1, <4>2
      <4>4. m = PlusOne(b)
        BY <1>2, <3>1 DEF Reply
      <4> QED
        BY <3>1, <4>3, <4>4, PlusOneIsTwo DEF Answer
    <3>2. CASE Kind = "endpoint"
      <4>1. m = <<p>>
        BY <1>2, <3>2 DEF Reply, Serves
      <4>2. <<p>> \in Seq(Byte)
        BY DEF Byte
      <4> QED
        BY <3>2, <4>1, <4>2 DEF Answer
    <3>3. CASE Kind \notin {"echo", "vote", "plus one", "endpoint"}
      <4>1. Kind = "note"
        BY <3>3 DEF Kind
      <4>2. m = <<18>> /\ Answer(p) = <<18>>
        BY <1>2, <4>1 DEF Reply, Answer
      <4>3. <<18>> \in Seq(Byte)
        BY DEF Byte
      <4> QED
        BY <4>2, <4>3
    <3> QED
      BY <1>5, <3>1, <3>2, <3>3
  <2>4. PICK a : a = Answer(p)
    OBVIOUS
  <2>5. a \in Seq(Byte) /\ m = a
    BY <2>3, <2>4
  <2>6. <<>> \o a = a /\ a \o <<>> = a /\ <<>> \in Seq(Byte)
    BY <2>5, ConcatEmptySeq, EmptySeq
  <2>7. s \o m = a /\ (g \o (s \o m)) \o <<>> = a
    BY <2>2, <2>5, <2>6
  <2>8. Continues(p, s \o m)
    BY <1>2, <2>4, <2>6, <2>7 DEF Continues
  <2> QED
    BY <1>2, <2>5, <2>7, <2>8
<1> QED
  BY <1>4, <1>5

\* Where a worker goes after it has sent.
NextAfter == IF Kind \in {"echo", "vote"} THEN "receive" ELSE "close"

\* d is p's connection after send(): the reply is under way, or lost with a client that
\* is not there any more.
AfterSend(w, p, d) ==
  /\ Shaped(d) /\ d["server"].end = conn[p]["server"].end
  /\ d["client"].data = conn[p]["client"].data
  /\ \/ /\ IsOpen(conn[p], "client") /\ IsOpen(d, "client")
        /\ d["server"].data = conn[p]["server"].data \o Reply(w)
     \/ /\ ~IsOpen(conn[p], "client") /\ ~IsOpen(d, "client")
        /\ d["server"].data = conn[p]["server"].data

LEMMA SendingKeepsP ==
  ASSUME HInv, HInv', SInv, NEW w \in Worker, NEW p \in Client, Serves(w, p), at[w] = "send",
         NEW d, AfterSend(w, p, d), GoesOn(w, NextAfter, <<>>, d)
  PROVE  PInv(p)' /\ BufOK(w)'
<1>1. /\ PInv(p) /\ BufOK(w) /\ Shaped(conn[p])
      /\ Kept(p) /\ ~Queued(p) /\ IsOpen(conn[p], "server") /\ Held(p) = buf[w]
      /\ status[p] \notin {"start", "refused"} /\ Lively(p)
  BY ServedFacts
<1>2. PICK x \in {"receive", "close"} : x = NextAfter
  BY DEF NextAfter
<1>3. x = "receive" <=> Kind \in {"echo", "vote"}
  BY <1>2 DEF NextAfter
<1>4. OwnStep(w, p, x, <<>>, d)
  BY <1>2, OwnSession
<1>5. status[p] # "connected"
  <2>1. Kind = "echo" => buf[w] # <<>>
    BY <1>1 DEF BufOK
  <2>2. Kind # "echo" => Worked(p, {"send", "close"})
    BY DEF Worked, Serves
  <2> QED
    BY <1>1, <2>1, <2>2 DEF PInv, EchoOK, OnceOK
<1>6. Kind # "echo" => conn[p]["client"].data = <<>>
  <2>1. Worked(p, {"send", "close"})
    BY DEF Worked, Serves
  <2> QED
    BY <1>1, <2>1 DEF PInv, OnceOK
<1>7. IsOpen(conn[p], "client") <=> status[p] = "reading"
  BY <1>1, <1>5 DEF PInv, ClientOK
<1>8. <<>> \in Seq(Byte) /\ Len(<<>>) = 0
  BY EmptySeq
<1>9. ASSUME Kind # "vote"
      PROVE  d["server"].data \in Seq(Byte) /\ (status[p] = "reading" => Continues(p, d["server"].data))
  BY <1>1, <1>7, <1>9, ReplyIsAnswer DEF AfterSend, PInv, ClientOK
<1>10. OpenOK(p)'
  BY <1>1, <1>4 DEF OpenOK, IsOpen, OwnStep, AfterSend
<1>11. ClientOK(p)'
  BY <1>1, <1>4, <1>5, <1>9 DEF PInv, ClientOK, OwnStep, AfterSend
<1>12. OnceOK(p)'
  <2>1. Kind # "echo" => ~Unsent(p)'
    BY <1>3, <1>4, <1>5, <1>6 DEF Unsent, OwnStep, AfterSend, ToSend
  <2> QED
    BY <1>4, <1>5, <1>6, <2>1 DEF OnceOK, OwnStep, AfterSend
<1>13. PlusOK(p)'
  BY <1>3, <1>4 DEF PlusOK, OwnStep
<1>14. EchoOK(p)'
  <2>1. ASSUME Kind = "echo", status[p] = "reading"
        PROVE  got[p] \o d["server"].data \o <<>> \o d["client"].data = Word[p]
    <3>1. PICK g, s, b, c : g = got[p] /\ s = conn[p]["server"].data /\ b = buf[w] /\ c = conn[p]["client"].data
      OBVIOUS
    <3>2. g \in Seq(Byte) /\ s \in Seq(Byte) /\ b \in Seq(Byte)
      BY <1>1, <2>1, <3>1 DEF PInv, ClientOK, BufOK
    <3>3. (g \o s) \o b \o c = Word[p]
      BY <1>1, <2>1, <3>1 DEF PInv, EchoOK
    <3>4. s \o b \in Seq(Byte) /\ g \o (s \o b) = (g \o s) \o b /\ g \o (s \o b) \in Seq(Byte)
      BY <3>2, MovedAlong, ConcatProperties
    <3>5. (g \o (s \o b)) \o <<>> = g \o (s \o b)
      BY <3>4, ConcatEmptySeq
    <3>6. d["server"].data = s \o b /\ d["client"].data = c
      BY <1>7, <2>1, <3>1 DEF AfterSend, Reply
    <3> QED
      BY <3>1, <3>3, <3>4, <3>5, <3>6
  <2> QED
    BY <1>3, <1>4, <1>5, <2>1 DEF EchoOK, OwnStep
<1>15. EndOK(p)'
  <2>1. Kind = "echo" => Held(p) # <<>>
    BY <1>1 DEF BufOK
  <2>2. Kind = "echo" /\ Architecture # "fork" /\ Ended(p) => status[p] = "killed"
    BY <1>1, <2>1 DEF PInv, EndOK
  <2> QED
    BY <1>4, <2>2 DEF EndOK, OwnStep, Ended
<1>16. AnswerOK(p)'
  <2>1. Answer(p)' = Answer(p)
    BY <1>4 DEF Answer, PlusOne, OwnStep
  <2> QED
    BY <1>1, <1>4, <1>9, <2>1 DEF PInv, AnswerOK, OwnStep, Continues
<1>17. BufOK(w)'
  BY <1>3, <1>4, <1>8 DEF BufOK, OwnStep, Serving
<1> QED
  BY <1>10, <1>11, <1>12, <1>13, <1>14, <1>15, <1>16, <1>17 DEF PInv

LEMMA SendKeepsS ==
  ASSUME HInv, HInv', SInv, NEW w \in Worker, Send(w)
  PROVE  StreamsOK'
<1>0. PICK p \in Client : p = sock[w] /\ Serves(w, p) /\ at[w] = "send" /\ at[w] \in Serving
  BY Served DEF Send, Serving
<1>1. /\ PInv(p) /\ BufOK(w) /\ Shaped(conn[p])
      /\ Kept(p) /\ ~Queued(p) /\ IsOpen(conn[p], "server") /\ Held(p) = buf[w]
      /\ status[p] \notin {"start", "refused"} /\ Lively(p)
  BY <1>0, ServedFacts
<1>2. UNCHANGED <<program, sock, status, got>>
  BY DEF Send, chosen, clients
<1>3. DOMAIN conn = Client
  BY DEF SInv, StreamsOK, StreamTypes
<1>4. \/ Exit(w, conn) /\ buf' = buf
      \/ \E d \in Sends(conn[p], "server", Reply(w)) :
           IF SendFailed(conn[p], "server", d) /\ Kind # "vote"
             THEN Exit(w, [conn EXCEPT ![p] = d]) /\ buf' = buf
             ELSE /\ conn' = [conn EXCEPT ![p] = d]
                  /\ at' = [at EXCEPT ![w] = NextAfter]
                  /\ buf' = [buf EXCEPT ![w] = <<>>]
                  /\ UNCHANGED <<backlog, fds>>
  BY <1>0 DEF Send, NextAfter
<1>5. CASE Exit(w, conn) /\ buf' = buf
  <2>1. \A r \in Client : conn[r] = conn[r]
    OBVIOUS
  <2> QED
    BY <1>2, <1>5, <2>1, ExitKeepsS
<1>6. ASSUME NEW d \in Sends(conn[p], "server", Reply(w)), SendFailed(conn[p], "server", d),
             Exit(w, [conn EXCEPT ![p] = d]), buf' = buf
      PROVE  StreamsOK'
  <2>1. conn[p]["client"].end = "rst" /\ d = ErrorReturned(conn[p], "server")
    BY <1>6, EndsAre DEF SendFailed
  <2> DEFINE c == [conn EXCEPT ![p] = d]
  <2>2. c[p] = d /\ \A r \in Client : r # p => c[r] = conn[r]
    BY <1>3
  <2>3. Exit(w, c)
    BY <1>6
  <2> HIDE DEF c
  <2>4. \A r \in Client : \/ c[r] = conn[r]
                          \/ /\ conn[r]["client"].end = "rst" /\ c[r] = ErrorReturned(conn[r], "server")
                             /\ Serves(w, r)
    BY <1>0, <2>1, <2>2
  <2> QED
    BY <1>2, <1>6, <2>3, <2>4, ExitKeepsS
<1>7. ASSUME NEW d \in Sends(conn[p], "server", Reply(w)),
             conn' = [conn EXCEPT ![p] = d], at' = [at EXCEPT ![w] = NextAfter],
             buf' = [buf EXCEPT ![w] = <<>>], UNCHANGED <<backlog, fds>>
      PROVE  StreamsOK'
  <2>1. PICK x \in Serving : x = NextAfter
    BY DEF NextAfter, Serving
  <2>2. GoesOn(w, x, <<>>, d)
    BY <1>0, <1>2, <1>7, <2>1, GoingOn
  <2>3. AfterSend(w, p, d)
    <3>1. CASE IsOpen(conn[p], "client")
      <4>1. d = SetData(conn[p], "server", conn[p]["server"].data \o Reply(w))
        BY <3>1, EndsAre DEF Sends
      <4>2. /\ Shaped(d) /\ d["client"] = conn[p]["client"]
            /\ d["server"].data = conn[p]["server"].data \o Reply(w)
            /\ d["server"].end = conn[p]["server"].end
        <5>1. PICK c, m : c = conn[p] /\ m = conn[p]["server"].data \o Reply(w)
          OBVIOUS
        <5>2. Shaped(c) /\ d = SetData(c, "server", m)
          BY <1>1, <4>1, <5>1
        <5>3. /\ Shaped(d) /\ d["client"] = c["client"]
              /\ d["server"].data = m /\ d["server"].end = c["server"].end
          BY <5>2, EndsAre, SetDataShape
        <5> QED
          BY <5>1, <5>3
      <4> QED
        BY <3>1, <4>2 DEF AfterSend, IsOpen
    <3>2. CASE ~IsOpen(conn[p], "client")
      <4>1. d = conn[p] \/ \E y \in {"finrst", "broken"} : d = SetEnd(conn[p], "client", y)
        BY <3>2, EndsAre DEF Sends, Sent, ErrorReturned
      <4>2. CASE d = conn[p]
        BY <1>1, <3>2, <4>2 DEF AfterSend
      <4>3. ASSUME NEW y \in {"finrst", "broken"}, d = SetEnd(conn[p], "client", y)
            PROVE  AfterSend(w, p, d)
        <5>1. /\ Shaped(d) /\ d["server"] = conn[p]["server"]
              /\ d["client"].data = conn[p]["client"].data /\ d["client"].end = y
          BY <1>1, <4>3, EndsAre, SetEndShape
        <5> QED
          BY <3>2, <5>1 DEF AfterSend, IsOpen
      <4> QED
        BY <4>1, <4>2, <4>3
    <3> QED
      BY <3>1, <3>2
  <2>4. PInv(p)' /\ BufOK(w)'
    BY <1>0, <2>1, <2>2, <2>3, SendingKeepsP
  <2> QED
    BY <1>0, <1>2, <2>2, <2>4, OtherSessions
<1> QED
  BY <1>4, <1>5, <1>6, <1>7

-----------------------------------------------------------------------------
(* The steps of the clients. *)

\* A client's step is nothing to the others.
LEMMA OtherClients ==
  ASSUME HInv, HInv', SInv, UNCHANGED <<program, fds, workers>>, NEW p \in Client, PInv(p)',
         DOMAIN conn' = Client, DOMAIN got' = Client,
         \A r \in Client : r # p => /\ conn'[r] = conn[r] /\ status'[r] = status[r] /\ got'[r] = got[r]
                                    /\ Queued(r)' <=> Queued(r)
  PROVE  StreamsOK'
<1>0. UNCHANGED <<at, sock, buf>>
  BY DEF workers
<1>1. ASSUME NEW r \in Client, r # p
      PROVE  PInv(r)'
  <2>1. /\ conn'[r] = conn[r] /\ status'[r] = status[r] /\ got'[r] = got[r]
        /\ Queued(r)' <=> Queued(r)
    BY <1>1
  <2>2. Kept(r)' <=> Kept(r)
    BY <2>1 DEF Kept
  <2>3. \A w \in Worker : Serves(w, r)' <=> Serves(w, r)
    BY <1>0 DEF Serves
  <2>4. Worked(r, {"create", "start"})' => Worked(r, {"create", "start"})
    BY <1>0 DEF Worked
  <2> QED
    BY <1>0, <2>1, <2>2, <2>3, <2>4, ControlMoves
<1>2. ASSUME NEW w \in Worker
      PROVE  BufOK(w)'
  <2>1. BufOK(w)
    BY DEF SInv, StreamsOK
  <2> QED
    BY <1>0, <2>1, BufferKeeps
<1>3. StreamTypes'
  BY <1>0 DEF SInv, StreamsOK, StreamTypes
<1> QED
  BY <1>1, <1>2, <1>3 DEF StreamsOK

\* Only a child of TCPEchoServer-Fork has ended while its client's connection is kept.
LEMMA LivelyWhenKept ==
  ASSUME HInv, Architecture # "fork", NEW p \in Client, Kept(p)
  PROVE  at[p] # "ended"
<1>1. CASE Queued(p)
  BY <1>1 DEF HInv, CInv, FreshOK
<1>2. CASE ~Queued(p)
  <2>1. PICK P \in Worker : p \in fds[P]
    BY <1>2 DEF Kept
  <2>2. CASE P = "main" /\ Stranded(p)
    BY <2>2 DEF Stranded
  <2>3. CASE \E w \in Worker : Process(w) = P /\ Handles(w, p)
    <3>1. PICK w \in Worker : Handles(w, p)
      BY <2>3
    <3>2. SUFFICES ASSUME at[p] = "ended" PROVE FALSE
      OBVIOUS
    <3>3. Architecture = "thread"
      BY <3>2, ServersAssumption DEF HInv, CInv, PlacesOK, PlacesOf, Worker
    <3>4. CASE w \in Client
      BY <3>1, <3>2, <3>4 DEF Handles, HInv, CInv, WorkersOK
    <3>5. CASE w \notin Client
      <4>1. at[w] = "create" /\ w = "main"
        BY <3>1, <3>3, <3>5, ServersAssumption DEF Handles, HInv, CInv, PlacesOK, PlacesOf, Worker
      <4> QED
        BY <3>1, <3>2, <4>1 DEF Handles, HInv, CInv, WorkersOK
    <3> QED
      BY <3>4, <3>5
  <2> QED
    BY <2>1, <2>2, <2>3 DEF HInv, CInv, HoldersOK
<1> QED
  BY <1>1, <1>2

\* The step changes nothing of p at the server.
Outward(p) ==
  /\ UNCHANGED <<program, fds, workers>> /\ Kind' = Kind /\ Architecture' = Architecture
  /\ (Queued(p)' <=> Queued(p)) /\ (Kept(p)' <=> Kept(p)) /\ Held(p)' = Held(p)
  /\ \A X : Worked(p, X)' <=> Worked(p, X)
  /\ Answer(p)' = Answer(p) /\ ToSend' = ToSend

LEMMA StaysOutward ==
  ASSUME UNCHANGED <<program, fds, workers, backlog>>, NEW p \in Client
  PROVE  Outward(p)
<1>0. UNCHANGED <<at, sock, buf>>
  BY DEF workers
<1>1. Kind' = Kind /\ Architecture' = Architecture
  BY SameProgram
<1>2. (Queued(p)' <=> Queued(p)) /\ (Kept(p)' <=> Kept(p))
  BY DEF Queued, Kept
<1>3. Held(p)' = Held(p)
  BY <1>0 DEF Held, Serves
<1>4. \A X : Worked(p, X)' <=> Worked(p, X)
  BY <1>0 DEF Worked
<1>5. Answer(p)' = Answer(p) /\ ToSend' = ToSend
  BY <1>1 DEF Answer, PlusOne, ToSend
<1> QED
  BY <1>1, <1>2, <1>3, <1>4, <1>5 DEF Outward

\* p ends, as `how` says, and closes the connection c, which has what it has not read.
Leaves(p, how, c) ==
  /\ status[p] \in {"connected", "reading"} /\ how \in Outcomes \ {"refused"}
  /\ Shaped(c) /\ c["client"] = conn[p]["client"]
  /\ \/ c["server"].end = conn[p]["server"].end
     \/ conn[p]["server"].end = "rst" /\ c["server"].end = "broken"
  /\ conn[p]["server"].data = <<>> => c["server"].data = <<>> /\ got'[p] = got[p]
  /\ conn'[p] \in Closings(c, "client") /\ status'[p] = how
  /\ Kind # "vote" => got'[p] \in Seq(Byte)
  /\ Kind = "echo" /\ Architecture # "fork" /\ IsOpen(conn[p], "server") =>
       \/ how = "killed"
       \/ c["server"].data = <<>> /\ conn[p]["client"].data = <<>> /\ Held(p) = <<>>
  /\ Kind # "vote" /\ how = "answered" =>
       got'[p] = Answer(p) \/ (Kind \in {"endpoint", "note"} /\ got'[p] = <<>>)

LEMMA LeavingKeepsP ==
  ASSUME HInv, SInv, NEW p \in Client, Outward(p), NEW how, NEW c, Leaves(p, how, c)
  PROVE  PInv(p)'
<1>1. PInv(p) /\ ClientOK(p) /\ OpenOK(p)
  BY DEF SInv, StreamsOK, PInv
<1>2. PICK d \in Closings(c, "client") : d = conn'[p]
  BY DEF Leaves
<1>3. /\ Shut(c, d, "client") /\ Shaped(c)
      /\ c["server"].data = <<>> => d["client"].data = c["client"].data /\ d["client"].end = "fin"
  BY <1>2, EndsAre, ClosingShape DEF Leaves
<1>4. /\ Shaped(d) /\ ~IsOpen(d, "client") /\ d["server"].data = <<>> /\ d["server"].end = c["server"].end
      /\ d["client"].data \in Seq(Byte) /\ (conn[p]["client"].data = <<>> => d["client"].data = <<>>)
  <2>1. c["client"].data = conn[p]["client"].data /\ c["client"].data \in Seq(Byte)
    BY <1>1 DEF Leaves, ClientOK
  <2>2. d["client"].data \in Seq(Byte) /\ (c["client"].data = <<>> => d["client"].data = <<>>)
    BY <1>3, <2>1, EndsAre, ShutPart
  <2> QED
    BY <1>3, <2>1, <2>2, EndsAre DEF Shut, IsOpen
<1>5. IsOpen(d, "server") <=> IsOpen(conn[p], "server")
  BY <1>4 DEF Leaves, IsOpen
<1>6. status'[p] \notin {"start", "refused", "connected", "reading"} /\ status'[p] = how
  BY DEF Leaves, Outcomes
<1>7. OpenOK(p)'
  BY <1>1, <1>2, <1>4, <1>5 DEF OpenOK, Outward
<1>8. ClientOK(p)'
  BY <1>2, <1>4, <1>6, EmptySeq DEF ClientOK, Leaves, Outward
<1>9. ASSUME Unsent(p)', Kind # "echo"
      PROVE  /\ got[p] = <<>> /\ conn[p]["server"].data = <<>>
             /\ got'[p] = <<>> /\ d["client"].end = "fin" /\ d["client"].data = conn[p]["client"].data
  <2>1. Unsent(p)
    BY <1>2, <1>4, <1>6, <1>9 DEF Unsent, Outward
  <2>2. conn[p]["server"].data = <<>> /\ got[p] = <<>>
    BY <1>1, <1>9, <2>1 DEF PInv, OnceOK
  <2> QED
    BY <1>3, <2>2 DEF Leaves
<1>10. OnceOK(p)'
  <2>1. Kind # "echo" /\ Worked(p, {"send", "close"}) => conn[p]["client"].data = <<>>
    BY <1>1 DEF PInv, OnceOK
  <2> QED
    BY <1>2, <1>4, <1>6, <1>9, <2>1 DEF OnceOK, Outward
<1>11. PlusOK(p)'
  <2>1. ASSUME Kind = "plus one", Queued(p) \/ Worked(p, {"receive", "send"})
        PROVE  d["client"].data = conn[p]["client"].data
    <3>1. Worked(p, {"receive", "send"}) => Worked(p, ToSend)
      BY <2>1 DEF Worked, ToSend
    <3>2. Unsent(p)'
      BY <2>1, <3>1 DEF Unsent, Outward
    <3> QED
      BY <1>9, <2>1, <3>2
  <2> QED
    BY <1>1, <1>2, <1>6, <2>1 DEF PInv, PlusOK, Outward
<1>12. EchoOK(p)'
  BY <1>2, <1>4, <1>6 DEF EchoOK, Outward
<1>13. EndOK(p)'
  <2>1. ASSUME Kind = "echo", Architecture # "fork", IsOpen(d, "server"), how # "killed"
        PROVE  d["client"].data = <<>> /\ d["client"].end = "fin" /\ d["server"].data = <<>> /\ Held(p) = <<>>
    BY <1>3, <1>4, <1>5, <2>1 DEF Leaves
  <2> QED
    BY <1>2, <1>6, <2>1 DEF EndOK, Outward
<1>14. AnswerOK(p)'
  BY <1>6 DEF AnswerOK, Outward, Leaves
<1> QED
  BY <1>7, <1>8, <1>10, <1>11, <1>12, <1>13, <1>14 DEF PInv

LEMMA OneClient ==
  ASSUME HInv, SInv, NEW p \in Client, SendWord(p) \/ Read(p) \/ Killed(p)
  PROVE  /\ UNCHANGED <<program, fds, workers, backlog>> /\ Outward(p)
         /\ DOMAIN conn' = Client /\ DOMAIN got' = Client
         /\ \A r \in Client : r # p => conn'[r] = conn[r] /\ status'[r] = status[r] /\ got'[r] = got[r]
<1>1. UNCHANGED <<program, fds, workers, backlog>>
  BY DEF SendWord, Read, Killed, chosen
<1>2. UNCHANGED got \/ \E g : got' = [got EXCEPT ![p] = g]
  BY DEF SendWord, Read, Killed
<1>3. \E d : conn' = [conn EXCEPT ![p] = d]
  BY DEF SendWord, Read, Killed, End
<1>4. UNCHANGED status \/ \E x : status' = [status EXCEPT ![p] = x]
  BY DEF SendWord, Read, Killed, End
<1>5. DOMAIN conn = Client /\ DOMAIN got = Client /\ DOMAIN status = Client
  BY DEF HInv, CInv, ControlTypes, SInv, StreamsOK, StreamTypes
<1>6. DOMAIN got' = Client /\ \A r \in Client : r # p => got'[r] = got[r]
  BY <1>2, <1>5
<1>7. DOMAIN conn' = Client /\ \A r \in Client : r # p => conn'[r] = conn[r]
  BY <1>3, <1>5
<1>8. \A r \in Client : r # p => status'[r] = status[r]
  BY <1>4, <1>5
<1> QED
  BY <1>1, <1>6, <1>7, <1>8, StaysOutward

LEMMA OnlyThisClient ==
  ASSUME HInv, HInv', SInv, NEW p \in Client, SendWord(p) \/ Read(p) \/ Killed(p), PInv(p)'
  PROVE  StreamsOK'
<1>1. /\ UNCHANGED <<program, fds, workers, backlog>>
      /\ DOMAIN conn' = Client /\ DOMAIN got' = Client
      /\ \A r \in Client : r # p => conn'[r] = conn[r] /\ status'[r] = status[r] /\ got'[r] = got[r]
  BY OneClient
<1>2. \A r \in Client : Queued(r)' <=> Queued(r)
  BY <1>1 DEF Queued
<1> QED
  BY <1>1, <1>2, OtherClients

\* What End() does.
LEMMA Ending ==
  ASSUME HInv, SInv, NEW p \in Client, NEW how, NEW c, End(p, how, c)
  PROVE  status'[p] = how /\ conn'[p] \in Closings(c, "client")
<1>1. DOMAIN conn = Client /\ DOMAIN status = Client
  BY DEF HInv, CInv, ControlTypes, SInv, StreamsOK, StreamTypes
<1>2. PICK d \in Closings(c, "client") : conn' = [conn EXCEPT ![p] = d]
  BY DEF End
<1> QED
  BY <1>1, <1>2 DEF End

LEMMA KilledKeepsS ==
  ASSUME HInv, HInv', SInv, NEW p \in Client, Killed(p)
  PROVE  StreamsOK'
<1>1. PInv(p) /\ Shaped(conn[p])
  BY DEF SInv, StreamsOK, PInv, ClientOK
<1>2. status[p] \in {"connected", "reading"} /\ End(p, "killed", conn[p]) /\ got' = got
  BY DEF Killed
<1>3. status'[p] = "killed" /\ conn'[p] \in Closings(conn[p], "client")
  BY <1>2, Ending
<1>4. Leaves(p, "killed", conn[p])
  BY <1>1, <1>2, <1>3 DEF Leaves, Outcomes, PInv, ClientOK
<1>5. PInv(p)'
  BY <1>4, OneClient, LeavingKeepsP
<1> QED
  BY <1>5, OnlyThisClient

\* The client p reads the bytes t, and r are left.
Reads(p, t, r) ==
  /\ Kind # "vote" /\ status[p] = "reading"
  /\ t \in Seq(Byte) /\ r \in Seq(Byte) /\ t # <<>> /\ conn[p]["server"].data = t \o r
  /\ got'[p] = got[p] \o t

OneByOne(g, t, r, z) ==
  /\ g \o t \in Seq(Byte) /\ r \o z \in Seq(Byte) /\ t \o r \in Seq(Byte)
  /\ (g \o (t \o r)) \o z = (g \o t) \o (r \o z)
  /\ (g \o t) \o r = g \o (t \o r)
  /\ Len(g \o t) = Len(g) + Len(t) /\ Len(g) \in Nat /\ Len(t) \in Nat

LEMMA ReadOneByOne ==
  ASSUME NEW g \in Seq(Byte), NEW t \in Seq(Byte), NEW r \in Seq(Byte), NEW z \in Seq(Byte)
  PROVE  OneByOne(g, t, r, z)
<1>1. g \o t \in Seq(Byte) /\ r \o z \in Seq(Byte) /\ t \o r \in Seq(Byte)
  BY BytesJoin
<1>2. (g \o t) \o r = g \o (t \o r)
  <2>1. Regroups(g, t, r)
    BY BytesRegroup
  <2> QED
    BY <2>1, Zenon DEF Regroups
<1>3. ((g \o t) \o r) \o z = (g \o t) \o (r \o z)
  <2>1. Regroups(g \o t, r, z)
    BY <1>1, BytesRegroup
  <2> QED
    BY <2>1, Zenon DEF Regroups
<1>4. Len(g \o t) = Len(g) + Len(t) /\ Len(g) \in Nat /\ Len(t) \in Nat
  BY ConcatProperties, LenProperties
<1> QED
  BY <1>1, <1>2, <1>3, <1>4 DEF OneByOne

LEMMA AnswersAreBytes ==
  ASSUME NEW p \in Client, Kind # "vote"
  PROVE  /\ Answer(p) \in Seq(Byte)
         /\ Len(Answer(p)) = IF Kind \in {"echo", "plus one"} THEN 2 ELSE 1
<1>1. Kind = "plus one" => Answer(p) = PlusOne(Word[p]) /\ Len(PlusOne(Word[p])) = 2
  BY DEF Answer, PlusOne
<1>2. Kind = "echo" => Answer(p) = Word[p]
  BY DEF Answer
<1>3. Kind \notin {"echo", "plus one"} => \E x \in Byte : Answer(p) = <<x>>
  BY DEF Answer, Byte
<1>4. \A x \in Byte : <<x>> \in Seq(Byte) /\ Len(<<x>>) = 1
  OBVIOUS
<1> QED
  BY <1>1, <1>2, <1>3, <1>4, WordsAreTwo, PlusOneIsTwo

\* What is read continues what was read.
ReadOn(p, r) ==
  /\ PInv(p) /\ Shaped(conn[p]) /\ IsOpen(conn[p], "client")
  /\ conn[p]["server"].data # <<>> /\ got'[p] \in Seq(Byte)
  /\ got'[p] \o r = got[p] \o conn[p]["server"].data
  /\ \E z \in Seq(Byte) : (got'[p] \o r) \o z = Answer(p) /\ got'[p] \o (r \o z) = Answer(p)
  /\ 1 <= Len(got'[p])

LEMMA ReadFacts ==
  ASSUME HInv, SInv, NEW p \in Client, NEW t, NEW r, Reads(p, t, r)
  PROVE  ReadOn(p, r)
<1>1. PInv(p) /\ Shaped(conn[p]) /\ IsOpen(conn[p], "client")
  BY DEF SInv, StreamsOK, PInv, ClientOK, Reads
<1>2. PICK g, s : g = got[p] /\ s = conn[p]["server"].data
  OBVIOUS
<1>3. g \in Seq(Byte) /\ s \in Seq(Byte)
  BY <1>1, <1>2 DEF PInv, ClientOK, Reads
<1>4. t \in Seq(Byte) /\ r \in Seq(Byte) /\ t # <<>> /\ s = t \o r /\ got'[p] = g \o t
  BY <1>2 DEF Reads
<1>5. PICK z \in Seq(Byte) : (g \o s) \o z = Answer(p)
  BY <1>1, <1>2 DEF PInv, AnswerOK, Reads
<1>t. t \in Seq(Byte) /\ r \in Seq(Byte)
  BY <1>4
<1>6. /\ g \o t \in Seq(Byte) /\ r \o z \in Seq(Byte) /\ t \o r \in Seq(Byte)
      /\ (g \o (t \o r)) \o z = (g \o t) \o (r \o z)
      /\ (g \o t) \o r = g \o (t \o r)
      /\ Len(g \o t) = Len(g) + Len(t) /\ Len(g) \in Nat /\ Len(t) \in Nat
  <2>1. OneByOne(g, t, r, z)
    BY <1>3, <1>t, ReadOneByOne
  <2> QED
    BY <2>1 DEF OneByOne
<1>7. Len(t) # 0
  BY <1>4, EmptySeq
<1>8. 1 <= Len(g \o t)
  BY <1>6, <1>7
<1>9. t \o r # <<>>
  BY <1>4, ConcatEqualIffEmpty
<1> QED
  BY <1>1, <1>2, <1>4, <1>5, <1>6, <1>8, <1>9 DEF ReadOn

\* p reads, and will read again.
LEMMA ReadingKeepsP ==
  ASSUME HInv, SInv, NEW p \in Client, Outward(p), NEW t, NEW r, Reads(p, t, r), status'[p] = status[p],
         NEW d, Shaped(d), d["client"] = conn[p]["client"], d["server"].end = conn[p]["server"].end,
         d["server"].data = r, conn'[p] = d
  PROVE  PInv(p)'
<1>1. /\ PInv(p) /\ Shaped(conn[p]) /\ IsOpen(conn[p], "client")
      /\ conn[p]["server"].data # <<>> /\ got'[p] \in Seq(Byte)
      /\ got'[p] \o r = got[p] \o conn[p]["server"].data
      /\ \E z \in Seq(Byte) : (got'[p] \o r) \o z = Answer(p) /\ got'[p] \o (r \o z) = Answer(p)
  <2>1. ReadOn(p, r)
    BY ReadFacts
  <2> QED
    BY <2>1 DEF ReadOn
<1>2. status[p] = "reading" /\ Kind # "vote" /\ r \in Seq(Byte)
  BY DEF Reads
<1>3. OpenOK(p)'
  BY <1>1 DEF PInv, OpenOK, IsOpen, Outward
<1>4. ClientOK(p)'
  BY <1>1, <1>2 DEF PInv, ClientOK, IsOpen, Outward
<1>5. OnceOK(p)'
  <2>1. Kind # "echo" => ~Unsent(p)
    BY <1>1 DEF PInv, OnceOK
  <2>2. Unsent(p)' => Unsent(p)
    BY DEF Unsent, Outward
  <2> QED
    BY <1>1, <1>2, <2>1, <2>2 DEF PInv, OnceOK, Outward
<1>6. PlusOK(p)'
  BY <1>1 DEF PInv, PlusOK, Outward
<1>7. EchoOK(p)'
  <2>1. at' = at
    BY DEF Outward, workers
  <2> QED
    BY <1>1, <1>2, <2>1 DEF PInv, EchoOK, Outward, Lively, IsOpen
<1>8. EndOK(p)'
  BY <1>2 DEF EndOK, Ended, Outcomes
<1>9. AnswerOK(p)'
  BY <1>1, <1>2 DEF AnswerOK, Outward
<1> QED
  BY <1>3, <1>4, <1>5, <1>6, <1>7, <1>8, <1>9 DEF PInv

\* p has read all.
LEMMA AllIsRead ==
  ASSUME HInv, SInv, NEW p \in Client, Outward(p), NEW t, NEW r, Reads(p, t, r), HasAll(p)
  PROVE  /\ got'[p] = Answer(p)
         /\ Kind = "echo" /\ Lively(p) => r = <<>> /\ conn[p]["client"].data = <<>> /\ Held(p) = <<>>
<1>1. /\ PInv(p) /\ got'[p] \in Seq(Byte) /\ 1 <= Len(got'[p])
      /\ got'[p] \o r = got[p] \o conn[p]["server"].data
      /\ \E z \in Seq(Byte) : (got'[p] \o r) \o z = Answer(p) /\ got'[p] \o (r \o z) = Answer(p)
  <2>1. ReadOn(p, r)
    BY ReadFacts
  <2> QED
    BY <2>1 DEF ReadOn
<1>2. status[p] = "reading" /\ Kind # "vote" /\ r \in Seq(Byte)
  BY DEF Reads
<1>3. PICK g : g = got'[p]
  OBVIOUS
<1>4. g \in Seq(Byte) /\ Len(Answer(p)) <= Len(g)
  <2>1. Len(Word[p]) = 2 /\ Len(g) \in Nat /\ 1 <= Len(g)
    BY <1>1, <1>3, WordsAreTwo, LenProperties
  <2>2. CASE Kind \in {"echo", "plus one"}
    <3>1. Len(g) >= 2 /\ Len(Answer(p)) = 2
      BY <1>2, <1>3, <2>1, <2>2, AnswersAreBytes DEF HasAll
    <3> QED
      BY <1>1, <1>3, <2>1, <3>1
  <2>3. CASE Kind \notin {"echo", "plus one"}
    <3>1. Len(Answer(p)) = 1
      BY <1>2, <2>3, AnswersAreBytes
    <3> QED
      BY <1>1, <1>3, <2>1, <3>1
  <2> QED
    BY <2>2, <2>3
<1>5. g = Answer(p)
  <2>1. PICK z \in Seq(Byte) : g \o (r \o z) = Answer(p)
    BY <1>1, <1>3
  <2>2. r \o z \in Seq(Byte)
    BY <1>2, ConcatProperties
  <2>3. Len(g \o (r \o z)) <= Len(g)
    BY <1>4, <2>1
  <2>4. g \o (r \o z) = g
    BY <1>4, <2>2, <2>3, WholeOfIt
  <2> QED
    BY <2>1, <2>4
<1>6. ASSUME Kind = "echo", Lively(p)
      PROVE  r = <<>> /\ conn[p]["client"].data = <<>> /\ Held(p) = <<>>
  <2>1. PICK h, c : h = Held(p) /\ c = conn[p]["client"].data
    OBVIOUS
  <2>2. (g \o r) \o h \o c = Word[p] /\ Answer(p) = Word[p]
    BY <1>1, <1>2, <1>3, <1>6, <2>1 DEF PInv, EchoOK, Answer
  <2>3. h \in Seq(Byte) /\ c \in Seq(Byte)
    <3>1. c \in Seq(Byte)
      BY <1>1, <2>1 DEF PInv, ClientOK
    <3>2. h \in Seq(Byte)
      <4>1. h = <<>> \/ \E w \in Worker : h = buf[w]
        BY <2>1 DEF Held
      <4>2. \A w \in Worker : buf[w] \in Seq(Byte)
        BY <1>2 DEF SInv, StreamsOK, BufOK
      <4> QED
        BY <4>1, <4>2, EmptySeq
    <3> QED
      BY <3>1, <3>2
  <2>4. ((g \o r) \o h) \o c = g \o ((r \o h) \o c) /\ r \o h \in Seq(Byte) /\ (r \o h) \o c \in Seq(Byte)
    <3>1. g \in Seq(Byte) /\ r \in Seq(Byte)
      BY <1>2, <1>4
    <3>2. (g \o r) \o h = g \o (r \o h) /\ r \o h \in Seq(Byte)
      <4>1. Regroups(g, r, h) /\ r \o h \in Seq(Byte)
        BY <2>3, <3>1, BytesRegroup, BytesJoin
      <4> QED
        BY <4>1, Zenon DEF Regroups
    <3>3. PICK u \in Seq(Byte) : u = r \o h
      BY <3>2
    <3>4. (g \o u) \o c = g \o (u \o c) /\ u \o c \in Seq(Byte)
      <4>1. Regroups(g, u, c) /\ u \o c \in Seq(Byte)
        BY <2>3, <3>1, BytesRegroup, BytesJoin
      <4> QED
        BY <4>1, Zenon DEF Regroups
    <3> QED
      BY <3>2, <3>3, <3>4
  <2>5. Len(g \o ((r \o h) \o c)) <= Len(g)
    BY <1>4, <2>2, <2>4
  <2>6. (r \o h) \o c = <<>>
    BY <1>4, <2>4, <2>5, WholeOfIt
  <2>7. r \o h = <<>> /\ c = <<>>
    BY <2>3, <2>4, <2>6, ConcatEqualIffEmpty
  <2>8. r = <<>> /\ h = <<>>
    BY <1>2, <2>3, <2>7, ConcatEqualIffEmpty
  <2> QED
    BY <2>1, <2>7, <2>8
<1> QED
  BY <1>3, <1>5, <1>6

LEMMA ReadKeepsS ==
  ASSUME HInv, HInv', SInv, NEW p \in Client, Read(p)
  PROVE  StreamsOK'
<1>1. PInv(p) /\ Shaped(conn[p]) /\ status[p] = "reading" /\ IsOpen(conn[p], "client") /\ Outward(p)
  BY OneClient DEF SInv, StreamsOK, PInv, ClientOK, Read
<1>2. DOMAIN conn = Client /\ DOMAIN got = Client
  BY DEF SInv, StreamsOK, StreamTypes
<1>3. PICK c, s : c = conn[p] /\ s = conn[p]["server"].data
  OBVIOUS
<1>4. \/ /\ HasData(c, "client")
         /\ \E k \in Sizes(s, got[p]) :
              LET d == SetData(c, "server", SubSeq(s, k + 1, Len(s))) IN
              /\ got' = [got EXCEPT ![p] = IF Kind = "vote" THEN NextMsg(build.framing, s)
                                            ELSE @ \o SubSeq(s, 1, k)]
              /\ IF HasAll(p) THEN End(p, "answered", d)
                 ELSE conn' = [conn EXCEPT ![p] = d] /\ UNCHANGED status
      \/ AtEof(c, "client") /\ End(p, AtEndOfFile, c) /\ UNCHANGED got
      \/ /\ AtReset(c, "client") /\ UNCHANGED got
         /\ IF Kind = "endpoint"
              THEN conn' = [conn EXCEPT ![p] = ErrorReturned(c, "client")] /\ UNCHANGED status
              ELSE End(p, IF Kind = "vote" THEN "guessed" ELSE "died", ErrorReturned(c, "client"))
  BY <1>3 DEF Read
<1>5. Shaped(c) /\ c["client"] = conn[p]["client"] /\ c["server"] = conn[p]["server"] /\ s = c["server"].data
  BY <1>1, <1>3
<1>6. CASE HasData(c, "client") /\ Kind # "vote"
  <2>1. s # <<>> /\ ~AtEof(c, "client") /\ ~AtReset(c, "client")
    BY <1>5, <1>6, EndsAre DEF HasData, AtEof, AtReset
  <2>2. PICK k \in Sizes(s, got[p]) :
              LET d == SetData(c, "server", SubSeq(s, k + 1, Len(s))) IN
              /\ got' = [got EXCEPT ![p] = @ \o SubSeq(s, 1, k)]
              /\ IF HasAll(p) THEN End(p, "answered", d)
                 ELSE conn' = [conn EXCEPT ![p] = d] /\ UNCHANGED status
    BY <1>4, <1>6, <2>1
  <2>3. s \in Seq(Byte) /\ Partial(got[p])
    BY <1>1, <1>3, <1>6 DEF PInv, ClientOK, Partial
  <2>4. Fits(k, s, got[p])
    BY <2>1, <2>3, SomeArrive
  <2>5. k \in 1 .. Len(s) /\ Len(s) \in Nat /\ Len(<<>>) = 0
    BY <2>3, <2>4, LenProperties, EmptySeq DEF Fits
  <2>6. PICK t, r : t = SubSeq(s, 1, k) /\ r = SubSeq(s, k + 1, Len(s))
    OBVIOUS
  <2>7. k \in 0 .. Len(s)
    BY <2>5
  <2>8. t \in Seq(Byte) /\ r \in Seq(Byte) /\ Len(t) = k /\ t \o r = s
    BY <2>3, <2>6, <2>7, CutInTwo
  <2>9. t # <<>>
    BY <2>5, <2>8
  <2>10. got' = [got EXCEPT ![p] = @ \o t]
    BY <2>2, <2>6
  <2>11. Reads(p, t, r)
    BY <1>1, <1>2, <1>3, <1>6, <2>8, <2>9, <2>10 DEF Reads
  <2>12. PICK d : d = SetData(c, "server", r)
    OBVIOUS
  <2>13. /\ Shaped(d) /\ d["client"] = conn[p]["client"]
         /\ d["server"].data = r /\ d["server"].end = conn[p]["server"].end
    <3>1. Shaped(d) /\ d["client"] = c["client"] /\ d["server"].data = r /\ d["server"].end = c["server"].end
      BY <1>5, <2>12, EndsAre, SetDataShape
    <3> QED
      BY <1>5, <3>1
  <2>14. CASE HasAll(p)
    <3>1. End(p, "answered", d)
      BY <2>2, <2>6, <2>12, <2>14
    <3>2. status'[p] = "answered" /\ conn'[p] \in Closings(d, "client")
      BY <3>1, Ending
    <3>3. got'[p] = Answer(p) /\ (Kind = "echo" /\ Lively(p) => r = <<>> /\ conn[p]["client"].data = <<>> /\ Held(p) = <<>>)
      BY <1>1, <2>11, <2>14, AllIsRead
    <3>4. Architecture # "fork" /\ IsOpen(conn[p], "server") => Lively(p)
      BY <1>1, LivelyWhenKept DEF Lively, PInv, OpenOK
    <3>5. Answer(p) \in Seq(Byte)
      BY <1>6, AnswersAreBytes
    <3>6. conn[p]["server"].data # <<>>
      BY <1>3, <2>1
    <3>7. Leaves(p, "answered", d)
      BY <1>1, <2>13, <3>2, <3>3, <3>4, <3>5, <3>6 DEF Leaves, Outcomes
    <3>8. PInv(p)'
      BY <1>1, <3>7, LeavingKeepsP
    <3> QED
      BY <3>8, OnlyThisClient
  <2>15. CASE ~HasAll(p)
    <3>1. conn' = [conn EXCEPT ![p] = d] /\ UNCHANGED status
      BY <2>2, <2>6, <2>12, <2>15
    <3>2. conn'[p] = d /\ status'[p] = status[p]
      BY <1>2, <3>1
    <3>3. PInv(p)'
      BY <1>1, <2>11, <2>13, <3>2, ReadingKeepsP
    <3> QED
      BY <3>3, OnlyThisClient
  <2> QED
    BY <2>14, <2>15
<1>7. CASE HasData(c, "client") /\ Kind = "vote"
  <2>1. s # <<>> /\ ~AtEof(c, "client") /\ ~AtReset(c, "client")
    BY <1>5, <1>7, EndsAre DEF HasData, AtEof, AtReset
  <2>2. HasAll(p)
    BY <1>7 DEF HasAll
  <2>3. \E r : End(p, "answered", SetData(c, "server", r))
    BY <1>4, <2>1, <2>2
  <2>4. PICK r : End(p, "answered", SetData(c, "server", r))
    BY <2>3
  <2>5. PICK d : d = SetData(c, "server", r)
    OBVIOUS
  <2>6. Shaped(d) /\ d["client"] = c["client"] /\ d["server"].end = c["server"].end
    BY <1>5, <2>5, EndsAre, SetDataShape
  <2>7. status'[p] = "answered" /\ conn'[p] \in Closings(d, "client")
    <3>1. End(p, "answered", d)
      BY <2>4, <2>5
    <3> QED
      BY <3>1, Ending
  <2>8. conn[p]["server"].data # <<>>
    BY <1>3, <2>1
  <2>9. Leaves(p, "answered", d)
    BY <1>1, <1>5, <1>7, <2>6, <2>7, <2>8 DEF Leaves, Outcomes
  <2>10. PInv(p)'
    BY <1>1, <2>9, LeavingKeepsP
  <2> QED
    BY <2>10, OnlyThisClient
<1>8. CASE AtEof(c, "client") /\ End(p, AtEndOfFile, c) /\ UNCHANGED got
  <2>1. PICK how \in {"died", "unanswered", "guessed", "answered"} : how = AtEndOfFile
    BY DEF AtEndOfFile
  <2>2. how = "answered" => Kind \in {"endpoint", "note"}
    BY <2>1 DEF AtEndOfFile, Kind
  <2>3. End(p, how, c)
    BY <1>8, <2>1
  <2>4. status'[p] = how /\ conn'[p] \in Closings(c, "client")
    BY <2>3, Ending
  <2>5. s = <<>> /\ ~IsOpen(conn[p], "server")
    BY <1>5, <1>8, EndsAre DEF AtEof, HasData, IsOpen
  <2>6. got'[p] = got[p] /\ (Kind # "vote" => got[p] \in Seq(Byte))
    BY <1>1, <1>8 DEF PInv, ClientOK
  <2>7. ASSUME Kind # "vote", how = "answered"
        PROVE  got[p] = Answer(p) \/ got[p] = <<>>
    <3>1. PICK z \in Seq(Byte) : (got[p] \o s) \o z = Answer(p)
      BY <1>1, <1>3, <2>7 DEF PInv, AnswerOK
    <3>2. PICK g : g = got[p]
      OBVIOUS
    <3>3. g \in Seq(Byte)
      BY <2>6, <2>7, <3>2
    <3>4. g \o <<>> = g
      BY <3>3, ConcatEmptySeq
    <3>5. g \o z = Answer(p)
      BY <2>5, <3>1, <3>2, <3>4
    <3>6. Len(g \o z) = 1
      BY <2>2, <2>7, <3>5, AnswersAreBytes
    <3>7. Len(g \o z) = Len(g) + Len(z) /\ Len(g) \in Nat /\ Len(z) \in Nat
      BY <3>3, ConcatProperties, LenProperties
    <3>8. Len(g) = 0 \/ Len(g \o z) <= Len(g)
      BY <3>6, <3>7
    <3>9. g = <<>> \/ g \o z = g
      BY <3>3, <3>8, EmptySeq, WholeOfIt
    <3> QED
      BY <3>2, <3>5, <3>9
  <2>8. Leaves(p, how, c)
    BY <1>1, <1>3, <1>5, <2>2, <2>4, <2>5, <2>6, <2>7 DEF Leaves, Outcomes
  <2>9. PInv(p)'
    BY <1>1, <2>8, LeavingKeepsP
  <2> QED
    BY <2>9, OnlyThisClient
<1>9. CASE /\ AtReset(c, "client") /\ UNCHANGED got
           /\ IF Kind = "endpoint"
                THEN conn' = [conn EXCEPT ![p] = ErrorReturned(c, "client")] /\ UNCHANGED status
                ELSE End(p, IF Kind = "vote" THEN "guessed" ELSE "died", ErrorReturned(c, "client"))
  <2>1. PICK d : d = SetEnd(c, "server", "broken") /\ d = ErrorReturned(c, "client")
    BY EndsAre DEF ErrorReturned
  <2>2. /\ Shaped(d) /\ d["client"] = conn[p]["client"]
        /\ d["server"].data = c["server"].data /\ d["server"].end = "broken"
    <3>1. /\ Shaped(d) /\ d["client"] = c["client"]
          /\ d["server"].data = c["server"].data /\ d["server"].end = "broken"
      BY <1>5, <2>1, EndsAre, SetEndShape
    <3> QED
      BY <1>5, <3>1
  <2>3. /\ conn[p]["server"].end = "rst" /\ conn[p]["server"].data = <<>> /\ d["server"].data = <<>>
        /\ ~IsOpen(conn[p], "server")
    BY <1>5, <1>9, <2>2, EndsAre DEF AtReset, HasData, IsOpen
  <2>4. got'[p] = got[p] /\ (Kind # "vote" => got[p] \in Seq(Byte))
    BY <1>1, <1>9 DEF PInv, ClientOK
  <2>5. CASE Kind # "endpoint"
    <3>1. PICK how \in {"guessed", "died"} : how = IF Kind = "vote" THEN "guessed" ELSE "died"
      OBVIOUS
    <3>2. End(p, how, d)
      BY <1>9, <2>1, <2>5, <3>1
    <3>3. status'[p] = how /\ conn'[p] \in Closings(d, "client")
      BY <3>2, Ending
    <3>4. Leaves(p, how, d)
      BY <1>1, <2>2, <2>3, <2>4, <3>3 DEF Leaves, Outcomes
    <3>5. PInv(p)'
      BY <1>1, <3>4, LeavingKeepsP
    <3> QED
      BY <3>5, OnlyThisClient
  <2>6. CASE Kind = "endpoint"
    <3>1. conn' = [conn EXCEPT ![p] = d] /\ UNCHANGED status
      BY <1>9, <2>1, <2>6
    <3>2. conn'[p] = d /\ status'[p] = status[p]
      BY <1>2, <3>1
    <3>3. PInv(p)'
      <4>1. OpenOK(p)'
        BY <1>1, <2>2, <2>3, <3>2 DEF PInv, OpenOK, IsOpen, Outward
      <4>2. ClientOK(p)'
        BY <1>1, <2>2, <2>3, <2>4, <3>2, EmptySeq DEF PInv, ClientOK, IsOpen, Outward
      <4>3. OnceOK(p)'
        <5>1. Unsent(p)' => Unsent(p)
          BY <1>1, <2>2, <3>2 DEF Unsent, Outward
        <5> QED
          BY <1>1, <2>2, <2>3, <2>4, <3>2, <5>1 DEF PInv, OnceOK, Outward
      <4>4. PlusOK(p)' /\ EchoOK(p)' /\ EndOK(p)'
        BY <1>1, <2>6 DEF PlusOK, EchoOK, EndOK, Outward
      <4>5. AnswerOK(p)'
        BY <1>1, <2>3, <2>4, <3>2 DEF PInv, AnswerOK, Outward
      <4> QED
        BY <4>1, <4>2, <4>3, <4>4, <4>5 DEF PInv
    <3> QED
      BY <3>3, OnlyThisClient
  <2> QED
    BY <2>5, <2>6
<1> QED
  BY <1>4, <1>6, <1>7, <1>8, <1>9

\* A number in decimal is bytes, and so is a request of a voter.
LEMMA DigitsAreBytes ==
  ASSUME NEW n \in Nat
  PROVE  Digits(n) \in Seq(Nat)
<1> DEFINE size == CASE n > 999 -> 4 [] n \in 100 .. 999 -> 3 [] n \in 10 .. 99 -> 2 [] OTHER -> 1
           place(k) == <<1, 10, 100, 1000>>[size + 1 - k]
           digit(k) == 48 + ((n \div place(k)) % 10)
<1>1. size \in 1 .. 4
  OBVIOUS
<1>2. Digits(n) = [k \in 1 .. size |-> digit(k)]
  BY DEF Digits
<1> HIDE DEF size
<1>3. \A i \in 1 .. 4 : <<1, 10, 100, 1000>>[i] \in Nat \ {0}
  OBVIOUS
<1>4. \A k \in 1 .. size : place(k) \in Nat \ {0}
  <2>1. \A k \in 1 .. size : size + 1 - k \in 1 .. 4
    BY <1>1
  <2> QED
    BY <1>3, <2>1
<1> HIDE DEF place
<1>5. \A a \in Nat, b \in Nat \ {0} : a \div b \in Nat /\ 48 + ((a \div b) % 10) \in Nat
  OBVIOUS
<1>6. \A k \in 1 .. size : digit(k) \in Nat
  BY <1>4, <1>5
<1> HIDE DEF digit
<1>7. Digits(n) \in [1 .. size -> Nat]
  BY <1>2, <1>6
<1> QED
  BY <1>1, <1>7, SeqDef

LEMMA RequestsAreBytes ==
  ASSUME ChosenOK, NEW p \in Client, Kind = "vote"
  PROVE  Framed(build.framing, Request(p)) \in Seq(Byte)
<1> DEFINE v == [isInquiry |-> ballot[p].isInquiry, isResponse |-> FALSE,
                 candidate |-> ballot[p].candidate, count |-> 0]
<1>1. ballot[p].candidate \in Nat
  <2>1. ballot[p] \in [candidate : 0 .. MAX_CANDIDATE, isInquiry : BOOLEAN]
    BY ServersAssumption DEF ChosenOK
  <2> QED
    BY <2>1 DEF MAX_CANDIDATE
<1>2. PICK c \in Nat : c = ballot[p].candidate
  BY <1>1
<1>3. v.candidate = c /\ v.isResponse = FALSE
  BY <1>2
<1>4. Request(p) = Encode(build.encoding, v)
  BY DEF Request
<1> HIDE DEF v
<1>5. TwoBytes(c) \in Seq(Nat)
  BY DEF TwoBytes
<1>6. Digits(c) \in Seq(Nat)
  BY DigitsAreBytes
<1>7. EncodeBin(v) \in Seq(Nat)
  <2>1. PICK a \in Seq(Nat) : a = <<84 + (IF v.isInquiry THEN 1 ELSE 0) + (IF v.isResponse THEN 2 ELSE 0), 0>>
    <3>1. PICK x \in Nat : x = 84 + (IF v.isInquiry THEN 1 ELSE 0) + (IF v.isResponse THEN 2 ELSE 0)
      OBVIOUS
    <3>2. <<x, 0>> \in Seq(Nat)
      OBVIOUS
    <3> QED
      BY <3>1, <3>2
  <2>2. PICK b \in Seq(Nat) : b = TwoBytes(c)
    BY <1>5
  <2>3. EncodeBin(v) = a \o b \o <<>>
    BY <1>3, <2>1, <2>2 DEF EncodeBin
  <2>4. <<>> \in Seq(Nat) /\ a \o b \in Seq(Nat)
    BY EmptySeq, ConcatProperties
  <2> QED
    BY <2>3, <2>4, ConcatEmptySeq
<1>8. EncodeText(v) \in Seq(Nat)
  <2>1. PICK a \in Seq(Nat) : a = <<86, BLANK, IF v.isInquiry THEN 105 ELSE 118, BLANK>>
    <3>1. PICK x \in Nat : x = IF v.isInquiry THEN 105 ELSE 118
      OBVIOUS
    <3>2. <<86, 32, x, 32>> \in Seq(Nat)
      OBVIOUS
    <3> QED
      BY <3>1, <3>2 DEF BLANK
  <2>2. PICK b \in Seq(Nat) : b = <<BLANK>>
    <3>1. <<32>> \in Seq(Nat)
      OBVIOUS
    <3> QED
      BY <3>1 DEF BLANK
  <2>3. PICK e \in Seq(Nat) : e = Digits(c)
    BY <1>6
  <2>4. PICK z \in Seq(Nat) : z = <<>>
    BY EmptySeq
  <2>5. EncodeText(v) = ((a \o z) \o b \o e) \o z
    BY <1>3, <2>1, <2>2, <2>3, <2>4 DEF EncodeText
  <2>6. a \o z \in Seq(Nat) /\ (a \o z) \o b \in Seq(Nat)
    BY ConcatProperties
  <2>7. (a \o z) \o b \o e \in Seq(Nat)
    BY <2>6, ConcatProperties
  <2>8. ((a \o z) \o b \o e) \o z \in Seq(Nat)
    BY <2>7, ConcatProperties
  <2> QED
    BY <2>5, <2>8
<1>9. PICK m \in Seq(Nat) : m = Request(p)
  BY <1>4, <1>7, <1>8 DEF Encode
<1>10. Framed(build.framing, m) \in Seq(Nat)
  <2>1. Append(m, NEWLINE) \in Seq(Nat)
    BY AppendProperties DEF NEWLINE
  <2>2. Len(m) \in Nat
    BY LenProperties
  <2>3. TwoBytes(Len(m)) \in Seq(Nat)
    BY <2>2 DEF TwoBytes
  <2>4. TwoBytes(Len(m)) \o m \in Seq(Nat)
    BY <2>3, ConcatProperties
  <2> QED
    BY <2>1, <2>4 DEF Framed
<1>11. Seq(Nat) \subseteq Seq(Byte)
  BY DEF Byte
<1> QED
  BY <1>9, <1>10, <1>11

\* A connection that is queued is a connection more.
LEMMA QueuedOneMore ==
  ASSUME HInv, program' = program, NEW p \in Client, NEW q \in Port,
         backlog' = [backlog EXCEPT ![q] = Append(@, p)]
  PROVE  Queued(p)' /\ \A r \in Client : r # p => (Queued(r)' <=> Queued(r))
<1>1. q \in 1 .. Ports /\ backlog[q] \in Seq(Client) /\ backlog \in [1 .. Ports -> Seq(Client)]
  BY SamePort DEF HInv, CInv, ControlTypes
<1>2. PICK s \in Seq(Client) : s = backlog[q]
  BY <1>1
<1>3. PICK t : t = Append(s, p)
  OBVIOUS
<1>4. /\ Len(t) = Len(s) + 1 /\ Len(s) \in Nat /\ DOMAIN s = 1 .. Len(s) /\ DOMAIN t = 1 .. Len(t)
      /\ \A k \in 1 .. Len(s) : t[k] = s[k]
      /\ t[Len(s) + 1] = p
  BY <1>3, AppendProperties, LenProperties
<1>5. /\ \A k \in DOMAIN s : k \in DOMAIN t /\ t[k] = s[k]
      /\ \A k \in DOMAIN t : k \in DOMAIN s \/ t[k] = p
      /\ \E k \in DOMAIN t : t[k] = p
  BY <1>4
<1>6. backlog'[q] = t /\ \A r \in 1 .. Ports : r # q => backlog'[r] = backlog[r]
  BY <1>1, <1>2, <1>3
<1>7. Queued(p)'
  BY <1>1, <1>5, <1>6 DEF Queued
<1>8. ASSUME NEW r \in Client, r # p, Queued(r)'
      PROVE  Queued(r)
  BY <1>1, <1>2, <1>5, <1>6, <1>8 DEF Queued
<1>9. ASSUME NEW r \in Client, Queued(r)
      PROVE  Queued(r)'
  BY <1>1, <1>2, <1>5, <1>6, <1>9 DEF Queued
<1> QED
  BY <1>7, <1>8, <1>9

LEMMA ConnectKeepsS ==
  ASSUME HInv, HInv', SInv, NEW p \in Client, Connect(p)
  PROVE  StreamsOK'
<1>1. PInv(p) /\ Shaped(conn[p]) /\ status[p] = "start" /\ conn[p] = Idle /\ got[p] = <<>>
  BY DEF SInv, StreamsOK, PInv, ClientOK, Connect
<1>2. DOMAIN conn = Client /\ DOMAIN got = Client /\ DOMAIN status = Client
  BY DEF HInv, CInv, ControlTypes, SInv, StreamsOK, StreamTypes
<1>3. UNCHANGED <<program, fds, workers, got, at, sock, buf>>
  BY DEF Connect, chosen, workers
<1>4. Kind' = Kind /\ Architecture' = Architecture /\ ToSend' = ToSend /\ Answer(p)' = Answer(p)
  BY <1>3, SameProgram DEF ToSend, Answer, PlusOne
<1>5. /\ DOMAIN Idle = Ends /\ \A e \in Ends : DOMAIN Idle[e] = {"data", "end"}
      /\ \A e \in Ends : Idle[e].data = <<>> /\ Idle[e].end = "idle"
      /\ DOMAIN Established = Ends /\ \A e \in Ends : DOMAIN Established[e] = {"data", "end"}
      /\ \A e \in Ends : Established[e].data = <<>> /\ Established[e].end = "open"
  BY DEF Idle, Established
<1>6. ~Kept(p)
  BY <1>1, <1>5, EndsAre DEF PInv, OpenOK, IsOpen
<1>7. \A w \in Worker : sock[w] = p => at[w] \notin Busy
  BY <1>6, BusyIsKept
<1>8. (\A w \in Worker : ~Serves(w, p)) /\ Held(p) = <<>> /\ Held(p)' = <<>>
  <2>1. (\A w \in Worker : ~Serves(w, p)) /\ (\A w \in Worker : ~Serves(w, p)')
    BY <1>3, <1>7 DEF Serves, Busy
  <2> QED
    BY <2>1 DEF Held
<1>9. ~Worked(p, ToSend)' /\ ~Worked(p, {"send", "close"})' /\ ~Worked(p, {"receive", "send"})' /\ ~Worked(p, {"close"})'
  <2>1. ToSend' \subseteq Busy
    BY <1>4 DEF ToSend, Busy, Serving
  <2> QED
    BY <1>3, <1>7, <2>1 DEF Worked, Busy, Serving
<1>10. <<>> \in Seq(Byte)
  BY EmptySeq
<1>11. CASE listeners = {}
  <2>1. status' = [status EXCEPT ![p] = "refused"] /\ UNCHANGED <<conn, backlog>>
    BY <1>11 DEF Connect
  <2>2. /\ status'[p] = "refused" /\ conn'[p] = conn[p] /\ got'[p] = got[p]
        /\ \A r \in Client : r # p => status'[r] = status[r] /\ conn'[r] = conn[r] /\ got'[r] = got[r]
    BY <1>2, <1>3, <2>1
  <2>3. (\A r \in Client : Queued(r)' <=> Queued(r)) /\ (Kept(p)' <=> Kept(p))
    BY <1>3, <2>1 DEF Queued, Kept
  <2>4. OpenOK(p)' /\ ClientOK(p)'
    BY <1>1, <1>4, <1>5, <2>2, <2>3, EndsAre DEF PInv, OpenOK, ClientOK, IsOpen
  <2>5. OnceOK(p)' /\ PlusOK(p)'
    BY <1>1, <1>5, <1>6, <1>9, <2>2, <2>3, EndsAre DEF OnceOK, PlusOK, Unsent, Kept
  <2>6. EchoOK(p)' /\ EndOK(p)' /\ AnswerOK(p)'
    BY <1>1, <1>5, <1>8, <1>9, <2>2, EndsAre DEF EchoOK, EndOK, AnswerOK, IsOpen
  <2>7. PInv(p)'
    BY <2>4, <2>5, <2>6 DEF PInv
  <2> QED
    BY <1>2, <1>3, <2>1, <2>2, <2>3, <2>7, OtherClients
<1>12. CASE listeners # {}
  <2>1. PICK q \in Port :
          /\ status' = [status EXCEPT ![p] = "connected"]
          /\ conn' = [conn EXCEPT ![p] = Established]
          /\ backlog' = [backlog EXCEPT ![q] = Append(@, p)]
    BY <1>12 DEF Connect
  <2>2. /\ status'[p] = "connected" /\ conn'[p] = Established /\ got'[p] = got[p] /\ DOMAIN conn' = Client
        /\ \A r \in Client : r # p => status'[r] = status[r] /\ conn'[r] = conn[r] /\ got'[r] = got[r]
    <3> HIDE DEF Established
    <3> QED
      BY <1>2, <1>3, <2>1
  <2>3. Queued(p)' /\ (\A r \in Client : r # p => (Queued(r)' <=> Queued(r))) /\ Kept(p)'
    BY <1>3, <2>1, QueuedOneMore DEF Kept
  <2>4. OpenOK(p)'
    BY <1>4, <1>5, <1>10, <2>2, <2>3, EndsAre DEF OpenOK, IsOpen, Shaped
  <2>4a. ClientOK(p)'
    <3>1. Shaped(Established) /\ Established["client"].data = <<>> /\ Established["server"].data = <<>>
          /\ Established["client"].end = "open"
      BY <1>5, EndsAre DEF Shaped
    <3>2. got'[p] = <<>>
      BY <1>1, <2>2
    <3> HIDE DEF Established
    <3> QED
      BY <1>4, <1>10, <2>2, <3>1, <3>2 DEF ClientOK, IsOpen
  <2>5. OnceOK(p)'
    BY <1>1, <1>5, <1>9, <2>2, EndsAre DEF OnceOK
  <2>6. PlusOK(p)'
    BY <1>5, <1>8, <1>10, <2>2, EndsAre, ConcatEmptySeq DEF PlusOK
  <2>7. EchoOK(p)' /\ EndOK(p)' /\ AnswerOK(p)'
    BY <1>8, <1>9, <2>2 DEF EchoOK, EndOK, AnswerOK, Ended, Outcomes
  <2>8. PInv(p)'
    BY <2>4, <2>4a, <2>5, <2>6, <2>7 DEF PInv
  <2> QED
    BY <1>2, <1>3, <2>2, <2>3, <2>8, OtherClients
<1> QED
  BY <1>11, <1>12

\* p has sent all it has to say, to a server that may be gone.
LEMMA SentKeepsP ==
  ASSUME HInv, SInv, NEW p \in Client, Outward(p), status[p] = "connected", status'[p] = "reading",
         got'[p] = got[p], NEW d, conn'[p] = d, Shaped(d),
         d["client"].end = conn[p]["client"].end, d["server"].data = conn[p]["server"].data,
         IsOpen(d, "server") <=> IsOpen(conn[p], "server"), d["client"].data \in Seq(Byte),
         IsOpen(conn[p], "server") /\ Kind # "vote" => d["client"].data = Word[p],
         ~IsOpen(conn[p], "server") => d["client"].data = <<>>
  PROVE  PInv(p)'
<1>1. /\ PInv(p) /\ conn[p]["client"].data = <<>> /\ conn[p]["server"].data = <<>> /\ got[p] = <<>>
      /\ IsOpen(conn[p], "client") /\ IsOpen(d, "client")
  BY DEF SInv, StreamsOK, PInv, ClientOK, IsOpen
<1>2. <<>> \in Seq(Byte) /\ <<>> \o <<>> = <<>>
  BY EmptySeq, ConcatEmptySeq
<1>3. OpenOK(p)'
  BY <1>1 DEF PInv, OpenOK, Outward
<1>4. ClientOK(p)'
  BY <1>1, <1>2 DEF ClientOK, Outward
<1>5. OnceOK(p)'
  <2>1. Kind # "echo" => ~Worked(p, {"send", "close"})
    BY <1>1 DEF PInv, OnceOK
  <2> QED
    BY <1>1, <2>1 DEF OnceOK, Outward, IsOpen
<1>6. PlusOK(p)'
  <2>1. ASSUME Kind = "plus one", Queued(p) \/ Worked(p, {"receive", "send"})
        PROVE  Held(p) \o d["client"].data = Word[p]
    <3>1. \A w \in Worker : sock[w] = p /\ at[w] \in Busy => Kept(p)
      BY BusyIsKept
    <3>2. Kept(p)
      BY <2>1, <3>1 DEF Kept, Worked, Busy, Serving
    <3>3. d["client"].data = Word[p]
      BY <1>1, <2>1, <3>2 DEF PInv, OpenOK
    <3>4. Held(p) = <<>>
      BY <1>1, <2>1 DEF PInv, PlusOK
    <3>5. <<>> \o Word[p] = Word[p]
      BY WordsAreTwo, ConcatEmptySeq
    <3> QED
      BY <3>3, <3>4, <3>5
  <2> QED
    BY <2>1 DEF PlusOK, Outward
<1>7. EchoOK(p)'
  <2>1. ASSUME Kind = "echo", IsOpen(conn[p], "server")
        PROVE  got[p] \o d["server"].data \o Held(p) \o d["client"].data = Word[p]
    <3>1. Held(p) = <<>> /\ d["client"].data = Word[p] /\ d["server"].data = <<>>
      BY <1>1, <2>1 DEF PInv, EchoOK
    <3>2. <<>> \o Word[p] = Word[p]
      BY WordsAreTwo, ConcatEmptySeq
    <3> QED
      BY <1>1, <1>2, <3>1, <3>2
  <2>2. Kind = "echo" => ~Worked(p, {"close"})
    BY <1>1 DEF PInv, EchoOK
  <2> QED
    BY <2>1, <2>2 DEF EchoOK, Outward, Lively
<1>8. EndOK(p)'
  BY DEF EndOK, Ended, Outcomes
<1>9. AnswerOK(p)'
  <2>1. ASSUME Kind # "vote"
        PROVE  \E t \in Seq(Byte) : (got[p] \o d["server"].data) \o t = Answer(p)
    <3>1. PICK t \in Seq(Byte) : t = Answer(p)
      BY <2>1, AnswersAreBytes
    <3>2. <<>> \o t = t
      BY ConcatEmptySeq
    <3> QED
      BY <1>1, <1>2, <3>1, <3>2
  <2> QED
    BY <2>1 DEF AnswerOK, Outward
<1> QED
  BY <1>3, <1>4, <1>5, <1>6, <1>7, <1>8, <1>9 DEF PInv

LEMMA SendWordKeepsS ==
  ASSUME HInv, HInv', SInv, NEW p \in Client, SendWord(p)
  PROVE  StreamsOK'
<1>1. PInv(p) /\ Shaped(conn[p]) /\ status[p] = "connected" /\ Outward(p)
  BY OneClient DEF SInv, StreamsOK, PInv, ClientOK, SendWord
<1>2. DOMAIN conn = Client /\ DOMAIN status = Client /\ got' = got
  BY DEF HInv, CInv, ControlTypes, SInv, StreamsOK, StreamTypes, SendWord
<1>3. PICK c, m : c = conn[p] /\ m = IF Kind = "vote" THEN Framed(build.framing, Request(p)) ELSE Request(p)
  OBVIOUS
<1>4. m \in Seq(Byte) /\ (Kind # "vote" => m = Word[p])
  BY <1>3, RequestsAreBytes, WordsAreTwo DEF Request, SInv
<1>5. Shaped(c) /\ c["client"].data = <<>> /\ c["server"].data = <<>> /\ (Kind # "vote" => got[p] \in Seq(Byte))
  BY <1>1, <1>3 DEF PInv, ClientOK
<1>6. ASSUME NEW d, End(p, "died", d), Shaped(d), d["client"] = c["client"], d["server"].data = <<>>,
             \/ d["server"].end = c["server"].end
             \/ c["server"].end = "rst" /\ d["server"].end = "broken",
             Kind = "vote" \/ ~IsOpen(c, "server")
      PROVE  StreamsOK'
  <2>1. status'[p] = "died" /\ conn'[p] \in Closings(d, "client")
    BY <1>6, Ending
  <2>2. Leaves(p, "died", d)
    BY <1>1, <1>2, <1>3, <1>5, <1>6, <2>1 DEF Leaves, Outcomes
  <2>3. PInv(p)'
    BY <1>1, <2>2, LeavingKeepsP
  <2> QED
    BY <2>3, OnlyThisClient
<1>7. CASE (Kind = "vote" /\ ~Framable(build.framing, Request(p))) \/ RaisesSigPipe(c, "client")
  <2>1. End(p, "died", c)
    BY <1>3, <1>7 DEF SendWord
  <2>2. Kind = "vote" \/ ~IsOpen(c, "server")
    BY <1>7, EndsAre DEF RaisesSigPipe, IsOpen
  <2> QED
    BY <1>5, <1>6, <2>1, <2>2
<1>8. CASE ~((Kind = "vote" /\ ~Framable(build.framing, Request(p))) \/ RaisesSigPipe(c, "client"))
  <2>1. PICK d \in Sends(c, "client", m) :
          IF SendFailed(c, "client", d) /\ Kind # "vote" THEN End(p, "died", d)
          ELSE status' = [status EXCEPT ![p] = "reading"] /\ conn' = [conn EXCEPT ![p] = d]
    BY <1>3, <1>8 DEF SendWord
  <2>2. CASE IsOpen(c, "server")
    <3>1. d = SetData(c, "client", <<>> \o m) /\ <<>> \o m = m
      BY <1>4, <1>5, <2>1, <2>2, EndsAre, ConcatEmptySeq DEF Sends
    <3>2. Shaped(d) /\ d["server"] = c["server"] /\ d["client"].data = m /\ d["client"].end = c["client"].end
      BY <1>5, <3>1, EndsAre, SetDataShape
    <3>3. ~SendFailed(c, "client", d)
      BY <2>2, EndsAre DEF SendFailed, IsOpen
    <3>4. conn'[p] = d /\ status'[p] = "reading"
      BY <1>2, <2>1, <3>3
    <3>5. PInv(p)'
      BY <1>1, <1>2, <1>3, <1>4, <2>2, <3>2, <3>4, SentKeepsP DEF IsOpen
    <3> QED
      BY <3>5, OnlyThisClient
  <2>3. CASE ~IsOpen(c, "server")
    <3>1. d = c \/ (\E y \in {"finrst", "broken"} : d = SetEnd(c, "server", y) /\ (y = "broken" => c["server"].end = "rst"))
      BY <2>1, <2>3, EndsAre DEF Sends, Sent, ErrorReturned
    <3>2. /\ Shaped(d) /\ d["client"] = c["client"] /\ d["server"].data = <<>> /\ ~IsOpen(d, "server")
      <4>1. CASE d = c
        BY <1>5, <2>3, <4>1
      <4>2. ASSUME NEW y \in {"finrst", "broken"}, d = SetEnd(c, "server", y)
            PROVE  Shaped(d) /\ d["client"] = c["client"] /\ d["server"].data = <<>> /\ ~IsOpen(d, "server")
        <5>1. /\ Shaped(d) /\ d["client"] = c["client"]
              /\ d["server"].data = c["server"].data /\ d["server"].end = y
          BY <1>5, <4>2, EndsAre, SetEndShape
        <5> QED
          BY <1>5, <5>1 DEF IsOpen
      <4> QED
        BY <3>1, <4>1, <4>2
    <3>3. CASE SendFailed(c, "client", d) /\ Kind # "vote"
      <4>1. c["server"].end = "rst" /\ d = SetEnd(c, "server", "broken")
        BY <3>3, EndsAre DEF SendFailed, ErrorReturned
      <4>2. d["server"].end = "broken"
        BY <1>5, <4>1, EndsAre, SetEndShape
      <4>3. End(p, "died", d)
        BY <2>1, <3>3
      <4> QED
        BY <1>6, <2>3, <3>2, <4>1, <4>2, <4>3
    <3>4. CASE ~(SendFailed(c, "client", d) /\ Kind # "vote")
      <4>1. conn'[p] = d /\ status'[p] = "reading"
        BY <1>2, <2>1, <3>4
      <4>2. PInv(p)'
        BY <1>1, <1>2, <1>3, <1>5, <2>3, <3>2, <4>1, EmptySeq, SentKeepsP
      <4> QED
        BY <4>2, OnlyThisClient
    <3> QED
      BY <3>3, <3>4
  <2> QED
    BY <2>2, <2>3
<1> QED
  BY <1>7, <1>8

-----------------------------------------------------------------------------
(* The streams in all the behaviours. *)

LEMMA InitS == Init => SInv
<1> SUFFICES ASSUME Init PROVE SInv
  OBVIOUS
<1>1. ChosenOK
  <2>1. Kind = "vote" => build \in Builds /\ ballot \in [Client -> Commands]
    BY DEF Init
  <2>2. threadLimit \in Nat
    BY ServersAssumption DEF Init
  <2> QED
    BY <2>1, <2>2 DEF ChosenOK
<1>2. StreamTypes
  BY DEF Init, StreamTypes
<1>3. \A w \in Worker : fds[w] = {} /\ sock[w] = "nobody" /\ buf[w] = <<>>
  BY DEF Init
<1>4. \A w \in Worker : at[w] \in {"none", "select", "accept"}
  BY DEF Init
<1>5. \A q \in 1 .. Ports : backlog[q] = <<>> /\ DOMAIN backlog[q] = {}
  BY DEF Init
<1>6. <<>> \in Seq(Byte)
  BY EmptySeq
<1>7. ASSUME NEW w \in Worker
      PROVE  BufOK(w)
  BY <1>3, <1>4, <1>6, <1>7 DEF BufOK
<1>8. ASSUME NEW p \in Client
      PROVE  PInv(p)
  <2>1. \A w \in Worker : sock[w] # p
    BY <1>3, <1>8, ServersAssumption
  <2>2. ~Queued(p) /\ ~Kept(p) /\ \A X : ~Worked(p, X)
    BY <1>3, <1>5, <2>1 DEF Queued, Kept, Worked
  <2>3. conn[p] = Idle /\ status[p] = "start" /\ got[p] = <<>>
    BY <1>8 DEF Init
  <2>4. /\ Shaped(Idle) /\ \A e \in Ends : Idle[e].data = <<>> /\ Idle[e].end = "idle"
    BY DEF Idle, Shaped
  <2>5. OpenOK(p) /\ ClientOK(p)
    BY <1>6, <2>2, <2>3, <2>4, EndsAre DEF OpenOK, ClientOK, IsOpen
  <2>6. OnceOK(p) /\ PlusOK(p)
    BY <2>2, <2>3, <2>4, EndsAre DEF OnceOK, PlusOK, Unsent
  <2>7. EchoOK(p) /\ EndOK(p) /\ AnswerOK(p)
    BY <2>2, <2>3 DEF EchoOK, EndOK, AnswerOK, Ended, Outcomes
  <2> QED
    BY <2>5, <2>6, <2>7 DEF PInv
<1> QED
  BY <1>1, <1>2, <1>7, <1>8 DEF SInv, StreamsOK

LEMMA NextKeepsS == HInv /\ SInv /\ [Next]_svars => SInv'
<1> SUFFICES ASSUME HInv, SInv, [Next]_svars PROVE SInv'
  OBVIOUS
<1>1. HInv'
  BY NextKeepsH
<1>2. ChosenOK'
  <2>1. UNCHANGED chosen
    BY ChosenOnce
  <2>2. UNCHANGED <<program, build, threadLimit, ballot>>
    BY <2>1 DEF chosen
  <2> QED
    BY <2>2, SameProgram DEF SInv, ChosenOK
<1>3. ASSUME NEW w \in Worker, Serve(w)
      PROVE  StreamsOK'
  BY <1>1, <1>3, AcceptKeepsS, ReceiveKeepsS, SendKeepsS, FinishKeepsS DEF Serve
<1>4. ASSUME NEW w \in Worker,
             (w = "main" /\ MainStep) \/ (w \in Client /\ (ChildBegins(w) \/ Start(w))) \/ Stops(w)
      PROVE  StreamsOK'
  BY <1>1, <1>4, LoopKeepsS
<1>5. ASSUME NEW p \in Client, Connect(p) \/ SendWord(p) \/ Read(p) \/ Killed(p)
      PROVE  StreamsOK'
  BY <1>1, <1>5, ConnectKeepsS, SendWordKeepsS, ReadKeepsS, KilledKeepsS
<1>6. ASSUME HitReturn \/ UNCHANGED svars
      PROVE  StreamsOK'
  <2>1. "main" \in Worker
    BY DEF Worker
  <2> QED
    BY <1>1, <1>6, <2>1, LoopKeepsS
<1>7. StreamsOK'
  BY <1>3, <1>4, <1>5, <1>6 DEF Next, Stops, ServerStep
<1> QED
  BY <1>2, <1>7 DEF SInv

LEMMA StreamsHold == Spec => [](HInv /\ SInv)
<1>1. Init => HInv /\ SInv
  BY InitH, InitS
<1>2. HInv /\ SInv /\ [Next]_svars => (HInv /\ SInv)'
  BY NextKeepsH, NextKeepsS
<1> QED
  BY <1>1, <1>2, PTL DEF Spec

LEMMA StreamsAreRight == HInv /\ SInv => AnswersAreRight
<1> SUFFICES ASSUME HInv, SInv, NEW p \in Client
             PROVE  /\ /\ Kind = "echo" /\ status[p] = "reading" /\ IsOpen(conn[p], "server")
                       /\ \A w \in Worker : sock[w] = p => at[w] # "ended"
                       => Stream(p) = Word[p]
                    /\ status[p] = "answered" =>
                         CASE Kind = "echo" -> got[p] = Word[p]
                           [] Kind = "plus one" -> got[p] = PlusOne(Word[p])
                           [] Kind = "endpoint" -> got[p] \in {<<>>, <<p>>}
                           [] Kind = "note" -> got[p] \in {<<>>, <<18>>}
                           [] OTHER -> TRUE
  BY DEF AnswersAreRight
<1>1. PInv(p)
  BY DEF SInv, StreamsOK
<1>2. ASSUME Kind = "echo", status[p] = "reading", IsOpen(conn[p], "server"),
             \A w \in Worker : sock[w] = p => at[w] # "ended"
      PROVE  Stream(p) = Word[p]
  <2>1. Lively(p)
    <3>1. p \in Worker /\ (at[p] # "none" => sock[p] = p)
      BY DEF HInv, CInv, WorkersOK, Worker
    <3> QED
      BY <1>2, <3>1 DEF Lively
  <2>2. ~Worked(p, {"close"})
    BY <1>1, <1>2 DEF PInv, EchoOK, ClientOK
  <2> DEFINE handlers == {w \in Worker : sock[w] = p /\ at[w] \in {"receive", "send"}}
  <2>3. \A w \in Worker : w \in handlers <=> Serves(w, p)
    BY <2>2 DEF Serves, Serving, Worked
  <2>4. (IF handlers = {} THEN <<>> ELSE buf[CHOOSE w \in handlers : TRUE]) = Held(p)
    <3>1. HeldRight
      BY HeldIsRight
    <3>2. CASE handlers = {}
      BY <2>3, <3>1, <3>2 DEF HeldRight
    <3>3. CASE handlers # {}
      <4>1. (CHOOSE w \in handlers : TRUE) \in handlers
        BY <3>3
      <4>2. PICK w \in Worker : w = CHOOSE v \in handlers : TRUE
        BY <4>1
      <4>3. Serves(w, p)
        BY <2>3, <4>1, <4>2
      <4>4. Held(p) = buf[w]
        BY <3>1, <4>3 DEF HeldRight
      <4> QED
        BY <3>3, <4>2, <4>4
    <3> QED
      BY <3>2, <3>3
  <2>5. Stream(p) = got[p] \o conn[p]["server"].data \o Held(p) \o conn[p]["client"].data
    BY <2>4 DEF Stream
  <2> QED
    BY <1>1, <1>2, <2>1, <2>5 DEF PInv, EchoOK
<1>3. ASSUME status[p] = "answered"
      PROVE  CASE Kind = "echo" -> got[p] = Word[p]
               [] Kind = "plus one" -> got[p] = PlusOne(Word[p])
               [] Kind = "endpoint" -> got[p] \in {<<>>, <<p>>}
               [] Kind = "note" -> got[p] \in {<<>>, <<18>>}
               [] OTHER -> TRUE
  <2>1. Kind # "vote" => got[p] = Answer(p) \/ (Kind \in {"endpoint", "note"} /\ got[p] = <<>>)
    BY <1>1, <1>3 DEF PInv, AnswerOK
  <2>2. Kind \in {"echo", "plus one", "endpoint", "note", "vote"}
    BY DEF Kind
  <2> QED
    BY <2>1, <2>2 DEF Answer
<1> QED
  BY <1>2, <1>3

\* Whoever reads from an echo server has its whole word between the server and itself,
\* and what a client has when it is answered is its own answer, whole and in order.
THEOREM AnswersAreOwn == Spec => []AnswersAreRight
<1> QED
  BY StreamsHold, StreamsAreRight, PTL

-----------------------------------------------------------------------------
(* Why the servers end. *)

StatusOK == \A p \in Client : status[p] \in Outcomes \union {"start", "connected", "reading"}

EndsInv == EndsForAReason /\ StatusOK

\* Nobody but main() ends main().
LEMMA MainStays ==
  ASSUME HInv, UNCHANGED program,
         \/ at' = at
         \/ \E w \in Worker, x \in Places \ {"ended"} : at' = [at EXCEPT ![w] = x]
         \/ \E w \in Worker \ {"main"}, x \in Places : at' = [at EXCEPT ![w] = x]
         \/ \E p \in Client, x \in Places \ {"ended"}, y \in Places :
              at' = [at EXCEPT !["main"] = x, ![p] = y]
         \/ \E w \in Worker : \E c : Exit(w, c) /\ Process(w) # "main"
  PROVE  at'["main"] = "ended" => at["main"] = "ended"
<1>1. at \in [Worker -> Places] /\ "main" \in Worker /\ "main" \notin Client
  BY ServersAssumption DEF HInv, CInv, ControlTypes, Worker
<1>2. Process("main") = "main"
  BY DEF Process
<1>3. CASE \E w \in Worker : \E c : Exit(w, c) /\ Process(w) # "main"
  BY <1>1, <1>2, <1>3 DEF Exit
<1>4. CASE \E p \in Client, x \in Places \ {"ended"}, y \in Places :
             at' = [at EXCEPT !["main"] = x, ![p] = y]
  BY <1>1, <1>4
<1> QED
  BY <1>1, <1>3, <1>4

\* It is the process that a signal ends, or the failure of a call of its own.
LEMMA StopsItself ==
  ASSUME HInv, NEW w \in Worker, Stops(w)
  PROVE  Process(w) = w
<1>1. CASE Interrupt(w)
  BY <1>1 DEF Interrupt
<1>2. CASE CallFails(w)
  <2>1. at[w] \in {"accept", "fork", "create"} /\ at[w] \in PlacesOf(w)
    BY <1>2 DEF CallFails, HInv, CInv, PlacesOK
  <2>2. w \notin Client
    BY <2>1, ServersAssumption, Architectures DEF PlacesOf, Serving
  <2>3. w = "main" \/ Architecture = "pool"
    BY <2>1, <2>2 DEF PlacesOf, Worker
  <2> QED
    BY <2>3, Processes DEF Process
<1> QED
  BY <1>1, <1>2 DEF Stops

\* A reason stays a reason.
LEMMA ReasonsStay ==
  ASSUME HInv, EndsInv, UNCHANGED <<program, threadLimit>>,
         at'["main"] = "ended" => at["main"] = "ended" \/ "main" \in stopped',
         stopped \subseteq stopped', at["main"] = "ended" /\ ~running => ~running',
         \A p \in Client : status[p] = "killed" => status'[p] = "killed",
         StatusOK'
  PROVE  EndsInv'
<1>1. Architecture' = Architecture /\ Kind' = Kind
  BY SameProgram
<1>2. EndsForAReason'
  BY <1>1 DEF EndsInv, EndsForAReason
<1> QED
  BY <1>2 DEF EndsInv

\* A process of a server that a client's behaviour ends is of an echo server, and the
\* client was killed; or the server serves one client only.
LEMMA KilledMidway ==
  ASSUME HInv, SInv, StatusOK, NEW p \in Client, NEW w \in Worker, Serves(w, p), at[w] \in {"receive", "send"},
         Kind # "vote", conn[p]["client"].end \in {"rst", "finrst", "broken"},
         Architecture # "fork"
  PROVE  Kind = "echo" /\ status[p] = "killed"
<1>1. /\ PInv(p) /\ IsOpen(conn[p], "server") /\ status[p] \notin {"start", "refused"}
  BY ServedFacts
<1>2. Kind = "echo"
  <2>1. SUFFICES ASSUME Kind # "echo" PROVE FALSE
    OBVIOUS
  <2>2. Worked(p, ToSend)
    BY DEF Worked, Serves, ToSend
  <2> QED
    BY <1>1, <2>1, <2>2 DEF PInv, OnceOK, Unsent
<1>3. Ended(p)
  BY <1>1 DEF PInv, ClientOK, IsOpen, StatusOK, Ended
<1>4. status[p] = "killed"
  BY <1>1, <1>2, <1>3 DEF PInv, EndOK
<1> QED
  BY <1>2, <1>4

\* A session's step ends main() for a reason.
LEMMA SessionEnds ==
  ASSUME HInv, SInv, EndsInv, NEW w \in Worker, Receive(w) \/ Send(w) \/ Finish(w),
         at'["main"] = "ended", at["main"] # "ended"
  PROVE  Architecture = "once" \/ (Kind = "echo" /\ Architecture # "fork" /\ \E p \in Client : status[p] = "killed")
<1>1. at[w] \in Serving /\ UNCHANGED program
  BY DEF Receive, Send, Finish, Serving, chosen
<1>2. PICK p \in Client : p = sock[w] /\ Serves(w, p)
  BY <1>1, Served
<1>3. (\E x \in Serving : at' = [at EXCEPT ![w] = x]) => FALSE
  <2>1. Serving \subseteq Places \ {"ended"}
    BY DEF Serving, Places, Busy
  <2> QED
    BY <1>1, <2>1, MainStays
<1>4. Architecture # "fork" \/ Process(w) # "main"
  BY <1>1, ServersAssumption DEF HInv, CInv, PlacesOK, PlacesOf, Serving, Process, Worker
<1>5. ASSUME NEW c, Exit(w, c)
      PROVE  Architecture # "fork"
  <2>1. Process(w) # "main" => FALSE
    BY <1>1, <1>5, MainStays
  <2> QED
    BY <1>4, <2>1
<1>6. CASE Receive(w)
  <2>1. PICK c : \/ \E x \in Serving : at' = [at EXCEPT ![w] = x]
                 \/ at[w] = "receive" /\ AtReset(conn[p], "server") /\ OnError = "exit" /\ Exit(w, c)
    BY <1>2, <1>6 DEF Receive, TakeVote, TakeBytes, OnEof, OnError, Serving
  <2>2. at[w] = "receive" /\ conn[p]["client"].end = "rst" /\ Kind # "vote" /\ Exit(w, c)
    BY <1>3, <2>1, EndsAre DEF AtReset, OnError
  <2> QED
    BY <1>2, <1>5, <2>2, KilledMidway DEF EndsInv
<1>7. CASE Send(w)
  <2>1. at[w] = "send"
    BY <1>7 DEF Send
  <2>2. \/ RaisesSigPipe(conn[p], "server") /\ Exit(w, conn)
        \/ \E d : SendFailed(conn[p], "server", d) /\ Kind # "vote" /\ Exit(w, [conn EXCEPT ![p] = d])
        \/ at' = [at EXCEPT ![w] = NextAfter]
    BY <1>2, <1>7 DEF Send, NextAfter
  <2>3. at' # [at EXCEPT ![w] = NextAfter]
    BY <1>3 DEF NextAfter, Serving
  <2>4. conn[p]["client"].end \in {"rst", "finrst", "broken"} /\ \E c : Exit(w, c)
    BY <2>2, <2>3, EndsAre DEF RaisesSigPipe, SendFailed
  <2>5. CASE Kind # "vote"
    BY <1>2, <1>5, <2>1, <2>4, <2>5, KilledMidway DEF EndsInv
  <2>6. CASE Kind = "vote"
    <3>1. Worked(p, ToSend)
      BY <1>2, <2>1 DEF Worked, ToSend, Serves
    <3>2. PInv(p)
      BY DEF SInv, StreamsOK
    <3> QED
      BY <2>4, <2>6, <3>1, <3>2 DEF PInv, OnceOK, Unsent
  <2> QED
    BY <2>5, <2>6
<1>8. CASE Finish(w)
  <2>1. CASE Architecture = "fork"
    <3>1. Exit(w, conn)
      BY <1>8, <2>1 DEF Finish
    <3> QED
      BY <1>5, <2>1, <3>1
  <2>2. CASE Architecture \notin {"once", "fork"}
    <3>1. at' = [at EXCEPT ![w] = CASE Architecture = "thread" -> "ended"
                                    [] Architecture = "select" /\ ready = {} -> "select"
                                    [] OTHER -> "accept"]
      BY <1>8, <2>2 DEF Finish
    <3>2. Architecture = "thread" => w # "main"
      BY <1>1, ServersAssumption DEF HInv, CInv, PlacesOK, PlacesOf, Serving
    <3>3. \E x \in Places : at' = [at EXCEPT ![w] = x] /\ (x = "ended" => w # "main")
      BY <3>1, <3>2 DEF Places
    <3> QED
      BY <1>1, <3>3, MainStays
  <2> QED
    BY <2>1, <2>2
<1> QED
  BY <1>6, <1>7, <1>8

\* The threads are fewer than the clients when one is to be made.
LEMMA ThreadsAreFewer ==
  ASSUME HInv, at["main"] = "create"
  PROVE  Cardinality(Threads) \in Nat /\ Cardinality(Threads) < Cardinality(Client) /\ Cardinality(Client) \in Nat
<1>1. "main" \in Worker /\ Process("main") = "main"
  BY DEF Worker, Process
<1>2. sock["main"] \in fds["main"] /\ fds["main"] \subseteq Client
  BY <1>1 DEF HInv, CInv, ControlTypes, WorkersOK, Busy
<1>3. PICK p \in Client : at[p] = "none"
  BY <1>2 DEF HInv, CInv, WorkersOK
<1>4. Threads \subseteq Client \ {p}
  BY <1>3 DEF Threads
<1>5. IsFiniteSet(Client) /\ IsFiniteSet(Client \ {p}) /\ Cardinality(Client \ {p}) = Cardinality(Client) - 1
  BY FiniteClients, FS_RemoveElement
<1>6. IsFiniteSet(Threads) /\ Cardinality(Threads) <= Cardinality(Client \ {p})
  BY <1>4, <1>5, FS_Subset
<1>7. Cardinality(Threads) \in Nat /\ Cardinality(Client) \in Nat
  BY <1>5, <1>6, FS_CardinalityType
<1> QED
  BY <1>5, <1>6, <1>7

LEMMA ClientKeepsEnds ==
  ASSUME HInv, SInv, EndsInv, NEW p \in Client, Connect(p) \/ SendWord(p) \/ Read(p) \/ Killed(p)
  PROVE  EndsInv'
<1>1. UNCHANGED <<program, threadLimit, at, running, stopped>>
  BY DEF Connect, SendWord, Read, Killed, chosen, loop, workers, env
<1>2. /\ status[p] \in {"start", "connected", "reading"}
      /\ status' = status \/ \E x \in Outcomes \union {"connected", "reading"} : status' = [status EXCEPT ![p] = x]
  <2>1. CASE Connect(p)
    BY <2>1 DEF Connect, Outcomes
  <2>2. CASE SendWord(p)
    BY <2>2 DEF SendWord, End, Outcomes
  <2>3. CASE Read(p)
    BY <2>3 DEF Read, End, Outcomes, AtEndOfFile
  <2>4. CASE Killed(p)
    BY <2>4 DEF Killed, End, Outcomes
  <2> QED
    BY <2>1, <2>2, <2>3, <2>4
<1>3. DOMAIN status = Client
  BY DEF HInv, CInv, ControlTypes
<1>4. StatusOK' /\ \A r \in Client : status[r] = "killed" => status'[r] = "killed"
  BY <1>2, <1>3 DEF EndsInv, StatusOK, Outcomes
<1> QED
  BY <1>1, <1>4, ReasonsStay

LEMMA NextKeepsEnds == HInv /\ SInv /\ CountOK /\ EndsInv /\ [Next]_svars => EndsInv'
<1> SUFFICES ASSUME HInv, SInv, CountOK, EndsInv, [Next]_svars PROVE EndsInv'
  OBVIOUS
<1>1. UNCHANGED <<program, threadLimit>>
  BY ChosenOnce DEF chosen
<1>2. Architecture' = Architecture /\ Kind' = Kind
  BY <1>1, SameProgram
<1>3. "main" \in Worker /\ at \in [Worker -> Places] /\ "main" \notin Client /\ Client \subseteq Worker
  BY ServersAssumption DEF HInv, CInv, ControlTypes, Worker
\* Steps of the server that leave the clients and the keyboard alone.
<1>4. ASSUME UNCHANGED <<status, stopped>>, at["main"] = "ended" => running' = running,
             at'["main"] = "ended" => \/ at["main"] = "ended"
                                      \/ Architecture = "once" \/ ~running'
                                      \/ program = "TCPEchoServer-Thread" /\ threadLimit < Cardinality(Client)
                                      \/ Kind = "echo" /\ Architecture # "fork" /\ \E p \in Client : status[p] = "killed"
      PROVE  EndsInv'
  <2>1. StatusOK'
    BY <1>4 DEF EndsInv, StatusOK
  <2>2. EndsForAReason'
    BY <1>1, <1>2, <1>4 DEF EndsInv, EndsForAReason
  <2> QED
    BY <2>1, <2>2 DEF EndsInv
<1>5. ASSUME UNCHANGED <<status, stopped, running>>,
             at'["main"] = "ended" => at["main"] = "ended"
      PROVE  EndsInv'
  BY <1>4, <1>5
<1>6. ASSUME NEW w \in Worker, Accept(w) PROVE EndsInv'
  <2>1. UNCHANGED <<status, stopped, running>>
    BY <1>6 DEF Accept, clients, env
  <2>2. \E x \in Places \ {"ended"} : at' = [at EXCEPT ![w] = x]
    BY <1>6 DEF Accept, Places, Busy, Serving
  <2> QED
    BY <1>1, <1>5, <2>1, <2>2, MainStays
<1>7. ASSUME NEW w \in Worker, Receive(w) \/ Send(w) \/ Finish(w) PROVE EndsInv'
  <2>1. UNCHANGED <<status, stopped, running>>
    BY <1>7 DEF Receive, Send, Finish, clients, env, loop
  <2> QED
    BY <1>4, <1>7, <2>1, SessionEnds
<1>8. CASE MainStep
  <2>1. UNCHANGED <<status, stopped>>
    BY <1>8 DEF MainStep, Select, ShutDown, Fork, ParentCloses, Wait, CreateThread, clients, env
  <2>2. CASE Select
    <3>1. \E x \in Places \ {"ended"} : at' = [at EXCEPT !["main"] = x]
      BY <2>2 DEF Select, Places
    <3>2. at["main"] = "select"
      BY <2>2 DEF Select
    <3> QED
      BY <1>1, <1>3, <1>4, <2>1, <3>1, <3>2, MainStays
  <2>3. CASE ShutDown
    BY <1>4, <2>1, <2>3 DEF ShutDown, loop
  <2>4. CASE Fork
    <3>1. running' = running /\ sock["main"] \in fds["main"] /\ fds["main"] \subseteq Client
      BY <1>3, <2>4 DEF Fork, loop, HInv, CInv, ControlTypes, WorkersOK, Process, Busy
    <3>2. PICK p \in Client : p = sock["main"]
      BY <3>1
    <3>3. at' = [at EXCEPT !["main"] = "parent", ![p] = "child"] /\ "parent" \in Places \ {"ended"} /\ "child" \in Places
      BY <2>4, <3>2 DEF Fork, Places, Busy
    <3> QED
      BY <1>1, <1>5, <2>1, <3>1, <3>3, MainStays
  <2>5. CASE ParentCloses
    <3>1. running' = running /\ at' = [at EXCEPT !["main"] = "wait"] /\ "wait" \in Places \ {"ended"}
      BY <2>5 DEF ParentCloses, Places
    <3> QED
      BY <1>1, <1>3, <1>5, <2>1, <3>1, MainStays
  <2>6. CASE Wait
    <3>1. running' = running /\ at["main"] = "wait"
      BY <2>6 DEF Wait
    <3>2. Architecture = "fork"
      <4>1. at["main"] \in PlacesOf("main")
        BY <1>3 DEF HInv, CInv, PlacesOK
      <4> QED
        BY <3>1, <4>1, ServersAssumption DEF PlacesOf, Serving
    <3>3. ~(childProcCount > 0 /\ Children = {})
      <4>1. childProcCount = Cardinality(Children)
        BY <3>1, <3>2 DEF CountOK
      <4> QED
        BY <4>1, FS_EmptySet
    <3>4. (\E x \in Places \ {"ended"} : at' = [at EXCEPT !["main"] = x])
          \/ \E w \in Worker \ {"main"}, x \in Places : at' = [at EXCEPT ![w] = x]
      <4>1. "accept" \in Places \ {"ended"} /\ "reaped" \in Places
        BY DEF Places
      <4> QED
        BY <1>3, <2>6, <3>3, <4>1 DEF Wait, Zombies
    <3> QED
      BY <1>1, <1>3, <1>5, <2>1, <3>1, <3>4, MainStays
  <2>7. CASE CreateThread
    <3>1. running' = running /\ at["main"] = "create" /\ threadLimit \in Nat
      BY <2>7 DEF CreateThread, loop, SInv, ChosenOK
    <3>2. Cardinality(Threads) \in Nat /\ Cardinality(Threads) < Cardinality(Client) /\ Cardinality(Client) \in Nat
      BY <3>1, ThreadsAreFewer
    <3>3. CASE program = "TCPEchoServer-Thread" /\ ~(Cardinality(Threads) < threadLimit)
      <4>1. threadLimit < Cardinality(Client)
        BY <3>1, <3>2, <3>3
      <4> QED
        BY <1>4, <2>1, <3>1, <3>3, <4>1
    <3>4. CASE ~(program = "TCPEchoServer-Thread" /\ ~(Cardinality(Threads) < threadLimit))
      <4>1. sock["main"] \in fds["main"] /\ fds["main"] \subseteq Client
        BY <1>3, <3>1 DEF HInv, CInv, ControlTypes, WorkersOK, Process, Busy
      <4>2. PICK p \in Client : p = sock["main"]
        BY <4>1
      <4>3. at' = [at EXCEPT !["main"] = "accept", ![p] = "start"] \/ at' = [at EXCEPT !["main"] = "accept"]
        BY <2>7, <3>4, <4>2 DEF CreateThread
      <4>4. "accept" \in Places \ {"ended"} /\ "start" \in Places
        BY DEF Places, Busy
      <4>5. at'["main"] = "ended" => at["main"] = "ended"
        <5>1. CASE at' = [at EXCEPT !["main"] = "accept", ![p] = "start"]
          BY <1>1, <4>4, <5>1, MainStays
        <5>2. CASE at' = [at EXCEPT !["main"] = "accept"]
          BY <1>1, <1>3, <4>4, <5>2, MainStays
        <5> QED
          BY <4>3, <5>1, <5>2
      <4> QED
        BY <1>5, <2>1, <3>1, <4>5
    <3> QED
      BY <3>3, <3>4
  <2> QED
    BY <1>8, <2>2, <2>3, <2>4, <2>5, <2>6, <2>7 DEF MainStep
<1>9. ASSUME NEW p \in Client, ChildBegins(p) \/ Start(p) PROVE EndsInv'
  <2>1. UNCHANGED <<status, stopped, running>>
    BY <1>9 DEF ChildBegins, Start, clients, env, loop
  <2>2. at' = [at EXCEPT ![p] = "receive"] /\ "receive" \in Places /\ p \in Worker \ {"main"}
    BY <1>3, <1>9 DEF ChildBegins, Start, Places, Busy, Serving
  <2> QED
    BY <1>1, <1>5, <2>1, <2>2, MainStays
<1>10. ASSUME NEW w \in Worker, Stops(w) PROVE EndsInv'
  <2>1. /\ UNCHANGED <<status, running>> /\ stopped' = stopped \union {w}
        /\ Exit(w, conn) /\ Process(w) = w
    BY <1>10, StopsItself DEF Stops, Interrupt, CallFails, clients, loop
  <2>2. StatusOK'
    BY <2>1 DEF EndsInv, StatusOK
  <2>3. at'["main"] = "ended" => at["main"] = "ended" \/ "main" \in stopped'
    BY <1>1, <2>1, MainStays
  <2> QED
    BY <1>1, <2>1, <2>2, <2>3, ReasonsStay
<1>11. ASSUME NEW p \in Client, Connect(p) \/ SendWord(p) \/ Read(p) \/ Killed(p) PROVE EndsInv'
  BY <1>11, ClientKeepsEnds
<1>12. CASE HitReturn \/ UNCHANGED svars
  <2>1. UNCHANGED <<status, stopped, running, at>>
    BY <1>12 DEF HitReturn, svars, clients, loop, workers, env
  <2> QED
    BY <1>5, <2>1
<1> QED
  BY <1>6, <1>7, <1>8, <1>9, <1>10, <1>11, <1>12 DEF Next, Stops, ServerStep, Serve

LEMMA InitEnds == Init => EndsInv
<1> SUFFICES ASSUME Init PROVE EndsInv
  OBVIOUS
<1>1. at["main"] \in {"none", "select", "accept"} /\ \A p \in Client : status[p] = "start"
  BY DEF Init, Worker
<1> QED
  BY <1>1 DEF EndsInv, EndsForAReason, StatusOK

\* The process that accepts ends only because a signal or the failure of a call of its own
\* loop ended it, because it was told to, for want of threads, because it serves one
\* client only, or, in the echo servers that serve clients in the same process, because a
\* client was killed in the middle of its session.
THEOREM ServersEndForAReason == Spec => []EndsForAReason
<1>1. Init => HInv /\ SInv /\ CountOK /\ EndsInv
  BY InitH, InitS, InitCount, InitEnds
<1>2. (HInv /\ SInv /\ CountOK /\ EndsInv) /\ [Next]_svars => (HInv /\ SInv /\ CountOK /\ EndsInv)'
  <2>1. HInv => CInv
    BY DEF HInv
  <2> QED
    BY <2>1, NextKeepsH, NextKeepsS, NextKeepsCount, NextKeepsEnds
<1>3. EndsInv => EndsForAReason
  BY DEF EndsInv
<1> QED
  BY <1>1, <1>2, <1>3, PTL DEF Spec

-----------------------------------------------------------------------------
(* The messages of the votes: bytes, digits, encodings and framings. *)


\* A set of numbers that is not empty has a least one.
LEMMA LeastOne ==
  ASSUME NEW T \in SUBSET Nat, T # {}
  PROVE  Min(T) \in T /\ \A y \in T : Min(T) <= y
<1> DEFINE R == {ss \in Nat \X Nat : ss[1] < ss[2]}
<1>1. IsWellFoundedOn(R, Nat)
  BY NatLessThanWellFounded, Zenon DEF OpToRel
<1> HIDE DEF R
<1>2. \E x \in T : \A y \in T : ~ (<<y, x>> \in R)
  BY <1>1, WFMin
<1>3. PICK x \in T : \A y \in T : ~ (<<y, x>> \in R)
  BY <1>2
<1> USE DEF R
<1>4. \A y \in T : ~ (y < x)
  BY <1>3
<1>5. x \in T /\ \A y \in T : x <= y
  BY <1>4
<1> QED
  BY <1>5 DEF Min

\* Two sequences that follow one another, place by place.
LEMMA JoinedPlaces ==
  ASSUME NEW S, NEW a \in Seq(S), NEW b \in Seq(S), NEW t, t = a \o b
  PROVE  /\ t \in Seq(S) /\ Len(t) = Len(a) + Len(b) /\ Len(a) \in Nat /\ Len(b) \in Nat
         /\ \A k \in 1 .. Len(a) : t[k] = a[k]
         /\ \A k \in 1 .. Len(b) : t[Len(a) + k] = b[k]
<1>1. /\ Len(a) \in Nat /\ Len(b) \in Nat /\ t \in Seq(S) /\ Len(t) = Len(a) + Len(b)
      /\ \A k \in 1 .. Len(a) + Len(b) : t[k] = IF k <= Len(a) THEN a[k] ELSE b[k - Len(a)]
  BY ConcatProperties, LenProperties
<1>2. \A x, y \in Nat :
        /\ \A k \in 1 .. x : k \in 1 .. x + y /\ k <= x
        /\ \A k \in 1 .. y : x + k \in 1 .. x + y /\ ~(x + k <= x) /\ (x + k) - x = k
  OBVIOUS
<1> QED
  BY <1>1, <1>2

\* s is a with b behind it, as a predicate of the three.
Follows(a, b, s) ==
  /\ s \in Seq(Nat) /\ Len(s) = Len(a) + Len(b)
  /\ \A k \in 1 .. Len(a) : s[k] = a[k]
  /\ \A k \in 1 .. Len(b) : s[Len(a) + k] = b[k]
\* A sequence and another one, joined: the first is followed by the second.
LEMMA JoinedFollow ==
  ASSUME NEW a \in Seq(Nat), NEW b \in Seq(Nat), NEW s, s = a \o b
  PROVE  Follows(a, b, s)
BY JoinedPlaces DEF Follows

\* A sequence that begins with the places of another one, and is as long, is that one.
LEMMA SamePlaces ==
  ASSUME NEW S, NEW a \in Seq(S), NEW b \in Seq(S), Len(a) = Len(b),
         \A k \in 1 .. Len(a) : a[k] = b[k]
  PROVE  a = b
BY SeqEqual

\* The two bytes of a number.
LEMMA TwoBytesJoin ==
  ASSUME NEW n \in Nat
  PROVE  /\ TwoBytes(n) = <<n \div 256, n % 256>> /\ TwoBytes(n) \in Seq(Nat) /\ Len(TwoBytes(n)) = 2
         /\ Joined(TwoBytes(n)[1], TwoBytes(n)[2]) = n
<1>1. n \div 256 \in Nat /\ n % 256 \in Nat /\ ((n \div 256) * 256) + (n % 256) = n
  OBVIOUS
<1> QED
  BY <1>1 DEF TwoBytes, Joined

\* The newline that ends a message is the first of its bytes.
LEMMA NewlineEnds ==
  ASSUME NEW m \in Seq(Nat), \A k \in DOMAIN m : m[k] # NEWLINE
  PROVE  NextMsg("delim", Append(m, NEWLINE)) = m
<1> DEFINE s == Append(m, NEWLINE)
           n == Len(m)
           I == {i \in 1 .. Len(s) : s[i] = NEWLINE}
<1>1. n \in Nat /\ Len(s) = n + 1 /\ s[n + 1] = NEWLINE /\ \A k \in 1 .. n : s[k] = m[k]
      /\ s \in Seq(Nat) /\ DOMAIN m = 1 .. n
  BY DEF NEWLINE
<1>2. I = {n + 1}
  <2>1. \A i : i \in 1 .. n + 1 <=> i \in 1 .. n \/ i = n + 1
    BY <1>1
  <2> HIDE DEF s, n
  <2>2. ASSUME NEW i PROVE i \in I <=> i \in {n + 1}
    BY <1>1, <2>1
  <2> QED
    BY <2>2
<1>3. Min({n + 1}) = n + 1
  <2>1. {n + 1} \in SUBSET Nat /\ {n + 1} # {}
    BY <1>1
  <2> QED
    BY <2>1, LeastOne
<1>4. NextMsg("delim", s) = SubSeq(s, 1, SelectInSeq(s, LAMBDA b : b = NEWLINE) - 1)
  BY DEF NextMsg
<1>5. SelectInSeq(s, LAMBDA b : b = NEWLINE) = IF I # {} THEN Min(I) ELSE 0
  BY DEF SelectInSeq
<1> HIDE DEF I
<1>6. SelectInSeq(s, LAMBDA b : b = NEWLINE) - 1 = n
  BY <1>1, <1>2, <1>3, <1>5
<1>7. SubSeq(s, 1, n) = m
  BY <1>1
<1> QED
  BY <1>4, <1>6, <1>7

\* What follows the first two bytes.
LEMMA AfterTwo ==
  ASSUME NEW s \in Seq(Nat), NEW n \in Nat, Len(s) = 2 + n
  PROVE  /\ Len(SubSeq(s, 3, 2 + n)) = n /\ SubSeq(s, 3, 2 + n) \in Seq(Nat)
         /\ \A k \in 1 .. n : SubSeq(s, 3, 2 + n)[k] = s[2 + k]
OBVIOUS

\* The length in front of a message says where it ends.
LEMMA LengthEnds ==
  ASSUME NEW m \in Seq(Nat), NEW a \in Seq(Nat), Len(a) = 2, Joined(a[1], a[2]) = Len(m),
         NEW s, s = a \o m
  PROVE  NextMsg("length", s) = m /\ s \in Seq(Nat) /\ s # <<>>
<1>1. PICK n \in Nat : n = Len(m)
  OBVIOUS
<1>2. Follows(a, m, s)
  BY JoinedFollow
<1>3. PICK t : t = s
  OBVIOUS
<1>4. /\ t \in Seq(Nat) /\ Len(t) = 2 + n /\ t[1] = a[1] /\ t[2] = a[2]
      /\ \A k \in 1 .. n : t[2 + k] = m[k]
  BY <1>1, <1>2, <1>3 DEF Follows
<1>5. NextMsg("length", t) = SubSeq(t, 3, 2 + n)
  BY <1>1, <1>4 DEF NextMsg
<1>6. PICK u : u = SubSeq(t, 3, 2 + n)
  OBVIOUS
<1>7. u \in Seq(Nat) /\ Len(u) = n /\ \A k \in 1 .. n : u[k] = m[k]
  <2>1. /\ Len(SubSeq(t, 3, 2 + n)) = n /\ SubSeq(t, 3, 2 + n) \in Seq(Nat)
        /\ \A k \in 1 .. n : SubSeq(t, 3, 2 + n)[k] = t[2 + k]
    BY <1>4, AfterTwo
  <2> QED
    BY <1>4, <1>6, <2>1
<1>8. u = m
  BY <1>1, <1>7, SamePlaces
<1>9. t # <<>>
  BY <1>4
<1> QED
  BY <1>3, <1>4, <1>5, <1>6, <1>8, <1>9

\* GetNextMsg() returns what PutMsg() was given.
LEMMA NextIsFramed ==
  ASSUME NEW framing, NEW m \in Seq(Nat), Framable(framing, m)
  PROVE  /\ NextMsg(framing, Framed(framing, m)) = m
         /\ Framed(framing, m) \in Seq(Nat) /\ Framed(framing, m) # <<>>
<1>1. CASE framing = "length"
  <2>1. PICK n \in Nat : n = Len(m)
    OBVIOUS
  <2>2. PICK a : a = TwoBytes(n)
    OBVIOUS
  <2>3. a \in Seq(Nat) /\ Len(a) = 2 /\ Joined(a[1], a[2]) = Len(m)
    BY <2>1, <2>2, TwoBytesJoin
  <2>4. NextMsg("length", a \o m) = m /\ a \o m \in Seq(Nat) /\ a \o m # <<>>
    BY <2>3, LengthEnds
  <2> QED
    BY <1>1, <2>1, <2>2, <2>4 DEF Framed
<1>2. CASE framing # "length"
  <2>1. PICK s : s = Append(m, NEWLINE)
    OBVIOUS
  <2>2. s \in Seq(Nat) /\ s # <<>>
    BY <2>1 DEF NEWLINE
  <2>3. NextMsg("delim", s) = m
    BY <1>2, <2>1, NewlineEnds DEF Framable
  <2> QED
    BY <1>2, <2>1, <2>2, <2>3 DEF Framed, NextMsg
<1> QED
  BY <1>1, <1>2

\* The message at the start of the buffer it is put into.
LEMMA PutInBuffer ==
  ASSUME NEW buffer \in Seq(Nat), NEW m \in Seq(Nat), NEW s, s = Overwritten(buffer, m)
  PROVE  /\ s \in Seq(Nat) /\ Len(s) \in Nat /\ Len(m) \in Nat /\ Len(m) <= Len(s)
         /\ \A k \in 1 .. Len(m) : s[k] = m[k]
<1>1. PICK r : r = SubSeq(buffer, Len(m) + 1, Len(buffer))
  OBVIOUS
<1>2. r \in Seq(Nat)
  <2>1. Len(m) \in Nat /\ Len(buffer) \in Nat
    OBVIOUS
  <2> QED
    BY <1>1, <2>1
<1>3. s = m \o r
  BY <1>1 DEF Overwritten
<1> QED
  BY <1>2, <1>3, JoinedPlaces

\* Bytes that are no newline.
Plain(s) == s \in Seq(Nat) /\ \A k \in DOMAIN s : s[k] # NEWLINE

\* Bytes of one sequence and of another are bytes, joined.
LEMMA PlainJoined ==
  ASSUME NEW a, NEW b, Plain(a), Plain(b)
  PROVE  Plain(a \o b)
<1>1. a \in Seq(Nat) /\ b \in Seq(Nat)
  BY DEF Plain
<1>2. PICK s : s = a \o b
  OBVIOUS
<1>3. Follows(a, b, s)
  BY <1>1, <1>2, JoinedFollow
<1>4. PICK m \in Nat : m = Len(a)
  BY <1>1
<1>5. PICK n \in Nat : n = Len(b)
  BY <1>1
<1>6. /\ s \in Seq(Nat) /\ Len(s) = m + n
      /\ \A k \in 1 .. m : s[k] = a[k]
      /\ \A k \in 1 .. n : s[m + k] = b[k]
  BY <1>3, <1>4, <1>5 DEF Follows
<1>7. ASSUME NEW k \in DOMAIN s PROVE s[k] # NEWLINE
  <2>1. k \in 1 .. m + n
    BY <1>6
  <2>2. CASE k <= m
    BY <1>1, <1>4, <1>6, <2>1, <2>2 DEF Plain
  <2>3. CASE ~ (k <= m)
    <3>1. PICK j \in 1 .. n : k = m + j
      <4>1. k - m \in 1 .. n /\ k = m + (k - m)
        BY <2>1, <2>3
      <4> QED
        BY <4>1
    <3>2. s[k] = b[j]
      BY <1>6, <3>1
    <3>3. j \in DOMAIN b
      BY <1>1, <1>5, <3>1
    <3> QED
      BY <3>2, <3>3 DEF Plain
  <2> QED
    BY <2>2, <2>3
<1> QED
  BY <1>2, <1>6, <1>7 DEF Plain

\* The digits of a number, and how many there are.
SizeOf(n) == CASE n > 999 -> 4 [] n \in 100 .. 999 -> 3 [] n \in 10 .. 99 -> 2 [] OTHER -> 1
Place(n, k) == <<1, 10, 100, 1000>>[SizeOf(n) + 1 - k]
\* The digits of a number are bytes, one for each of its decimal places.
LEMMA DigitsArePlain ==
  ASSUME NEW n \in Nat
  PROVE  /\ Digits(n) \in Seq(48 .. 57) /\ Plain(Digits(n)) /\ Digits(n) # <<>>
         /\ Len(Digits(n)) = SizeOf(n) /\ SizeOf(n) \in 1 .. 4
         /\ \A k \in 1 .. SizeOf(n) : Digits(n)[k] = 48 + ((n \div Place(n, k)) % 10)
<1> DEFINE size == CASE n > 999 -> 4 [] n \in 100 .. 999 -> 3 [] n \in 10 .. 99 -> 2 [] OTHER -> 1
           place(k) == <<1, 10, 100, 1000>>[size + 1 - k]
           digit(k) == 48 + ((n \div place(k)) % 10)
<1>1. size \in 1 .. 4
  OBVIOUS
<1>2. Digits(n) = [k \in 1 .. size |-> digit(k)]
  BY DEF Digits
<1>0. size = SizeOf(n)
  BY DEF SizeOf
<1> HIDE DEF size
<1>3. \A i \in 1 .. 4 : <<1, 10, 100, 1000>>[i] \in Nat \ {0}
  OBVIOUS
<1>4. \A k \in 1 .. size : place(k) \in Nat \ {0}
  <2>1. \A k \in 1 .. size : size + 1 - k \in 1 .. 4
    BY <1>1
  <2> QED
    BY <1>3, <2>1
<1> HIDE DEF place
<1>5. \A a \in Nat, b \in Nat \ {0} : 48 + ((a \div b) % 10) \in 48 .. 57
  <2>1. \A a \in Nat, b \in Nat \ {0} : a \div b \in Nat
    OBVIOUS
  <2>2. \A x \in Nat : 48 + (x % 10) \in 48 .. 57
    OBVIOUS
  <2> QED
    BY <2>1, <2>2
<1>6. \A k \in 1 .. size : digit(k) \in 48 .. 57
  BY <1>4, <1>5
<1> HIDE DEF digit
<1>7. PICK s : s = Digits(n)
  OBVIOUS
<1>8. s \in [1 .. size -> 48 .. 57] /\ \A k \in 1 .. size : s[k] = digit(k)
  BY <1>2, <1>6, <1>7
<1>9. s \in Seq(48 .. 57)
  BY <1>1, <1>8, SeqDef
<1>10. Len(s) = size /\ DOMAIN s = 1 .. size
  BY <1>1, <1>8, <1>9
<1>11. s # <<>> /\ Plain(s)
  <2>1. s \in Seq(Nat)
    BY <1>9
  <2>2. \A k \in DOMAIN s : s[k] # 10
    BY <1>8, <1>10
  <2>3. s # <<>>
    BY <1>1, <1>9, <1>10
  <2> QED
    BY <2>1, <2>2, <2>3 DEF Plain, NEWLINE
<1> QED
  <2>1. \A k \in 1 .. size : s[k] = 48 + ((n \div Place(n, k)) % 10)
    BY <1>0, <1>8 DEF digit, place, Place
  <2> QED
    BY <1>0, <1>1, <1>7, <1>9, <1>10, <1>11, <2>1

\* A message in text has no newline inside.
LEMMA TextIsPlain ==
  ASSUME NEW v, v.candidate \in Nat, v.isResponse => v.count \in Nat
  PROVE  Plain(EncodeText(v)) /\ EncodeText(v) # <<>>
<1>1. PICK a : a = <<86, BLANK, IF v.isInquiry THEN 105 ELSE 118, BLANK>>
  OBVIOUS
<1>2. Plain(a)
  <2>1. PICK x \in Nat : x = (IF v.isInquiry THEN 105 ELSE 118) /\ x # 10
    OBVIOUS
  <2>2. a = <<86, 32, x, 32>>
    BY <1>1, <2>1 DEF BLANK
  <2> HIDE <1>1
  <2>3. a \in Seq(Nat) /\ DOMAIN a = 1 .. 4 /\ a[1] = 86 /\ a[2] = 32 /\ a[3] = x /\ a[4] = 32
    BY <2>2
  <2> QED
    BY <2>1, <2>3 DEF Plain, NEWLINE
<1>3. PICK b : b = IF v.isResponse THEN <<82>> ELSE <<>>
  OBVIOUS
<1>4. Plain(<<82>>) /\ Plain(<<>>) /\ Plain(<<BLANK>>)
  BY DEF Plain, NEWLINE, BLANK
<1>5. Plain(b)
  BY <1>3, <1>4
<1>6. PICK d : d = Digits(v.candidate)
  OBVIOUS
<1>7. Plain(d)
  BY <1>6, DigitsArePlain
<1>8. PICK e : e = IF v.isResponse THEN <<BLANK>> \o Digits(v.count) ELSE <<>>
  OBVIOUS
<1>9. Plain(e)
  <2>1. CASE v.isResponse
    BY <1>4, <1>8, <2>1, DigitsArePlain, PlainJoined
  <2> QED
    BY <1>4, <1>8, <2>1
<1>10. PICK f : f = <<BLANK>>
  OBVIOUS
<1>11. EncodeText(v) = ((a \o b) \o (f \o d)) \o e \/ EncodeText(v) = (((a \o b) \o f) \o d) \o e
  BY <1>1, <1>3, <1>6, <1>8, <1>10 DEF EncodeText
<1>12. Plain(EncodeText(v))
  <2>1. Plain(a \o b) /\ Plain(f)
    BY <1>2, <1>4, <1>5, <1>10, PlainJoined
  <2>2. Plain((a \o b) \o f) /\ Plain(f \o d)
    BY <1>7, <2>1, PlainJoined
  <2>3. Plain(((a \o b) \o f) \o d) /\ Plain((a \o b) \o (f \o d))
    BY <1>7, <2>1, <2>2, PlainJoined
  <2> QED
    BY <1>9, <1>11, <2>3, PlainJoined
<1>13. EncodeText(v) # <<>>
  <2>1. PICK t : t = (a \o b) \o f
    OBVIOUS
  <2>2. PICK u : u = f \o d
    OBVIOUS
  <2>3. t \in Seq(Nat) /\ u \in Seq(Nat) /\ a \o b \in Seq(Nat)
    BY <1>2, <1>4, <1>5, <1>7, <1>10, <2>1, <2>2, PlainJoined DEF Plain
  <2>4. d \in Seq(Nat) /\ e \in Seq(Nat) /\ d # <<>>
    BY <1>6, <1>7, <1>9, DigitsArePlain DEF Plain
  <2>5. t \o d \in Seq(Nat) /\ t \o d # <<>>
    BY <2>3, <2>4
  <2>6. u # <<>> /\ (a \o b) \o u # <<>> /\ (a \o b) \o u \in Seq(Nat)
    <3>1. u # <<>>
      BY <1>4, <1>10, <2>2, <2>4 DEF Plain
    <3> QED
      BY <2>3, <3>1
  <2> QED
    BY <1>11, <2>1, <2>2, <2>4, <2>5, <2>6
<1> QED
  BY <1>12, <1>13

\* The number that the first k digits of t make, where f has it for fewer.
NextNumber(t, f, k) == IF k = 0 THEN 0 ELSE 10 * f[k - 1] + (t[k] - 48)

\* There is a function of the numbers that the digits of t make, place by place.
LEMMA NumbersExist ==
  ASSUME NEW t \in Seq(48 .. 57)
  PROVE  \E f : f = [k \in 0 .. Len(t) |-> NextNumber(t, f, k)]
<1> DEFINE Has(n) == \E f : f = [k \in 0 .. n |-> NextNumber(t, f, k)]
           T == {n \in 0 .. Len(t) : ~Has(n)}
<1>1. Len(t) \in Nat
  OBVIOUS
<1>2. Has(0)
  <2> DEFINE f == [k \in {0} |-> 0]
  <2>1. 0 .. 0 = {0}
    OBVIOUS
  <2>2. \A g : NextNumber(t, g, 0) = 0
    BY DEF NextNumber
  <2>3. f = [k \in 0 .. 0 |-> NextNumber(t, f, k)]
    <3> HIDE DEF f
    <3>1. [k \in 0 .. 0 |-> NextNumber(t, f, k)] = [k \in {0} |-> 0]
      BY <2>1, <2>2
    <3> QED
      BY <3>1 DEF f
  <2> QED
    BY <2>3
<1>3. ASSUME NEW n \in Nat, Has(n) PROVE Has(n + 1)
  <2>1. PICK f : f = [k \in 0 .. n |-> NextNumber(t, f, k)]
    BY <1>3
  <2> DEFINE g == [k \in 0 .. n + 1 |-> IF k <= n THEN f[k] ELSE 10 * f[n] + (t[n + 1] - 48)]
             h == [k \in 0 .. n + 1 |-> NextNumber(t, g, k)]
  <2>2. \A k \in 0 .. n : f[k] = NextNumber(t, f, k)
    BY <2>1
  <2>3. \A k \in 0 .. n + 1 : k \in 0 .. n \/ (k = n + 1 /\ ~(k <= n) /\ k # 0 /\ k - 1 = n)
    OBVIOUS
  <2>4. \A k \in 0 .. n : k <= n /\ k \in 0 .. n + 1 /\ (k # 0 => k - 1 \in 0 .. n)
    OBVIOUS
  <2>5. \A k \in 0 .. n : g[k] = f[k]
    BY <2>4
  <2>6. n + 1 \in 0 .. n + 1 /\ n \in 0 .. n
    OBVIOUS
  <2>7. g[n + 1] = 10 * f[n] + (t[n + 1] - 48)
    BY <2>3, <2>6
  <2>8. DOMAIN g = 0 .. n + 1 /\ g = [k \in 0 .. n + 1 |-> g[k]]
    OBVIOUS
  <2> HIDE DEF g
  <2>9. \A k \in 0 .. n + 1 : g[k] = NextNumber(t, g, k)
    <3> TAKE k \in 0 .. n + 1
    <3>1. CASE k \in 0 .. n
      <4>1. k # 0 => g[k - 1] = f[k - 1]
        BY <2>4, <2>5, <3>1
      <4>2. NextNumber(t, g, k) = NextNumber(t, f, k)
        BY <4>1 DEF NextNumber
      <4> QED
        BY <2>2, <2>5, <3>1, <4>2
    <3>2. CASE k = n + 1
      <4>1. NextNumber(t, g, k) = 10 * g[n] + (t[n + 1] - 48)
        BY <2>3, <3>2 DEF NextNumber
      <4> QED
        BY <2>5, <2>6, <2>7, <3>2, <4>1
    <3> QED
      BY <2>3, <3>1, <3>2
  <2>10. h = [k \in 0 .. n + 1 |-> g[k]]
    BY <2>9
  <2> QED
    BY <2>8, <2>10
<1> HIDE DEF Has
<1>4. T = {}
  <2> SUFFICES ASSUME T # {} PROVE FALSE
    OBVIOUS
  <2>1. T \in SUBSET Nat
    BY <1>1
  <2>2. PICK m : m = Min(T)
    OBVIOUS
  <2>3. m \in T /\ \A y \in T : m <= y
    BY <2>1, <2>2, LeastOne
  <2>4. m \in 0 .. Len(t) /\ ~Has(m)
    BY <2>3
  <2>5. m # 0
    BY <1>2, <2>4
  <2>6. m - 1 \in Nat /\ m - 1 \in 0 .. Len(t) /\ (m - 1) + 1 = m /\ ~(m <= m - 1)
    BY <1>1, <2>4, <2>5
  <2>7. Has(m - 1)
    BY <2>3, <2>6
  <2> QED
    BY <1>3, <2>4, <2>6, <2>7
<1>5. Has(Len(t))
  <2>1. Len(t) \in 0 .. Len(t)
    BY <1>1
  <2> QED
    BY <1>4, <2>1
<1> QED
  BY <1>5 DEF Has

\* A candidate c of the command line, as the number x that begins with its digits, or a
\* number that is no candidate.
ReadAs(c, x) == c = 0 \/ x > MAX_CANDIDATE \/ c \in {x, x \div 10, x \div 100, x \div 1000}

\* One digit more is a number that begins as the number without it does.
LEMMA OneDigitMore ==
  ASSUME NEW c \in Nat, NEW x \in Nat, NEW d \in 0 .. 9, ReadAs(c, x)
  PROVE  10 * x + d \in Nat /\ ReadAs(c, 10 * x + d)
<1>1. (10 * x + d) \div 10 = x
  OBVIOUS
<1>2. (10 * x + d) \div 100 = x \div 10 /\ (10 * x + d) \div 1000 = x \div 100
  OBVIOUS
<1>3. x \div 1000 # 0 => 10 * x + d > 1000
  OBVIOUS
<1>4. x > 1000 => 10 * x + d > 1000
  OBVIOUS
<1> QED
  BY <1>1, <1>2, <1>3, <1>4 DEF ReadAs, MAX_CANDIDATE

\* How many digits a candidate has, and what each is worth.
LEMMA SizesOfNumbers ==
  ASSUME NEW c \in Nat
  PROVE  /\ c \in 0 .. 9 => SizeOf(c) = 1
         /\ c \in 10 .. 99 => SizeOf(c) = 2
         /\ c \in 100 .. 999 => SizeOf(c) = 3
         /\ c = 1000 => SizeOf(c) = 4
<1>1. c \in 0 .. 9 => ~(c > 999) /\ c \notin 100 .. 999 /\ c \notin 10 .. 99
  OBVIOUS
<1>2. c \in 10 .. 99 => ~(c > 999) /\ c \notin 100 .. 999
  OBVIOUS
<1>3. c \in 100 .. 999 => ~(c > 999) /\ c \notin 10 .. 99
  OBVIOUS
<1>4. c = 1000 => c > 999 /\ c \notin 100 .. 999 /\ c \notin 10 .. 99
  OBVIOUS
<1> QED
  BY <1>1, <1>2, <1>3, <1>4 DEF SizeOf
\* What each digit of a number of one to four digits stands for.
LEMMA PlacesOfNumbers ==
  ASSUME NEW c \in Nat
  PROVE  /\ SizeOf(c) = 1 => Place(c, 1) = 1
         /\ SizeOf(c) = 2 => Place(c, 1) = 10 /\ Place(c, 2) = 1
         /\ SizeOf(c) = 3 => Place(c, 1) = 100 /\ Place(c, 2) = 10 /\ Place(c, 3) = 1
         /\ SizeOf(c) = 4 => /\ Place(c, 1) = 1000 /\ Place(c, 2) = 100
                             /\ Place(c, 3) = 10 /\ Place(c, 4) = 1
BY DEF Place

\* The digits that Digits() gives make the number again.
LEMMA DigitsMake ==
  ASSUME NEW c \in 0 .. MAX_CANDIDATE, NEW f, f[0] = 0,
         \A k \in 1 .. SizeOf(c) : f[k] = 10 * f[k - 1] + ((c \div Place(c, k)) % 10)
  PROVE  f[SizeOf(c)] = c
<1>0. c \in 0 .. 1000
  BY DEF MAX_CANDIDATE
<1>1. CASE c \in 0 .. 9
  <2>1. SizeOf(c) = 1 /\ Place(c, 1) = 1
    BY <1>1, SizesOfNumbers, PlacesOfNumbers
  <2>2. f[1] = 10 * f[0] + ((c \div 1) % 10)
    BY <2>1
  <2> QED
    BY <1>1, <2>1, <2>2
<1>2. CASE c \in 10 .. 99
  <2>1. SizeOf(c) = 2 /\ Place(c, 1) = 10 /\ Place(c, 2) = 1
    BY <1>2, SizesOfNumbers, PlacesOfNumbers
  <2>2. f[1] = 10 * f[0] + ((c \div 10) % 10) /\ f[2] = 10 * f[1] + ((c \div 1) % 10)
    BY <2>1
  <2> QED
    BY <1>2, <2>1, <2>2
<1>3. CASE c \in 100 .. 999
  <2>1. SizeOf(c) = 3 /\ Place(c, 1) = 100 /\ Place(c, 2) = 10 /\ Place(c, 3) = 1
    BY <1>3, SizesOfNumbers, PlacesOfNumbers
  <2>2. /\ f[1] = 10 * f[0] + ((c \div 100) % 10) /\ f[2] = 10 * f[1] + ((c \div 10) % 10)
        /\ f[3] = 10 * f[2] + ((c \div 1) % 10)
    BY <2>1
  <2> QED
    BY <1>3, <2>1, <2>2
<1>4. CASE c = 1000
  <2>1. SizeOf(c) = 4 /\ Place(c, 1) = 1000 /\ Place(c, 2) = 100 /\ Place(c, 3) = 10 /\ Place(c, 4) = 1
    BY <1>4, SizesOfNumbers, PlacesOfNumbers
  <2>2. /\ f[1] = 10 * f[0] + ((c \div 1000) % 10) /\ f[2] = 10 * f[1] + ((c \div 100) % 10)
        /\ f[3] = 10 * f[2] + ((c \div 10) % 10) /\ f[4] = 10 * f[3] + ((c \div 1) % 10)
    BY <2>1
  <2> QED
    BY <1>4, <2>1, <2>2
<1> QED
  BY <1>0, <1>1, <1>2, <1>3, <1>4

\* A number whose digits begin with those of c.
LEMMA NumberBegins ==
  ASSUME NEW c \in 0 .. MAX_CANDIDATE, NEW t \in Seq(48 .. 57), SizeOf(c) <= Len(t),
         \A k \in 1 .. SizeOf(c) : t[k] = Digits(c)[k]
  PROVE  Number(t) \in Nat /\ ReadAs(c, Number(t))
<1> DEFINE F == CHOOSE f : f = [k \in 0 .. Len(t) |-> IF k = 0 THEN 0 ELSE 10 * f[k - 1] + (t[k] - 48)]
<1>1. Number(t) = F[Len(t)]
  BY DEF Number
<1>2. \E f : f = [k \in 0 .. Len(t) |-> IF k = 0 THEN 0 ELSE 10 * f[k - 1] + (t[k] - 48)]
  BY NumbersExist DEF NextNumber
<1>3. F = [k \in 0 .. Len(t) |-> IF k = 0 THEN 0 ELSE 10 * F[k - 1] + (t[k] - 48)]
  BY <1>2
<1> HIDE DEF F
<1>4. PICK f : f = F
  OBVIOUS
<1>5. PICK n \in Nat : n = Len(t)
  OBVIOUS
<1>6. f[0] = 0 /\ \A k \in 1 .. n : f[k] = 10 * f[k - 1] + (t[k] - 48) /\ t[k] - 48 \in 0 .. 9
  <2>1. f = [k \in 0 .. n |-> IF k = 0 THEN 0 ELSE 10 * f[k - 1] + (t[k] - 48)]
    BY <1>3, <1>4, <1>5
  <2>2. 0 \in 0 .. n /\ \A k \in 1 .. n : k \in 0 .. n /\ k # 0
    OBVIOUS
  <2>3. \A k \in 1 .. n : t[k] \in 48 .. 57
    BY <1>5
  <2>4. \A d \in 48 .. 57 : d - 48 \in 0 .. 9
    OBVIOUS
  <2> QED
    BY <2>1, <2>2, <2>3, <2>4
<1>12. c \in Nat
  BY DEF MAX_CANDIDATE
<1>7. c \in Nat /\ SizeOf(c) \in 1 .. 4 /\ SizeOf(c) <= n
      /\ \A k \in 1 .. SizeOf(c) : Digits(c)[k] = 48 + ((c \div Place(c, k)) % 10)
  BY <1>5, <1>12, DigitsArePlain
<1>8. \A k \in 1 .. SizeOf(c) : f[k] = 10 * f[k - 1] + ((c \div Place(c, k)) % 10)
  <2> TAKE k \in 1 .. SizeOf(c)
  <2>1. PICK x : x = (c \div Place(c, k)) % 10
    OBVIOUS
  <2>2. k \in 1 .. n /\ t[k] = 48 + x
    BY <1>7, <2>1
  <2>3. x \in Int
    <3>1. Place(c, k) \in Nat \ {0}
      <4>1. SizeOf(c) + 1 - k \in 1 .. 4
        BY <1>7
      <4>2. \A i \in 1 .. 4 : <<1, 10, 100, 1000>>[i] \in Nat \ {0}
        OBVIOUS
      <4> QED
        BY <4>1, <4>2 DEF Place
    <3>2. PICK b \in Nat \ {0} : b = Place(c, k)
      BY <3>1
    <3>3. c \div b \in Nat
      BY <1>7
    <3>4. \A y \in Nat : y % 10 \in Int
      OBVIOUS
    <3> QED
      BY <2>1, <3>2, <3>3, <3>4
  <2>4. (48 + x) - 48 = x
    BY <2>3
  <2> QED
    BY <1>6, <2>1, <2>2, <2>4
<1>9. f[SizeOf(c)] = c
  BY <1>6, <1>8, DigitsMake
<1> DEFINE T == {k \in Nat : SizeOf(c) <= k /\ k <= n /\ ~(f[k] \in Nat /\ ReadAs(c, f[k]))}
<1>10. T = {}
  <2> SUFFICES ASSUME T # {} PROVE FALSE
    OBVIOUS
  <2>1. PICK m : m = Min(T)
    OBVIOUS
  <2>2. T \in SUBSET Nat
    OBVIOUS
  <2>3. m \in T /\ \A y \in T : m <= y
    BY <2>1, <2>2, LeastOne
  <2>4. m \in Nat /\ SizeOf(c) <= m /\ m <= n /\ ~(f[m] \in Nat /\ ReadAs(c, f[m]))
    BY <2>3
  <2>5. m # SizeOf(c)
    <3>1. ReadAs(c, c)
      BY DEF ReadAs
    <3> QED
      BY <1>7, <1>9, <2>4, <3>1
  <2>6. m - 1 \in Nat /\ SizeOf(c) <= m - 1 /\ m - 1 <= n /\ ~(m <= m - 1) /\ m \in 1 .. n
    BY <1>7, <2>4, <2>5
  <2>7. f[m - 1] \in Nat /\ ReadAs(c, f[m - 1])
    BY <2>3, <2>6
  <2>8. f[m] = 10 * f[m - 1] + (t[m] - 48) /\ t[m] - 48 \in 0 .. 9
    BY <1>6, <2>6
  <2> QED
    BY <1>7, <2>4, <2>7, <2>8, OneDigitMore
<1>11. f[n] \in Nat /\ ReadAs(c, f[n])
  BY <1>7, <1>10
<1> QED
  BY <1>1, <1>4, <1>5, <1>11

\* The digits from place k on are digits, and those that are surely there come first.
LEMMA DigitsBegin ==
  ASSUME NEW s \in Seq(Nat), NEW k \in Nat \ {0}, NEW z \in Nat \ {0}, k + z - 1 <= Len(s),
         \A i \in k .. k + z - 1 : s[i] \in 48 .. 57
  PROVE  /\ DigitsAt(s, k) \in Seq(48 .. 57) /\ z <= Len(DigitsAt(s, k))
         /\ \A i \in 1 .. z : DigitsAt(s, k)[i] = s[k + i - 1]
<1> DEFINE I == {i \in k .. Len(s) : s[i] \notin 48 .. 57}
           end == SelectInSubSeq(s, k, Len(s), LAMBDA b : b \notin 48 .. 57)
           e == IF end = 0 THEN Len(s) ELSE end - 1
<1>1. DigitsAt(s, k) = SubSeq(s, k, e)
  BY DEF DigitsAt
<1>2. end = IF I # {} THEN Min(I) ELSE 0
  BY DEF SelectInSubSeq
<1> HIDE DEF end
<1>3. Len(s) \in Nat
  OBVIOUS
<1>4. e \in Nat /\ e <= Len(s) /\ k + z - 1 <= e /\ \A i \in k .. e : s[i] \in 48 .. 57
  <2>1. CASE I = {}
    <3>1. e = Len(s)
      BY <1>2, <2>1
    <3>2. \A i \in k .. Len(s) : s[i] \in 48 .. 57
      BY <2>1
    <3> HIDE DEF e
    <3> QED
      BY <1>3, <3>1, <3>2
  <2>2. CASE I # {}
    <3>1. I \in SUBSET Nat
      BY <1>3
    <3>2. PICK m : m = Min(I)
      OBVIOUS
    <3>3. m \in I /\ \A y \in I : m <= y
      BY <2>2, <3>1, <3>2, LeastOne
    <3>4. m \in k .. Len(s) /\ s[m] \notin 48 .. 57
      BY <3>3
    <3>5. m \notin k .. k + z - 1
      BY <3>4
    <3>8. m \in Nat /\ m # 0 /\ m > k + z - 1
      BY <1>3, <3>4, <3>5
    <3>9. end = m
      BY <1>2, <2>2, <3>2
    <3>6. e = m - 1 /\ m \in Nat /\ m > k + z - 1
      BY <3>8, <3>9
    <3>7. ASSUME NEW i \in k .. e PROVE s[i] \in 48 .. 57
      <4>1. i \in k .. Len(s) /\ ~(m <= i)
        BY <1>3, <3>4, <3>6
      <4> QED
        BY <3>3, <4>1
    <3> HIDE DEF e
    <3> QED
      BY <1>3, <3>4, <3>6, <3>7
  <2> QED
    BY <2>1, <2>2
<1> HIDE DEF e
<1>5. PICK t : t = SubSeq(s, k, e)
  OBVIOUS
<1>6. PICK n \in Nat : n = e - k + 1
  <2>1. e - k + 1 \in Nat
    BY <1>4
  <2> QED
    BY <2>1
<1>7. t \in Seq(Nat) /\ Len(t) = n /\ \A i \in 1 .. n : t[i] = s[k + i - 1]
  BY <1>3, <1>4, <1>5, <1>6
<1>8. ASSUME NEW i \in 1 .. n PROVE t[i] \in 48 .. 57
  <2>1. k + i - 1 \in k .. e
    BY <1>4, <1>6
  <2> QED
    BY <1>4, <1>7, <2>1
<1>9. t \in Seq(48 .. 57)
  <2>1. DOMAIN t = 1 .. n /\ t \in [1 .. n -> Nat]
    BY <1>7
  <2>2. t \in [1 .. n -> 48 .. 57]
    BY <1>8, <2>1
  <2> QED
    BY <2>2, SeqDef
<1>10. z <= n
  BY <1>4, <1>6
<1>11. \A i \in 1 .. z : i \in 1 .. n
  BY <1>10
<1> QED
  BY <1>1, <1>5, <1>7, <1>9, <1>10, <1>11

\* The request of a voter, as VoteEncodingText.c writes it.
Asks(m, c, flag) ==
  /\ m \in Seq(Nat) /\ Len(m) = 5 + SizeOf(c)
  /\ m[1] = 86 /\ m[5] = 32 /\ m[3] = flag
  /\ \A k \in 1 .. SizeOf(c) : m[5 + k] = Digits(c)[k]

\* A request in text is its words and then the digits of the candidate, with no end of their own.
LEMMA TextRequest ==
  ASSUME NEW v, NEW c \in Nat, v.candidate = c, v.isResponse = FALSE
  PROVE  Asks(EncodeText(v), c, IF v.isInquiry THEN 105 ELSE 118)
<1>1. PICK x \in Nat : x = IF v.isInquiry THEN 105 ELSE 118
  OBVIOUS
<1>2. PICK a : a = <<86, 32, x, 32>>
  OBVIOUS
<1>3. PICK b : b = <<32>>
  OBVIOUS
<1>4. PICK d : d = Digits(c)
  OBVIOUS
<1>5. PICK z : z = <<>>
  OBVIOUS
<1>6. a \in Seq(Nat) /\ b \in Seq(Nat) /\ z \in Seq(Nat)
  BY <1>2, <1>3, <1>5
<1>7. d \in Seq(48 .. 57) /\ Len(d) = SizeOf(c) /\ SizeOf(c) \in 1 .. 4
  BY <1>4, DigitsArePlain
<1>8. d \in Seq(Nat)
  BY <1>7
<1>0. PICK m : m = EncodeText(v)
  OBVIOUS
<1>9. m = (((a \o z) \o b) \o d) \o z
  BY <1>0, <1>1, <1>2, <1>3, <1>4, <1>5 DEF EncodeText, BLANK
<1>10. a \o z = a /\ (a \o b) \o d \in Seq(Nat) /\ a \o b \in Seq(Nat)
  BY <1>5, <1>6, <1>8
<1>11. m = (a \o b) \o d
  <2>1. PICK w \in Seq(Nat) : w = (a \o b) \o d
    BY <1>10
  <2>2. w \o z = w
    BY <1>5
  <2> QED
    BY <1>9, <1>10, <2>1, <2>2
<1>12. PICK h : h = a \o b
  OBVIOUS
<1>13. Follows(a, b, h)
  BY <1>6, <1>12, JoinedFollow
<1>14. h \in Seq(Nat) /\ Len(h) = 5 /\ h[1] = 86 /\ h[3] = x /\ h[5] = 32
  <2>1. Len(a) = 4 /\ a[1] = 86 /\ a[3] = x /\ Len(b) = 1 /\ b[1] = 32
    BY <1>2, <1>3
  <2>2. /\ h \in Seq(Nat) /\ Len(h) = 4 + 1
        /\ \A k \in 1 .. 4 : h[k] = a[k]
        /\ \A k \in 1 .. 1 : h[4 + k] = b[k]
    BY <1>13, <2>1 DEF Follows
  <2> QED
    BY <2>1, <2>2
<1>15. m = h \o d
  BY <1>11, <1>12
<1>16. Follows(h, d, m)
  BY <1>8, <1>14, <1>15, JoinedFollow
<1>17. /\ m \in Seq(Nat) /\ Len(m) = 5 + Len(d)
       /\ \A k \in 1 .. 5 : m[k] = h[k]
       /\ \A k \in 1 .. Len(d) : m[5 + k] = d[k]
  BY <1>14, <1>16 DEF Follows
<1>18. m[1] = 86 /\ m[3] = x /\ m[5] = 32
  BY <1>14, <1>17
<1> QED
  BY <1>0, <1>1, <1>4, <1>7, <1>17, <1>18 DEF Asks

\* What the server makes of it, whatever the buffer held before: the digits may go on.
LEMMA TextRequestIsRead ==
  ASSUME NEW inquiry \in BOOLEAN, NEW c \in 0 .. MAX_CANDIDATE,
         NEW m, Asks(m, c, IF inquiry THEN 105 ELSE 118),
         NEW s \in Seq(Nat), Len(m) <= Len(s), \A k \in 1 .. Len(m) : s[k] = m[k], NEW size
  PROVE  \E x \in Nat : /\ ReadAs(c, x)
                        /\ DecodeText(s, size) = [isInquiry |-> inquiry, isResponse |-> FALSE,
                                                  candidate |-> x, count |-> 0]
<1>0. c \in Nat
  BY DEF MAX_CANDIDATE
<1>1. /\ m \in Seq(Nat) /\ Len(m) = 5 + SizeOf(c)
      /\ m[1] = 86 /\ m[5] = 32 /\ m[3] = IF inquiry THEN 105 ELSE 118
      /\ \A k \in 1 .. SizeOf(c) : m[5 + k] = Digits(c)[k]
  BY DEF Asks
<1>3. s \in Seq(Nat) /\ Len(s) \in Nat /\ Len(m) <= Len(s) /\ \A k \in 1 .. Len(m) : s[k] = m[k]
  OBVIOUS
<1>4. PICK z \in Nat \ {0} : z = SizeOf(c)
  BY <1>0, DigitsArePlain
<1>5. /\ s[1] = 86 /\ s[5] = 32 /\ s[3] = IF inquiry THEN 105 ELSE 118
      /\ 5 + z <= Len(s) /\ \A k \in 1 .. z : s[5 + k] = Digits(c)[k]
  <2>1. 1 \in 1 .. 5 + z /\ 3 \in 1 .. 5 + z /\ 5 \in 1 .. 5 + z /\ \A k \in 1 .. z : 5 + k \in 1 .. 5 + z
    OBVIOUS
  <2>2. \A k \in 1 .. 5 + z : s[k] = m[k]
    BY <1>1, <1>3, <1>4
  <2>3. 5 + z <= Len(s)
    BY <1>1, <1>3, <1>4
  <2>4. \A k \in 1 .. z : s[5 + k] = m[5 + k] /\ m[5 + k] = Digits(c)[k]
    BY <1>1, <1>4, <2>1, <2>2
  <2>5. s[1] = m[1] /\ s[3] = m[3] /\ s[5] = m[5]
    BY <2>1, <2>2
  <2> QED
    BY <1>1, <2>3, <2>4, <2>5
<1>6. \A k \in 1 .. z : Digits(c)[k] \in 48 .. 57
  <2>1. Digits(c) \in Seq(48 .. 57) /\ Len(Digits(c)) = z
    BY <1>0, <1>4, DigitsArePlain
  <2> QED
    BY <2>1
<1>7. PICK t : t = DigitsAt(s, 6)
  OBVIOUS
<1>8. t \in Seq(48 .. 57) /\ z <= Len(t) /\ \A i \in 1 .. z : t[i] = s[6 + i - 1]
  <2>1. 6 + z - 1 <= Len(s)
    BY <1>3, <1>5
  <2>2. ASSUME NEW i \in 6 .. 6 + z - 1 PROVE s[i] \in 48 .. 57
    <3>1. PICK k \in 1 .. z : i = 5 + k
      <4>1. i - 5 \in 1 .. z /\ i = 5 + (i - 5)
        OBVIOUS
      <4> QED
        BY <4>1
    <3> QED
      BY <1>5, <1>6, <3>1
  <2>3. 6 \in Nat \ {0}
    OBVIOUS
  <2> QED
    BY <1>3, <1>7, <2>1, <2>2, <2>3, DigitsBegin
<1>9. \A i \in 1 .. z : t[i] = Digits(c)[i]
  <2>1. \A i \in 1 .. z : 6 + i - 1 = 5 + i
    OBVIOUS
  <2> QED
    BY <1>5, <1>8, <2>1
<1>10. Number(t) \in Nat /\ ReadAs(c, Number(t))
  BY <1>4, <1>8, <1>9, NumberBegins
<1>11. DecodeText(s, size) = [isInquiry |-> s[3] = 105, isResponse |-> FALSE, candidate |-> Number(t), count |-> 0]
  <2>1. s[5] # 82 /\ s[1] = 86 /\ s[3] \in {118, 105}
    BY <1>5
  <2> QED
    BY <1>7, <2>1 DEF DecodeText
<1>12. (s[3] = 105) = inquiry
  BY <1>5
<1> QED
  BY <1>10, <1>11, <1>12

\* What v's first byte is.
FirstByte(v) == 84 + (IF v.isInquiry THEN 1 ELSE 0) + (IF v.isResponse THEN 2 ELSE 0)

\* The bytes of v as VoteEncodingBin.c writes them.
InBin(m, v) ==
  /\ m \in Seq(Nat) /\ Len(m) = IF v.isResponse THEN 6 ELSE 4
  /\ m[1] = FirstByte(v) /\ m[2] = 0
  /\ m[3] = v.candidate \div 256 /\ m[4] = v.candidate % 256
  /\ v.isResponse => m[5] = v.count \div 256 /\ m[6] = v.count % 256

\* A message in the binary encoding has the bytes that its fields give.
LEMMA BinBytes ==
  ASSUME NEW v \in VoteInfo
  PROVE  InBin(EncodeBin(v), v)
<1>1. PICK c \in Nat : c = v.candidate
  BY DEF VoteInfo
<1>2. PICK n \in Nat : n = v.count
  BY DEF VoteInfo
<1>3. PICK x \in Nat : x = FirstByte(v)
  BY DEF FirstByte
<1>4. PICK a : a = <<x, 0>>
  OBVIOUS
<1>5. PICK b : b = <<c \div 256, c % 256>>
  OBVIOUS
<1>6. PICK d : d = <<n \div 256, n % 256>>
  OBVIOUS
<1>7. c \div 256 \in Nat /\ c % 256 \in Nat /\ n \div 256 \in Nat /\ n % 256 \in Nat
  OBVIOUS
<1>8. /\ a \in Seq(Nat) /\ Len(a) = 2 /\ a[1] = x /\ a[2] = 0
      /\ b \in Seq(Nat) /\ Len(b) = 2 /\ b[1] = c \div 256 /\ b[2] = c % 256
      /\ d \in Seq(Nat) /\ Len(d) = 2 /\ d[1] = n \div 256 /\ d[2] = n % 256
  BY <1>4, <1>5, <1>6, <1>7
<1>9. EncodeBin(v) = (a \o b) \o (IF v.isResponse THEN d ELSE <<>>)
  BY <1>1, <1>2, <1>3, <1>4, <1>5, <1>6 DEF EncodeBin, FirstByte, TwoBytes
<1>10. PICK h : h = a \o b
  OBVIOUS
<1>11. Follows(a, b, h)
  BY <1>8, <1>10, JoinedFollow
<1>12. /\ h \in Seq(Nat) /\ Len(h) = 4 /\ h[1] = x /\ h[2] = 0
       /\ h[3] = c \div 256 /\ h[4] = c % 256
  <2>1. /\ h \in Seq(Nat) /\ Len(h) = 2 + 2
        /\ \A k \in 1 .. 2 : h[k] = a[k]
        /\ \A k \in 1 .. 2 : h[2 + k] = b[k]
    BY <1>8, <1>11 DEF Follows
  <2> QED
    BY <1>8, <2>1
<1>13. CASE v.isResponse
  <2>1. PICK m : m = h \o d
    OBVIOUS
  <2>2. Follows(h, d, m)
    BY <1>8, <1>12, <2>1, JoinedFollow
  <2>3. /\ m \in Seq(Nat) /\ Len(m) = 4 + 2
        /\ \A k \in 1 .. 4 : m[k] = h[k]
        /\ \A k \in 1 .. 2 : m[4 + k] = d[k]
    BY <1>8, <1>12, <2>2 DEF Follows
  <2>4. /\ m \in Seq(Nat) /\ Len(m) = 6 /\ m[1] = x /\ m[2] = 0
        /\ m[3] = c \div 256 /\ m[4] = c % 256 /\ m[5] = n \div 256 /\ m[6] = n % 256
    BY <1>8, <1>12, <2>3
  <2>5. EncodeBin(v) = m
    BY <1>9, <1>10, <1>13, <2>1
  <2> QED
    BY <1>1, <1>2, <1>3, <1>13, <2>4, <2>5 DEF InBin
<1>14. CASE ~v.isResponse
  <2>1. EncodeBin(v) = h \o <<>>
    BY <1>9, <1>10, <1>14
  <2>2. EncodeBin(v) = h
    BY <1>12, <2>1, ConcatEmptySeq
  <2> QED
    BY <1>1, <1>3, <1>12, <1>14, <2>2 DEF InBin
<1> QED
  BY <1>13, <1>14

\* Decode() gives back what was encoded.
LEMMA BinIsRead ==
  ASSUME NEW v \in VoteInfo, ~v.isResponse => v.count = 0, NEW m, InBin(m, v),
         NEW s \in Seq(Nat), Len(m) <= Len(s), \A k \in 1 .. Len(m) : s[k] = m[k]
  PROVE  DecodeBin(s, Len(m)) = v
<1>1. PICK z : z = Len(m)
  OBVIOUS
<1>2. /\ z = IF v.isResponse THEN 6 ELSE 4
      /\ s[1] = FirstByte(v) /\ s[3] = v.candidate \div 256 /\ s[4] = v.candidate % 256
      /\ v.isResponse => s[5] = v.count \div 256 /\ s[6] = v.count % 256
  <2>1. z = 6 \/ z = 4
    BY <1>1 DEF InBin
  <2>2. \A k \in 1 .. 4 : s[k] = m[k]
    BY <1>1, <2>1
  <2>3. v.isResponse => s[5] = m[5] /\ s[6] = m[6]
    BY <1>1 DEF InBin
  <2> QED
    BY <1>1, <2>2, <2>3 DEF InBin
<1>3. /\ v.isInquiry \in BOOLEAN /\ v.isResponse \in BOOLEAN /\ v.candidate \in Nat /\ v.count \in Nat
      /\ v = [isInquiry |-> v.isInquiry, isResponse |-> v.isResponse, candidate |-> v.candidate, count |-> v.count]
  BY DEF VoteInfo
<1>4. \A n \in Nat : Joined(n \div 256, n % 256) = n
  BY DEF Joined
<1>5. /\ s[1] \in 84 .. 87 /\ (s[1] \in {86, 87}) = v.isResponse /\ (s[1] \in {85, 87}) = v.isInquiry
  <2>1. FirstByte(v) = IF v.isInquiry THEN IF v.isResponse THEN 87 ELSE 85
                       ELSE IF v.isResponse THEN 86 ELSE 84
    BY DEF FirstByte
  <2>3. v.isInquiry = TRUE \/ v.isInquiry = FALSE
    BY <1>3
  <2>4. v.isResponse = TRUE \/ v.isResponse = FALSE
    BY <1>3
  <2>5. CASE v.isInquiry = TRUE /\ v.isResponse = TRUE
    <3>1. s[1] = 87
      BY <1>2, <2>1, <2>5
    <3>2. s[1] \in 84 .. 87 /\ (s[1] \in {86, 87}) = TRUE /\ (s[1] \in {85, 87}) = TRUE
      BY <3>1
    <3> QED
      BY <2>5, <3>2
  <2>6. CASE v.isInquiry = TRUE /\ v.isResponse = FALSE
    <3>1. s[1] = 85
      BY <1>2, <2>1, <2>6
    <3>2. s[1] \in 84 .. 87 /\ (s[1] \in {86, 87}) = FALSE /\ (s[1] \in {85, 87}) = TRUE
      BY <3>1
    <3> QED
      BY <2>6, <3>2
  <2>7. CASE v.isInquiry = FALSE /\ v.isResponse = TRUE
    <3>1. s[1] = 86
      BY <1>2, <2>1, <2>7
    <3>2. s[1] \in 84 .. 87 /\ (s[1] \in {86, 87}) = TRUE /\ (s[1] \in {85, 87}) = FALSE
      BY <3>1
    <3> QED
      BY <2>7, <3>2
  <2>8. CASE v.isInquiry = FALSE /\ v.isResponse = FALSE
    <3>1. s[1] = 84
      BY <1>2, <2>1, <2>8
    <3>2. s[1] \in 84 .. 87 /\ (s[1] \in {86, 87}) = FALSE /\ (s[1] \in {85, 87}) = FALSE
      BY <3>1
    <3> QED
      BY <2>8, <3>2
  <2> QED
    BY <2>3, <2>4, <2>5, <2>6, <2>7, <2>8
<1>6. Joined(s[3], s[4]) = v.candidate
  BY <1>2, <1>3, <1>4
<1>7. (IF v.isResponse /\ z >= 6 THEN Joined(s[5], s[6]) ELSE 0) = v.count
  <2>1. CASE v.isResponse
    <3>1. z >= 6
      BY <1>2, <2>1
    <3>2. Joined(s[5], s[6]) = v.count
      BY <1>2, <1>3, <1>4, <2>1
    <3> QED
      BY <2>1, <3>1, <3>2
  <2> QED
    BY <2>1
<1>8. ~(z < 4)
  BY <1>2
<1>9. DecodeBin(s, z) = [isInquiry |-> v.isInquiry, isResponse |-> v.isResponse,
                         candidate |-> v.candidate, count |-> v.count]
  BY <1>5, <1>6, <1>7, <1>8 DEF DecodeBin
<1> QED
  BY <1>1, <1>3, <1>9

\* A newline in an answer, where the request had none, is in its count.
LEMMA NewlineInCount ==
  ASSUME NEW v \in VoteInfo, NEW u \in VoteInfo, u.candidate = v.candidate, ~u.isResponse, v.isResponse,
         NEW m, NEW r, InBin(m, v), InBin(r, u), Framable("delim", r), ~Framable("delim", m)
  PROVE  v.count >= NEWLINE
<1>1. PICK n \in Nat : n = v.count
  BY DEF VoteInfo
<1>2. /\ m[1] = FirstByte(v) /\ m[2] = 0 /\ m[3] = r[3] /\ m[4] = r[4]
      /\ m[5] = n \div 256 /\ m[6] = n % 256 /\ DOMAIN m = 1 .. 6 /\ DOMAIN r = 1 .. 4
  BY <1>1 DEF InBin
<1>3. \A k \in 1 .. 4 : r[k] # 10
  BY <1>2 DEF Framable, NEWLINE
<1>4. PICK k \in 1 .. 6 : m[k] = 10
  BY <1>2 DEF Framable, NEWLINE
<1>5. FirstByte(v) # 10
  BY DEF FirstByte
<1>6. k \in {1, 2, 3, 4, 5, 6}
  OBVIOUS
<1>7. k \in {5, 6}
  BY <1>2, <1>3, <1>4, <1>5, <1>6
<1>8. n \div 256 = 10 \/ n % 256 = 10
  BY <1>2, <1>4, <1>7
<1> QED
  BY <1>1, <1>8 DEF NEWLINE

-----------------------------------------------------------------------------
(* The votes. *)

\* What the vote server answers p, with the count n, in the binary encoding.
AnswerInfo(p, n) == [isInquiry |-> ballot[p].isInquiry, isResponse |-> TRUE,
                     candidate |-> ballot[p].candidate, count |-> n]
Message(p, n) == EncodeBin(AnswerInfo(p, n))

\* What the server may take p's request for.
RequestInfo(p, x) == [isInquiry |-> ballot[p].isInquiry, isResponse |-> FALSE,
                      candidate |-> x, count |-> 0]

\* The bytes s are under way to p, or will be sent to it.
OnItsWay(p, s) ==
  /\ s # <<>>
  /\ conn[p]["server"].data = s \/ \E w \in Worker : sock[w] = p /\ at[w] = "send" /\ buf[w] = s

\* p has read the message m, or will.
Heard(p, m) ==
  \/ status[p] = "answered" /\ got[p] = m
  \/ \E s : OnItsWay(p, s) /\ m = NextMsg(build.framing, s)

\* A binary message answers its voter, with a count that the votes have reached.
Says(p, m) ==
  build.encoding = "bin" =>
    \E n \in Nat : m = Message(p, n) /\ (counted[p] # -1 => n <= CountOf(counted[p], counts))

\* The answer to p does not fit its framing.
Unframable(p) ==
  /\ build.encoding = "bin" /\ build.framing = "delim"
  /\ CountOf(ballot[p].candidate, counts) >= NEWLINE

VoteTypes(p) == conn[p]["server"].data \in Seq(Nat) /\ got[p] \in Seq(Nat)

\* A request is under way whole or not at all, and not counted before it is read.
AskedOK(p) ==
  /\ conn[p]["client"].data # <<>> =>
       /\ conn[p]["client"].data = Framed(build.framing, Request(p))
       /\ Framable(build.framing, Request(p)) /\ counted[p] = -1
  /\ status[p] \in {"start", "connected"} => counted[p] = -1

TellsOK(p) == \A m : Heard(p, m) => m \in Seq(Nat) /\ m # <<>> /\ Says(p, m)

\* The vote went to the candidate it names, or to one whose number begins with that.
ChoiceOK(p) ==
  counted[p] # -1 =>
    /\ ~ballot[p].isInquiry
    /\ IF build.encoding = "bin" THEN counted[p] = ballot[p].candidate
       ELSE ReadAs(ballot[p].candidate, counted[p])

\* Whom the server leaves without an answer, it could not answer.
GuessOK(p) ==
  /\ "main" \notin stopped
  /\ \/ status[p] = "guessed"
     \/ /\ status[p] \in {"connected", "reading"}
        /\ ~IsOpen(conn[p], "server") \/ Worked(p, {"close"})
  => Unframable(p)

VoterOK(p) == VoteTypes(p) /\ AskedOK(p) /\ TellsOK(p) /\ ChoiceOK(p) /\ GuessOK(p)

\* Voters of one candidate hear different messages.
ApartOK ==
  build.encoding = "bin" =>
    \A p, q \in Client : \A m :
      p # q /\ counted[p] # -1 /\ counted[q] = counted[p] => ~(Heard(p, m) /\ Heard(q, m))

TallyOK ==
  /\ IsABag(counts) /\ DOMAIN counts \subseteq 0 .. MAX_CANDIDATE
  /\ \A c \in 0 .. MAX_CANDIDATE : CountOf(c, counts) = CountOf(c, EarlierVotes) + Cardinality(Voters(c))

\* Nothing but a signal or a failing accept() ends the vote server.
GoesOnOK == "main" \notin stopped => at["main"] # "ended" /\ "main" \in listeners

VotesOK ==
  /\ stack \in Seq(Nat) /\ inBuf \in Seq(Nat) /\ counted \in [Client -> -1 .. MAX_CANDIDATE]
  /\ \A w \in Worker : buf[w] \in Seq(Nat)
  /\ \A p \in Client : VoterOK(p)
  /\ ApartOK /\ TallyOK /\ GoesOnOK

VInv == Kind = "vote" => VotesOK

\* The vote server is one process that serves one client after the other.
LEMMA VoteProgram ==
  ASSUME Kind = "vote"
  PROVE  /\ program = "VoteServerTCP" /\ Architecture = "iterative" /\ Port = {1}
         /\ \A w : Process(w) = w
BY DEF Kind, Architecture, Port, Process

\* Only main() is there in the vote server, and it accepts or serves.
LEMMA OnlyMainActs ==
  ASSUME HInv, Kind = "vote", NEW w \in Worker, at[w] # "none"
  PROVE  w = "main" /\ at[w] \in {"accept", "ended"} \union Serving
<1>1. Architecture = "iterative"
  BY VoteProgram
<1>2. at[w] \in PlacesOf(w)
  BY DEF HInv, CInv, PlacesOK
<1>3. w \notin Client /\ w \notin Pool
  BY <1>1, <1>2 DEF PlacesOf
<1>4. w = "main"
  BY <1>3 DEF Worker
<1> QED
  BY <1>1, <1>2, <1>3, <1>4 DEF PlacesOf

\* What a ballot is.
LEMMA BallotsAre ==
  ASSUME ChosenOK, Kind = "vote", NEW p \in Client
  PROVE  /\ ballot[p].isInquiry \in BOOLEAN /\ ballot[p].candidate \in 0 .. MAX_CANDIDATE
         /\ ballot[p].candidate \in Nat /\ build.framing \in Framings /\ build.encoding \in Encodings
<1>1. ballot[p] \in [candidate : 0 .. MAX_CANDIDATE, isInquiry : BOOLEAN]
  BY ServersAssumption DEF ChosenOK
<1>2. build \in [encoding : Encodings, framing : Framings]
  BY ServersAssumption DEF ChosenOK
<1>3. ballot[p].isInquiry \in BOOLEAN /\ ballot[p].candidate \in 0 .. MAX_CANDIDATE
  BY <1>1
<1>6. \A c \in 0 .. MAX_CANDIDATE : c \in Nat
  BY DEF MAX_CANDIDATE
<1>4. ballot[p].candidate \in Nat
  BY <1>3, <1>6
<1>5. build.framing \in Framings /\ build.encoding \in Encodings
  BY <1>2
<1> QED
  BY <1>3, <1>4, <1>5

\* The server decodes a request as p has meant it; in text, as far as the digits of the
\* candidate are followed by no others in the buffer.
LEMMA RequestIsDecoded ==
  ASSUME ChosenOK, Kind = "vote", NEW p \in Client, NEW buffer \in Seq(Nat), NEW m, m = Request(p)
  PROVE  /\ m \in Seq(Nat) /\ Overwritten(buffer, m) \in Seq(Nat)
         /\ build.encoding = "bin" => InBin(m, RequestInfo(p, ballot[p].candidate))
         /\ \E x \in Nat :
              /\ Decode(build.encoding, Overwritten(buffer, m), Len(m)) = RequestInfo(p, x)
              /\ build.encoding = "bin" => x = ballot[p].candidate
              /\ ReadAs(ballot[p].candidate, x)
<1>1. PICK c \in 0 .. MAX_CANDIDATE : c = ballot[p].candidate /\ c \in Nat
  BY BallotsAre
<1>2. PICK i \in BOOLEAN : i = ballot[p].isInquiry
  BY BallotsAre
<1>3. PICK v : v = [isInquiry |-> i, isResponse |-> FALSE, candidate |-> c, count |-> 0]
  OBVIOUS
<1>4. m = Encode(build.encoding, v) /\ v = RequestInfo(p, c)
  BY <1>1, <1>2, <1>3 DEF Request, RequestInfo
<1>5. v \in VoteInfo /\ ~v.isResponse /\ v.count = 0 /\ v.candidate = c /\ v.isInquiry = i /\ v.isResponse = FALSE
  BY <1>1, <1>3 DEF VoteInfo
<1>6. ReadAs(c, c)
  BY DEF ReadAs
<1>7. CASE build.encoding = "bin"
  <2>1. m = EncodeBin(v)
    BY <1>4, <1>7 DEF Encode
  <2>6. InBin(m, v)
    BY <1>5, <2>1, BinBytes
  <2>2. InBin(m, v) /\ m \in Seq(Nat)
    BY <2>6 DEF InBin
  <2>3. PICK s : s = Overwritten(buffer, m)
    OBVIOUS
  <2>4. s \in Seq(Nat) /\ Len(m) <= Len(s) /\ \A k \in 1 .. Len(m) : s[k] = m[k]
    BY <2>2, <2>3, PutInBuffer
  <2>5. DecodeBin(s, Len(m)) = v
    BY <1>5, <2>2, <2>4, BinIsRead
  <2> QED
    BY <1>1, <1>4, <1>6, <1>7, <2>2, <2>3, <2>4, <2>5 DEF Decode
<1>8. CASE build.encoding # "bin"
  <2>1. m = EncodeText(v)
    BY <1>4, <1>8 DEF Encode
  <2>2. Asks(m, c, IF i THEN 105 ELSE 118)
    <3>1. Asks(EncodeText(v), c, IF v.isInquiry THEN 105 ELSE 118)
      BY <1>1, <1>5, TextRequest
    <3> QED
      BY <1>5, <2>1, <3>1
  <2>3. m \in Seq(Nat)
    BY <2>2 DEF Asks
  <2>4. PICK s : s = Overwritten(buffer, m)
    OBVIOUS
  <2>5. s \in Seq(Nat) /\ Len(m) <= Len(s) /\ \A k \in 1 .. Len(m) : s[k] = m[k]
    BY <2>3, <2>4, PutInBuffer
  <2>6. PICK x \in Nat : /\ ReadAs(c, x)
                         /\ DecodeText(s, Len(m)) = [isInquiry |-> i, isResponse |-> FALSE,
                                                    candidate |-> x, count |-> 0]
    BY <2>2, <2>5, TextRequestIsRead
  <2>7. Decode(build.encoding, s, Len(m)) = RequestInfo(p, x)
    BY <1>2, <1>8, <2>6 DEF Decode, RequestInfo
  <2> QED
    BY <1>1, <1>8, <2>3, <2>4, <2>5, <2>6, <2>7
<1> QED
  BY <1>7, <1>8

-----------------------------------------------------------------------------
(* Counting. *)

\* A count is a number.
LEMMA CountsAreNumbers ==
  ASSUME NEW b, IsABag(b), NEW c
  PROVE  CountOf(c, b) \in Nat
BY DEF IsABag, CountOf, BagIn, BagToSet

\* The bag d is b and one vote more for the candidate x.
OneMore(x, b, d) ==
  /\ IsABag(d) /\ DOMAIN d = (DOMAIN b) \union {x} /\ CountOf(x, d) = CountOf(x, b) + 1
  /\ \A c : c # x => CountOf(c, d) = CountOf(c, b)

\* A bag and one candidate: one vote more for that one, and the others as they were.
LEMMA OneVoteMore ==
  ASSUME NEW b, IsABag(b), NEW x, NEW d, d = b (+) SetToBag({x})
  PROVE  OneMore(x, b, d)
<1> DEFINE one(c) == (IF c \in DOMAIN b THEN b[c] ELSE 0) + (IF c \in {x} THEN 1 ELSE 0)
<1>1. DOMAIN SetToBag({x}) = {x} /\ SetToBag({x})[x] = 1
  BY DEF SetToBag
<1>2. d = [c \in (DOMAIN b) \union {x} |-> one(c)]
  <2>1. \A c \in (DOMAIN b) \union {x} :
          (IF c \in {x} THEN SetToBag({x})[c] ELSE 0) = (IF c \in {x} THEN 1 ELSE 0)
    BY <1>1
  <2>2. d = [c \in (DOMAIN b) \union {x} |->
               (IF c \in DOMAIN b THEN b[c] ELSE 0) + (IF c \in {x} THEN SetToBag({x})[c] ELSE 0)]
    BY <1>1 DEF (+)
  <2> QED
    BY <2>1, <2>2
<1>3. \A c \in DOMAIN b : b[c] \in Nat /\ b[c] > 0
  BY DEF IsABag
<1>4. \A c \in (DOMAIN b) \union {x} : one(c) \in Nat /\ one(c) > 0
  BY <1>3
<1>5. one(x) = CountOf(x, b) + 1 /\ \A c : c # x /\ c \in DOMAIN b => one(c) = b[c]
  BY <1>3 DEF CountOf, BagIn, BagToSet
<1>6. DOMAIN d = (DOMAIN b) \union {x} /\ \A c \in DOMAIN d : d[c] = one(c)
  BY <1>2
<1>7. d \in [DOMAIN d -> {n \in Nat : n > 0}]
  BY <1>2, <1>4
<1> HIDE DEF one
<1>8. CountOf(x, d) = CountOf(x, b) + 1
  BY <1>5, <1>6 DEF CountOf, BagIn, BagToSet
<1>9. \A c : c # x => CountOf(c, d) = CountOf(c, b)
  BY <1>5, <1>6 DEF CountOf, BagIn, BagToSet
<1> QED
  BY <1>6, <1>7, <1>8, <1>9 DEF OneMore, IsABag

\* What the server answers a request, with the count n.
LEMMA AnswerIsEncoded ==
  ASSUME ChosenOK, Kind = "vote", NEW p \in Client, NEW x \in Nat, NEW n \in Nat,
         NEW r, r = Encode(build.encoding, [RequestInfo(p, x) EXCEPT !.isResponse = TRUE, !.count = n]),
         build.encoding = "bin" => x = ballot[p].candidate
  PROVE  /\ r \in Seq(Nat) /\ r # <<>>
         /\ build.encoding = "bin" => r = Message(p, n) /\ InBin(r, AnswerInfo(p, n))
         /\ build.encoding # "bin" => Framable(build.framing, r)
<1>1. PICK v : v = [RequestInfo(p, x) EXCEPT !.isResponse = TRUE, !.count = n]
  OBVIOUS
<1>2. v = [isInquiry |-> ballot[p].isInquiry, isResponse |-> TRUE, candidate |-> x, count |-> n]
  BY <1>1 DEF RequestInfo
<1>3. PICK i \in BOOLEAN : i = ballot[p].isInquiry
  BY BallotsAre
<1>4. v \in VoteInfo /\ v.candidate = x /\ v.count = n /\ v.isResponse = TRUE
  BY <1>2, <1>3 DEF VoteInfo
<1>5. r = Encode(build.encoding, v)
  BY <1>1
<1>6. CASE build.encoding = "bin"
  <2>1. v = AnswerInfo(p, n)
    BY <1>2, <1>6 DEF AnswerInfo
  <2>2. r = EncodeBin(v)
    BY <1>5, <1>6 DEF Encode
  <2>3. InBin(r, v)
    BY <1>4, <2>2, BinBytes
  <2>4. r \in Seq(Nat) /\ Len(r) = 6
    BY <1>4, <2>3 DEF InBin
  <2>5. r # <<>>
    <3>1. PICK k : k = Len(r)
      OBVIOUS
    <3>2. k = 6 /\ 6 # 0
      BY <2>4, <3>1
    <3>3. r = <<>> => k = 0
      BY <3>1, EmptySeq, Zenon
    <3> QED
      BY <3>2, <3>3
  <2> QED
    BY <1>6, <2>1, <2>2, <2>3, <2>4, <2>5 DEF Message
<1>7. CASE build.encoding # "bin"
  <2>1. r = EncodeText(v)
    BY <1>5, <1>7 DEF Encode
  <2>2. Plain(r) /\ r # <<>>
    BY <1>4, <2>1, TextIsPlain
  <2> QED
    BY <1>7, <2>2 DEF Plain, Framable
<1> QED
  BY <1>6, <1>7

\* Two answers to voters of one candidate are the same only with the same count.
LEMMA CountsTellApart ==
  ASSUME ChosenOK, Kind = "vote", NEW p \in Client, NEW q \in Client, NEW a \in Nat, NEW b \in Nat,
         Message(p, a) = Message(q, b)
  PROVE  a = b
<1>1. \A r \in Client, n \in Nat : AnswerInfo(r, n) \in VoteInfo
  BY BallotsAre DEF AnswerInfo, VoteInfo
<1>2. InBin(Message(p, a), AnswerInfo(p, a)) /\ InBin(Message(q, b), AnswerInfo(q, b))
  BY <1>1, BinBytes DEF Message
<1>3. PICK m : m = Message(p, a)
  OBVIOUS
<1>4. m[5] = a \div 256 /\ m[6] = a % 256 /\ m[5] = b \div 256 /\ m[6] = b % 256
  BY <1>2, <1>3 DEF InBin, AnswerInfo
<1>5. a \div 256 = b \div 256 /\ a % 256 = b % 256
  BY <1>4
<1> QED
  BY <1>5

\* What makes nobody hear anything new.
LEMMA NothingNew ==
  ASSUME build' = build, NEW p \in Client, got'[p] = got[p],
         status'[p] = "answered" => status[p] = "answered",
         conn'[p]["server"].data \in {conn[p]["server"].data, <<>>},
         \A w \in Worker : sock'[w] = p /\ at'[w] = "send" => sock[w] = p /\ at[w] = "send" /\ buf'[w] = buf[w]
  PROVE  \A m : Heard(p, m)' => Heard(p, m)
<1>1. \A s : OnItsWay(p, s)' => OnItsWay(p, s)
  BY DEF OnItsWay
<1> QED
  BY <1>1 DEF Heard

\* The steps that count nothing: what they have to do for one client.
QuietFor(p) ==
  /\ VoteTypes(p)' /\ GuessOK(p)'
  /\ conn'[p]["client"].data # <<>> =>
       \/ conn'[p]["client"].data = conn[p]["client"].data
       \/ /\ conn'[p]["client"].data = Framed(build.framing, Request(p))
          /\ Framable(build.framing, Request(p)) /\ counted[p] = -1
  /\ status'[p] \in {"start", "connected"} => status[p] \in {"start", "connected"}
  /\ \A m : Heard(p, m)' => Heard(p, m)

\* Steps that count nothing, and after which nobody hears anything new, keep VotesOK.
LEMMA QuietKeepsVotes ==
  ASSUME VotesOK, UNCHANGED <<chosen, votes>>, GoesOnOK', \A w \in Worker : buf'[w] \in Seq(Nat),
         \A p \in Client : QuietFor(p)
  PROVE  VotesOK'
<1>1. UNCHANGED <<program, build, ballot, stack, counts, inBuf, counted>> /\ Kind' = Kind
  BY SameProgram DEF chosen, votes
<1>2. \A p \in Client : \A m : Says(p, m)' <=> Says(p, m)
  BY <1>1 DEF Says, Message, AnswerInfo
<1>3. ASSUME NEW p \in Client PROVE VoterOK(p)'
  <2>1. VoterOK(p) /\ QuietFor(p)
    BY <1>3 DEF VotesOK
  <2>2. Request(p)' = Request(p)
    BY <1>1 DEF Request
  <2>3. AskedOK(p)'
    BY <1>1, <2>1, <2>2 DEF VoterOK, AskedOK, QuietFor
  <2>4. TellsOK(p)'
    BY <1>2, <2>1 DEF VoterOK, TellsOK, QuietFor
  <2>5. ChoiceOK(p)'
    BY <1>1, <2>1 DEF VoterOK, ChoiceOK
  <2> QED
    BY <2>1, <2>3, <2>4, <2>5 DEF VoterOK, QuietFor
<1>4. ApartOK'
  BY <1>1 DEF VotesOK, ApartOK, QuietFor
<1>5. TallyOK'
  BY <1>1 DEF VotesOK, TallyOK, Voters
<1> QED
  BY <1>1, <1>3, <1>4, <1>5 DEF VotesOK

-----------------------------------------------------------------------------
(* The steps of the vote server that count nothing. *)

\* Connections that the vote server lets go keep what it has sent.
LEMMA LetGoOfVoter ==
  ASSUME HInv, SInv, Kind = "vote", NEW F, NEW L, Descriptors(conn, F, L), NEW p \in Client
  PROVE  /\ conn'[p]["server"].data = conn[p]["server"].data
         /\ conn'[p]["client"].data \in {conn[p]["client"].data, <<>>}
         /\ IsOpen(conn'[p], "server") => conn'[p] = conn[p]
         /\ L # {} /\ (\A P \in Worker : p \in fds[P] => p \in F[P]) => conn'[p] = conn[p]
<1>1. PInv(p) /\ Shaped(conn[p])
  BY DEF SInv, StreamsOK, PInv, ClientOK
<1>2. /\ (\E P \in Worker : p \in fds[P]) /\ (\A P \in Worker : p \notin F[P]) =>
           conn'[p] \in Closings(conn[p], "server")
      /\ L = {} /\ Queued(p) /\ (\A P \in Worker : p \notin fds[P]) => conn'[p] = Aborted(conn[p], "server")
      /\ (\A P \in Worker : p \notin fds[P]) \/ (\E P \in Worker : p \in F[P]) =>
           conn'[p] = conn[p] \/ (L = {} /\ Queued(p))
  BY DescriptorsOf
<1>3. Queued(p) => \A P \in Worker : p \notin fds[P]
  BY DEF HInv, CInv, FreshOK
<1>4. PICK c : c = conn[p]
  OBVIOUS
<1>5. PICK d : d = conn'[p]
  OBVIOUS
<1>6. d = c \/ d \in Closings(c, "server") \/ d = Aborted(c, "server")
  BY <1>2, <1>3, <1>4, <1>5
<1>7. Shaped(c) /\ (c["client"].data # <<>> => c["server"].data = <<>>)
  BY <1>1, <1>4 DEF PInv, OnceOK, Unsent
<1>8. CASE d # c
  <2>1. Shut(c, d, "server") /\ (d \in Closings(c, "server") /\ c["client"].data = <<>> => d["server"].data = c["server"].data)
    BY <1>6, <1>7, <1>8, EndsAre, ClosingShape, AbortedShape
  <2>2. d["client"].data = <<>> /\ d["server"].end # "open"
    BY <2>1, EndsAre DEF Shut
  <2>3. d["server"].data = c["server"].data
    <3>1. CASE d \in Closings(c, "server")
      <4>1. CASE c["client"].data = <<>>
        BY <2>1, <3>1, <4>1
      <4>2. CASE c["client"].data # <<>>
        BY <1>7, <2>1, <4>2, ShutEmpty
      <4> QED
        BY <4>1, <4>2
    <3>2. CASE d = Aborted(c, "server")
      <4>1. PICK x : x = SetData(c, "client", <<>>)
        OBVIOUS
      <4>2. d = SetEnd(x, "server", "rst") /\ Shaped(x) /\ x["server"] = c["server"]
        BY <1>7, <3>2, <4>1, EndsAre, SetDataShape DEF Aborted
      <4> QED
        BY <4>2, EndsAre, SetEndShape
    <3> QED
      BY <1>6, <1>8, <3>1, <3>2
  <2>4. ~(L # {} /\ (\A P \in Worker : p \in fds[P] => p \in F[P]))
    BY <1>2, <1>3, <1>4, <1>5, <1>8
  <2> QED
    BY <1>4, <1>5, <2>2, <2>3, <2>4 DEF IsOpen
<1> QED
  BY <1>4, <1>5, <1>8

\* A signal or a failing accept() ends the server.
LEMMA StopKeepsVotes ==
  ASSUME HInv, SInv, Kind = "vote", VotesOK, NEW w \in Worker, Stops(w)
  PROVE  VotesOK'
<1>1. w = "main" /\ UNCHANGED <<chosen, votes, sock, buf, status, got>> /\ "main" \in stopped'
  BY OnlyMainActs DEF Stops, Interrupt, CallFails, clients
<1>2. UNCHANGED build
  BY <1>1 DEF chosen
<1>3. /\ Descriptors(conn, [fds EXCEPT !["main"] = {}], listeners \ {"main"})
      /\ at' = [v \in Worker |-> IF Process(v) = "main" /\ at[v] # "none" THEN "ended" ELSE at[v]]
  BY <1>1, VoteProgram DEF Stops, Interrupt, CallFails, Exit
<1>4. \A v \in Worker : at'[v] # "send"
  BY <1>3, OnlyMainActs, VoteProgram DEF Serving
<1>5. ASSUME NEW p \in Client PROVE QuietFor(p)
  <2>1. /\ conn'[p]["server"].data = conn[p]["server"].data
        /\ conn'[p]["client"].data \in {conn[p]["client"].data, <<>>}
    BY <1>3, LetGoOfVoter
  <2>2. VoteTypes(p)'
    BY <1>1, <2>1 DEF VotesOK, VoterOK, VoteTypes
  <2>3. \A m : Heard(p, m)' => Heard(p, m)
    BY <1>1, <1>2, <1>4, <2>1, NothingNew
  <2> QED
    BY <1>1, <2>1, <2>2, <2>3 DEF QuietFor, GuessOK
<1>6. GoesOnOK' /\ \A v \in Worker : buf'[v] \in Seq(Nat)
  BY <1>1 DEF GoesOnOK, VotesOK
<1> QED
  BY <1>1, <1>5, <1>6, QuietKeepsVotes

\* The server accepts a connection.
LEMMA AcceptKeepsVotes ==
  ASSUME HInv, SInv, Kind = "vote", VotesOK, NEW w \in Worker, Accept(w)
  PROVE  VotesOK'
<1>1. /\ w = "main" /\ UNCHANGED <<chosen, votes, conn, buf, status, got, listeners, stopped>>
      /\ at' = [at EXCEPT !["main"] = "receive"] /\ at["main"] = "accept"
  BY OnlyMainActs, VoteProgram DEF Accept, clients, env
<1>2. UNCHANGED build
  BY <1>1 DEF chosen
<1>3. \A v \in Worker : at'[v] \notin {"send", "close"} /\ (v = "main" => at'[v] = "receive")
  BY <1>1, OnlyMainActs DEF Serving, HInv, CInv, ControlTypes
<1>4. "main" \in Worker
  BY DEF Worker
<1>5. ASSUME NEW p \in Client PROVE QuietFor(p)
  <2>1. VoteTypes(p)'
    BY <1>1 DEF VotesOK, VoterOK, VoteTypes
  <2>2. \A m : Heard(p, m)' => Heard(p, m)
    BY <1>1, <1>2, <1>3, NothingNew
  <2>3. GuessOK(p)'
    <3>1. ~Worked(p, {"close"})'
      BY <1>3 DEF Worked
    <3>2. Unframable(p)' <=> Unframable(p)
      BY <1>1 DEF Unframable, chosen, votes
    <3> QED
      BY <1>1, <3>1, <3>2 DEF VotesOK, VoterOK, GuessOK
  <2> QED
    BY <1>1, <2>1, <2>2, <2>3 DEF QuietFor
<1>6. GoesOnOK' /\ \A v \in Worker : buf'[v] \in Seq(Nat)
  BY <1>1, <1>3, <1>4 DEF GoesOnOK, VotesOK
<1> QED
  BY <1>1, <1>5, <1>6, QuietKeepsVotes

\* The server closes a connection.
LEMMA FinishKeepsVotes ==
  ASSUME HInv, SInv, Kind = "vote", VotesOK, NEW w \in Worker, Finish(w)
  PROVE  VotesOK'
<1>1. /\ w = "main" /\ UNCHANGED <<chosen, votes, status, got, sock, stopped>> /\ at["main"] = "close"
      /\ Descriptors(conn, [fds EXCEPT !["main"] = @ \ {sock["main"]}], listeners)
      /\ at' = [at EXCEPT !["main"] = "accept"] /\ buf' = [buf EXCEPT !["main"] = <<>>]
  BY OnlyMainActs, VoteProgram DEF Finish, clients, env
<1>2. UNCHANGED build
  BY <1>1 DEF chosen
<1>3. \A v \in Worker : at'[v] \notin {"send", "close"} /\ (v = "main" => at'[v] = "accept")
  BY <1>1, OnlyMainActs DEF Serving, HInv, CInv, ControlTypes
<1>4. "main" \in Worker /\ fds \in [Worker -> SUBSET Client] /\ listeners' = listeners
  BY <1>1 DEF Worker, HInv, CInv, ControlTypes, Descriptors
<1>5. ASSUME NEW p \in Client PROVE QuietFor(p)
  <2> DEFINE F == [fds EXCEPT !["main"] = @ \ {sock["main"]}]
  <2>1. p # sock["main"] => \A P \in Worker : p \in fds[P] => p \in F[P]
    BY <1>4
  <2> HIDE DEF F
  <2>2. Descriptors(conn, F, listeners)
    BY <1>1 DEF F
  <2>3. /\ conn'[p]["server"].data = conn[p]["server"].data
        /\ conn'[p]["client"].data \in {conn[p]["client"].data, <<>>}
        /\ listeners # {} /\ p # sock["main"] => conn'[p] = conn[p]
    BY <2>1, <2>2, LetGoOfVoter
  <2>4. VoteTypes(p)'
    BY <1>1, <2>3 DEF VotesOK, VoterOK, VoteTypes
  <2>5. \A m : Heard(p, m)' => Heard(p, m)
    BY <1>1, <1>2, <1>3, <2>3, NothingNew
  <2>6. GuessOK(p)'
    <3>1. ~Worked(p, {"close"})'
      BY <1>3 DEF Worked
    <3>2. Unframable(p)' <=> Unframable(p)
      BY <1>1 DEF Unframable, chosen, votes
    <3>3. p = sock["main"] => Worked(p, {"close"})
      BY <1>1, <1>4 DEF Worked
    <3>4. "main" \notin stopped => listeners # {}
      BY DEF VotesOK, GoesOnOK
    <3> QED
      BY <1>1, <2>3, <3>1, <3>2, <3>3, <3>4 DEF VotesOK, VoterOK, GuessOK
  <2> QED
    BY <1>1, <2>3, <2>4, <2>5, <2>6 DEF QuietFor
<1>6. GoesOnOK'
  BY <1>1, <1>3, <1>4 DEF GoesOnOK, VotesOK
<1>7. \A v \in Worker : buf'[v] \in Seq(Nat)
  BY <1>1, EmptySeq DEF VotesOK, SInv, StreamsOK, StreamTypes
<1> QED
  BY <1>1, <1>5, <1>6, <1>7, QuietKeepsVotes

\* What is so of the client that the vote server serves.
LEMMA VoterServed ==
  ASSUME HInv, SInv, Kind = "vote", VotesOK, NEW w \in Worker, at[w] \in Serving
  PROVE  /\ w = "main" /\ sock["main"] \in Client /\ Serves("main", sock["main"]) /\ "main" \in Worker
         /\ VoterOK(sock["main"]) /\ PInv(sock["main"]) /\ Shaped(conn[sock["main"]])
         /\ IsOpen(conn[sock["main"]], "server")
         /\ DOMAIN conn = Client /\ DOMAIN buf = Worker /\ DOMAIN at = Worker
         /\ \A v \in Worker : at[v] \in Serving => v = "main"
<1>1. w = "main" /\ \A v \in Worker : at[v] \in Serving => v = "main"
  BY OnlyMainActs DEF Serving
<1>2. sock["main"] \in Client /\ Serves("main", sock["main"]) /\ "main" \in Worker
  BY <1>1, Served
<1>3. VoterOK(sock["main"])
  BY <1>2 DEF VotesOK
<1>4. PInv(sock["main"]) /\ Shaped(conn[sock["main"]]) /\ IsOpen(conn[sock["main"]], "server")
  BY <1>2, ServedFacts
<1>5. DOMAIN conn = Client /\ DOMAIN buf = Worker /\ DOMAIN at = Worker
  BY DEF HInv, CInv, ControlTypes, SInv, StreamsOK, StreamTypes
<1> QED
  BY <1>1, <1>2, <1>3, <1>4, <1>5

\* The server reads that a client has gone.
LEMMA GoneKeepsVotes ==
  ASSUME HInv, SInv, Kind = "vote", VotesOK, NEW p \in Client, p = sock["main"], at["main"] = "receive",
         UNCHANGED <<chosen, votes, backlog, fds, listeners, sock, buf, status, got, stopped>>,
         ~IsOpen(conn[p], "client"), at' = [at EXCEPT !["main"] = "close"],
         conn' = conn \/ conn' = [conn EXCEPT ![p] = ErrorReturned(@, "server")]
  PROVE  VotesOK'
<1>1. /\ "main" \in Worker /\ DOMAIN conn = Client /\ DOMAIN buf = Worker /\ DOMAIN at = Worker
      /\ \A v \in Worker : at[v] \in Serving => v = "main"
      /\ PInv(p) /\ Shaped(conn[p])
  BY VoterServed DEF Serving, Worker
<1>2. /\ conn'[p]["server"] = conn[p]["server"] /\ conn'[p]["client"].data = conn[p]["client"].data
      /\ \A q \in Client : q # p => conn'[q] = conn[q]
  <2>1. CASE conn' = conn
    BY <2>1
  <2>2. CASE conn' = [conn EXCEPT ![p] = ErrorReturned(@, "server")]
    <3>1. conn'[p] = SetEnd(conn[p], "client", "broken") /\ \A q \in Client : q # p => conn'[q] = conn[q]
      BY <1>1, <2>2, EndsAre DEF ErrorReturned
    <3> QED
      BY <1>1, <3>1, EndsAre, SetEndShape
  <2> QED
    BY <2>1, <2>2
<1>3. status[p] \notin {"connected", "reading"}
  BY <1>1 DEF PInv, ClientOK
<1>4. at'["main"] = "close" /\ \A v \in Worker : v # "main" => at'[v] = at[v]
  BY <1>1
<1>5. \A v \in Worker : at'[v] # "send" /\ (at'[v] = "close" => v = "main")
  BY <1>1, <1>4 DEF Serving
<1>6. UNCHANGED build
  BY DEF chosen
<1>7. ASSUME NEW q \in Client PROVE QuietFor(q)
  <2>1. /\ conn'[q]["server"] = conn[q]["server"] /\ conn'[q]["client"].data = conn[q]["client"].data
    BY <1>2
  <2>2. VoteTypes(q)'
    BY <2>1 DEF VotesOK, VoterOK, VoteTypes
  <2>3. \A m : Heard(q, m)' => Heard(q, m)
    BY <1>5, <1>6, <2>1, NothingNew
  <2>4. GuessOK(q)'
    <3>1. Worked(q, {"close"})' => q = p
      BY <1>5 DEF Worked
    <3>2. Unframable(q)' <=> Unframable(q)
      BY DEF Unframable, chosen, votes
    <3> QED
      BY <1>3, <2>1, <3>1, <3>2 DEF VotesOK, VoterOK, GuessOK, IsOpen
  <2> QED
    BY <2>1, <2>2, <2>3, <2>4 DEF QuietFor
<1>8. GoesOnOK' /\ \A v \in Worker : buf'[v] \in Seq(Nat)
  BY <1>4 DEF GoesOnOK, VotesOK
<1> QED
  BY <1>7, <1>8, QuietKeepsVotes

\* The server answers.
LEMMA SendKeepsVotes ==
  ASSUME HInv, SInv, Kind = "vote", VotesOK, NEW w \in Worker, Send(w)
  PROVE  VotesOK'
<1>1. PICK p \in Client : p = sock["main"]
  BY VoterServed DEF Send, Serving
<1>2. /\ w = "main" /\ Serves("main", p) /\ "main" \in Worker /\ PInv(p) /\ Shaped(conn[p])
      /\ IsOpen(conn[p], "server") /\ DOMAIN conn = Client /\ DOMAIN buf = Worker /\ DOMAIN at = Worker
      /\ \A v \in Worker : at[v] \in Serving => v = "main"
  BY <1>1, VoterServed DEF Send, Serving
<1>3. /\ at["main"] = "send" /\ UNCHANGED <<chosen, votes, sock, status, got, stopped>>
      /\ \/ RaisesSigPipe(conn[p], "server")
         \/ \E d \in Sends(conn[p], "server", buf["main"]) :
              /\ conn' = [conn EXCEPT ![p] = d]
              /\ at' = [at EXCEPT !["main"] = "receive"]
              /\ buf' = [buf EXCEPT !["main"] = <<>>]
              /\ UNCHANGED <<backlog, fds, listeners>>
  <2>1. Reply("main") = buf["main"]
    BY DEF Reply
  <2> QED
    BY <1>1, <1>2, <2>1 DEF Send, clients, env
<1>4. conn[p]["server"].data = <<>> /\ conn[p]["client"].end \in {"open", "fin"}
  <2>1. Worked(p, ToSend)
    BY <1>1, <1>2, <1>3 DEF Worked, ToSend
  <2> QED
    BY <1>2, <2>1 DEF PInv, OnceOK, Unsent
<1>5. ~RaisesSigPipe(conn[p], "server")
  BY <1>4, EndsAre DEF RaisesSigPipe
<1>6. PICK d \in Sends(conn[p], "server", buf["main"]) :
        /\ conn' = [conn EXCEPT ![p] = d]
        /\ at' = [at EXCEPT !["main"] = "receive"]
        /\ buf' = [buf EXCEPT !["main"] = <<>>]
        /\ UNCHANGED <<backlog, fds, listeners>>
  BY <1>3, <1>5
<1>7. PICK b \in Seq(Nat) : b = buf["main"]
  BY <1>2 DEF VotesOK
<1>8. /\ d["client"].data = conn[p]["client"].data /\ d["server"].data \in {b, <<>>}
      /\ d["server"].end = conn[p]["server"].end
  <2>1. CASE IsOpen(conn[p], "client")
    <3>1. d = SetData(conn[p], "server", <<>> \o b)
      BY <1>4, <1>7, <2>1, EndsAre DEF Sends
    <3>2. <<>> \o b = b
      BY <1>7, ConcatEmptySeq
    <3>3. d = SetData(conn[p], "server", b)
      BY <3>1, <3>2
    <3>4. d["client"] = conn[p]["client"] /\ d["server"].data = b /\ d["server"].end = conn[p]["server"].end
      BY <1>2, <3>3, EndsAre, SetDataShape
    <3> QED
      BY <3>4
  <2>2. CASE ~IsOpen(conn[p], "client")
    <3>1. d = SetEnd(conn[p], "client", "finrst")
      BY <1>4, <2>2, EndsAre DEF Sends, Sent, IsOpen
    <3>2. d["client"].data = conn[p]["client"].data /\ d["server"] = conn[p]["server"]
      BY <1>2, <3>1, EndsAre, SetEndShape
    <3> QED
      BY <1>4, <3>2
  <2> QED
    BY <2>1, <2>2
<1>9. conn'[p] = d /\ \A q \in Client : q # p => conn'[q] = conn[q]
  BY <1>2, <1>6
<1>10. \A v \in Worker : at'[v] \notin {"send", "close"} /\ (v = "main" => at'[v] = "receive")
  BY <1>2, <1>6 DEF Serving
<1>11. UNCHANGED build
  BY <1>3 DEF chosen
<1>12. ASSUME NEW q \in Client PROVE QuietFor(q)
  <2>1. /\ conn'[q]["client"].data = conn[q]["client"].data
        /\ conn'[q]["server"].end = conn[q]["server"].end
        /\ q # p => conn'[q] = conn[q]
    BY <1>8, <1>9
  <2>2. VoteTypes(q)'
    BY <1>3, <1>7, <1>8, <1>9, EmptySeq DEF VotesOK, VoterOK, VoteTypes
  <2>3. \A m : Heard(q, m)' => Heard(q, m)
    <3>1. CASE q # p
      BY <1>3, <1>10, <1>11, <2>1, <3>1, NothingNew
    <3>2. CASE q = p
      <4>1. \A s : OnItsWay(p, s)' => OnItsWay(p, s)
        <5> SUFFICES ASSUME NEW s, OnItsWay(p, s)' PROVE OnItsWay(p, s)
          OBVIOUS
        <5>1. s # <<>> /\ d["server"].data = s
          BY <1>9, <1>10 DEF OnItsWay
        <5>2. s = buf["main"]
          BY <1>7, <1>8, <5>1
        <5> QED
          BY <1>1, <1>2, <1>3, <5>1, <5>2 DEF OnItsWay
      <4> QED
        BY <1>3, <1>11, <3>2, <4>1 DEF Heard
    <3> QED
      BY <3>1, <3>2
  <2>4. GuessOK(q)'
    <3>1. ~Worked(q, {"close"})'
      BY <1>10 DEF Worked
    <3>2. Unframable(q)' <=> Unframable(q)
      BY <1>3 DEF Unframable, chosen, votes
    <3> QED
      BY <1>3, <2>1, <3>1, <3>2 DEF VotesOK, VoterOK, GuessOK, IsOpen
  <2> QED
    BY <1>3, <2>1, <2>2, <2>3, <2>4 DEF QuietFor
<1>13. GoesOnOK'
  BY <1>2, <1>3, <1>6, <1>10 DEF GoesOnOK, VotesOK
<1>14. \A v \in Worker : buf'[v] \in Seq(Nat)
  BY <1>2, <1>6, EmptySeq DEF VotesOK
<1> QED
  BY <1>3, <1>12, <1>13, <1>14, QuietKeepsVotes

-----------------------------------------------------------------------------
(* The steps of the voters. *)

\* A voter closes its end c of the connection.
LEMMA VoterLeaves ==
  ASSUME SInv, Kind = "vote", NEW p \in Client, NEW c, Shaped(c), c["client"] = conn[p]["client"],
         c["server"].data \in {<<>>, conn[p]["server"].data}, NEW d \in Closings(c, "client")
  PROVE  /\ d["server"].data = <<>> /\ d["server"].end = c["server"].end
         /\ d["client"].data \in {conn[p]["client"].data, <<>>}
<1>1. PInv(p)
  BY DEF SInv, StreamsOK
<1>2. /\ Shut(c, d, "client")
      /\ c["server"].data = <<>> => d["client"].data = c["client"].data
  BY EndsAre, ClosingShape
<1>3. d["server"].data = <<>> /\ d["server"].end = c["server"].end
  BY <1>2, EndsAre DEF Shut
<1>4. CASE c["server"].data = <<>>
  BY <1>2, <1>3, <1>4
<1>5. CASE c["server"].data # <<>>
  <2>1. c["client"].data = <<>>
    BY <1>1, <1>5 DEF PInv, OnceOK, Unsent
  <2>2. d["client"].data = <<>>
    BY <1>2, <2>1, ShutEmpty
  <2> QED
    BY <1>3, <2>2
<1> QED
  BY <1>4, <1>5

\* What a voter does is nothing to the others.
LEMMA OtherVoters ==
  ASSUME VotesOK, UNCHANGED <<chosen, votes, workers, listeners, stopped>>,
         NEW p \in Client, QuietFor(p),
         \A r \in Client : r # p => conn'[r] = conn[r] /\ status'[r] = status[r] /\ got'[r] = got[r]
  PROVE  VotesOK'
<1>1. UNCHANGED <<at, sock, buf, build>>
  BY DEF workers, chosen
<1>2. ASSUME NEW r \in Client, r # p PROVE QuietFor(r)
  <2>1. conn'[r] = conn[r] /\ status'[r] = status[r] /\ got'[r] = got[r]
    BY <1>2
  <2>2. VoteTypes(r)'
    BY <2>1 DEF VotesOK, VoterOK, VoteTypes
  <2>3. \A m : Heard(r, m)' => Heard(r, m)
    BY <1>1, <2>1, NothingNew
  <2>4. GuessOK(r)'
    <3>1. Worked(r, {"close"})' <=> Worked(r, {"close"})
      BY <1>1 DEF Worked
    <3>2. Unframable(r)' <=> Unframable(r)
      BY DEF Unframable, chosen, votes
    <3> QED
      BY <2>1, <3>1, <3>2 DEF VotesOK, VoterOK, GuessOK
  <2> QED
    BY <2>1, <2>2, <2>3, <2>4 DEF QuietFor
<1>3. GoesOnOK' /\ \A v \in Worker : buf'[v] \in Seq(Nat)
  BY <1>1 DEF GoesOnOK, VotesOK
<1> QED
  BY <1>2, <1>3, QuietKeepsVotes

\* A voter that connects.
LEMMA ConnectKeepsVotes ==
  ASSUME HInv, SInv, Kind = "vote", VotesOK, NEW p \in Client, Connect(p)
  PROVE  VotesOK'
<1>1. /\ UNCHANGED <<chosen, votes, workers, listeners, stopped, got>> /\ status[p] = "start"
      /\ \/ status' = [status EXCEPT ![p] = "refused"] /\ conn' = conn
         \/ status' = [status EXCEPT ![p] = "connected"] /\ conn' = [conn EXCEPT ![p] = Established]
  BY DEF Connect, env
<1>2. DOMAIN conn = Client /\ DOMAIN status = Client
  BY DEF HInv, CInv, ControlTypes, SInv, StreamsOK, StreamTypes
<1>3. \A r \in Client : r # p => conn'[r] = conn[r] /\ status'[r] = status[r] /\ got'[r] = got[r]
  BY <1>1, <1>2
<1>4. UNCHANGED <<at, sock, buf, build>>
  BY <1>1 DEF workers, chosen
<1>5. \/ status'[p] = "refused" /\ conn'[p] = conn[p]
      \/ status'[p] = "connected" /\ conn'[p] = Established
  BY <1>1, <1>2
<1>6. /\ Established["server"].data = <<>> /\ Established["client"].data = <<>>
      /\ IsOpen(Established, "server")
  BY EndsAre DEF Established, IsOpen
<1>7. conn'[p]["server"].data \in {conn[p]["server"].data, <<>>} /\ conn'[p]["client"].data \in {conn[p]["client"].data, <<>>}
  BY <1>5, <1>6
<1>8. VoteTypes(p)'
  BY <1>1, <1>7, EmptySeq DEF VotesOK, VoterOK, VoteTypes
<1>9. \A m : Heard(p, m)' => Heard(p, m)
  BY <1>1, <1>4, <1>5, <1>7, NothingNew
<1>10. GuessOK(p)'
  <2>1. ~Worked(p, {"close"})
    BY <1>1 DEF Worked, HInv, PastOK
  <2>2. ~Worked(p, {"close"})'
    BY <1>4, <2>1 DEF Worked
  <2> QED
    BY <1>5, <1>6, <2>2 DEF GuessOK
<1>11. QuietFor(p)
  BY <1>1, <1>7, <1>8, <1>9, <1>10 DEF QuietFor
<1> QED
  BY <1>1, <1>3, <1>11, OtherVoters

\* A voter that ends for another reason than an answer.
LEMMA EndKeepsVotes ==
  ASSUME SInv, Kind = "vote", VotesOK, UNCHANGED <<chosen, votes, workers, listeners, stopped>>,
         NEW p \in Client, NEW how \in {"died", "killed", "guessed"}, NEW c, Shaped(c),
         c["client"] = conn[p]["client"], c["server"].data \in {<<>>, conn[p]["server"].data},
         conn'[p] \in Closings(c, "client"), status'[p] = how, got'[p] = got[p],
         how = "guessed" => status[p] = "reading" /\ ~IsOpen(conn[p], "server")
  PROVE  QuietFor(p)
<1>1. conn'[p]["server"].data = <<>> /\ conn'[p]["client"].data \in {conn[p]["client"].data, <<>>}
  BY VoterLeaves
<1>2. VoteTypes(p)'
  BY <1>1, EmptySeq DEF VotesOK, VoterOK, VoteTypes
<1>3. \A m : Heard(p, m)' => Heard(p, m)
  BY <1>1, NothingNew DEF workers, chosen
<1>4. GuessOK(p)'
  <2>1. Unframable(p)' <=> Unframable(p)
    BY DEF Unframable, chosen, votes
  <2> QED
    BY <2>1 DEF VotesOK, VoterOK, GuessOK
<1> QED
  BY <1>1, <1>2, <1>3, <1>4 DEF QuietFor

\* A voter that is killed.
LEMMA KilledKeepsVotes ==
  ASSUME HInv, SInv, Kind = "vote", VotesOK, NEW p \in Client, Killed(p)
  PROVE  VotesOK'
<1>1. /\ UNCHANGED <<chosen, votes, workers, listeners, stopped, got>>
      /\ End(p, "killed", conn[p])
  BY DEF Killed, env
<1>2. status'[p] = "killed" /\ conn'[p] \in Closings(conn[p], "client")
  BY <1>1, Ending
<1>3. Shaped(conn[p])
  BY DEF SInv, StreamsOK, PInv, ClientOK
<1>4. QuietFor(p)
  BY <1>1, <1>2, <1>3, EndKeepsVotes
<1>5. \A r \in Client : r # p => conn'[r] = conn[r] /\ status'[r] = status[r] /\ got'[r] = got[r]
  BY OneClient
<1> QED
  BY <1>1, <1>4, <1>5, OtherVoters

\* A voter sends its request.
LEMMA SendWordKeepsVotes ==
  ASSUME HInv, SInv, Kind = "vote", VotesOK, NEW p \in Client, SendWord(p)
  PROVE  VotesOK'
<1>1. /\ UNCHANGED <<chosen, votes, workers, listeners, stopped, got>> /\ status[p] = "connected"
      /\ \/ End(p, "died", conn[p])
         \/ /\ Framable(build.framing, Request(p))
            /\ \E d \in Sends(conn[p], "client", Framed(build.framing, Request(p))) :
                 status' = [status EXCEPT ![p] = "reading"] /\ conn' = [conn EXCEPT ![p] = d]
  BY DEF SendWord, env
<1>2. DOMAIN conn = Client /\ DOMAIN status = Client /\ PInv(p) /\ Shaped(conn[p])
  BY DEF HInv, CInv, ControlTypes, SInv, StreamsOK, StreamTypes, PInv, ClientOK
<1>3. \A r \in Client : r # p => conn'[r] = conn[r] /\ status'[r] = status[r] /\ got'[r] = got[r]
  BY OneClient
<1>4. CASE End(p, "died", conn[p])
  <2>1. status'[p] = "died" /\ conn'[p] \in Closings(conn[p], "client")
    BY <1>4, Ending
  <2>2. QuietFor(p)
    BY <1>1, <1>2, <2>1, EndKeepsVotes
  <2> QED
    BY <1>1, <1>3, <2>2, OtherVoters
<1>5. CASE /\ Framable(build.framing, Request(p))
           /\ \E d \in Sends(conn[p], "client", Framed(build.framing, Request(p))) :
                status' = [status EXCEPT ![p] = "reading"] /\ conn' = [conn EXCEPT ![p] = d]
  <2>1. PICK s \in Seq(Byte) : s = Framed(build.framing, Request(p))
    BY RequestsAreBytes DEF SInv
  <2>2. PICK d \in Sends(conn[p], "client", s) :
          status' = [status EXCEPT ![p] = "reading"] /\ conn' = [conn EXCEPT ![p] = d]
    BY <1>5, <2>1
  <2>3. status'[p] = "reading" /\ conn'[p] = d
    BY <1>2, <2>2
  <2>4. conn[p]["client"].data = <<>>
    BY <1>1, <1>2 DEF PInv, ClientOK
  <2>5. /\ d["server"].data = conn[p]["server"].data /\ d["client"].data \in {s, <<>>}
        /\ IsOpen(d, "server") <=> IsOpen(conn[p], "server")
    <3>1. CASE IsOpen(conn[p], "server")
      <4>1. d = SetData(conn[p], "client", <<>> \o s)
        BY <2>2, <2>4, <3>1, EndsAre DEF Sends
      <4>2. <<>> \o s = s
        BY <2>1, ConcatEmptySeq
      <4>3. d = SetData(conn[p], "client", s)
        BY <4>1, <4>2
      <4>4. d["server"] = conn[p]["server"] /\ d["client"].data = s
        BY <1>2, <4>3, EndsAre, SetDataShape
      <4> QED
        BY <4>4 DEF IsOpen
    <3>2. CASE ~IsOpen(conn[p], "server")
      <4>1. d = conn[p] \/ \E y \in {"finrst", "broken"} : d = SetEnd(conn[p], "server", y)
        BY <2>2, <3>2, EndsAre DEF Sends, Sent, ErrorReturned
      <4>2. CASE d = conn[p]
        BY <2>4, <4>2
      <4>3. ASSUME NEW y \in {"finrst", "broken"}, d = SetEnd(conn[p], "server", y)
            PROVE  /\ d["server"].data = conn[p]["server"].data /\ d["client"].data \in {s, <<>>}
                   /\ IsOpen(d, "server") <=> IsOpen(conn[p], "server")
        <5>1. /\ d["client"] = conn[p]["client"] /\ d["server"].data = conn[p]["server"].data
              /\ d["server"].end = y
          BY <1>2, <4>3, EndsAre, SetEndShape
        <5> QED
          BY <2>4, <3>2, <5>1 DEF IsOpen
      <4> QED
        BY <4>1, <4>2, <4>3
    <3> QED
      BY <3>1, <3>2
  <2>6. VoteTypes(p)'
    BY <1>1, <2>3, <2>5 DEF VotesOK, VoterOK, VoteTypes
  <2>7. \A m : Heard(p, m)' => Heard(p, m)
    BY <1>1, <2>3, <2>5, NothingNew DEF workers, chosen
  <2>8. GuessOK(p)'
    <3>1. Unframable(p)' <=> Unframable(p)
      BY <1>1 DEF Unframable, chosen, votes
    <3>2. Worked(p, {"close"})' <=> Worked(p, {"close"})
      BY <1>1 DEF Worked, workers
    <3> QED
      BY <1>1, <2>3, <2>5, <3>1, <3>2 DEF VotesOK, VoterOK, GuessOK
  <2>9. counted[p] = -1
    BY <1>1 DEF VotesOK, VoterOK, AskedOK
  <2>10. QuietFor(p)
    BY <1>5, <2>1, <2>3, <2>5, <2>6, <2>7, <2>8, <2>9 DEF QuietFor
  <2> QED
    BY <1>1, <1>3, <2>10, OtherVoters
<1> QED
  BY <1>1, <1>4, <1>5

\* A voter reads the response, or that none will come.
LEMMA ReadKeepsVotes ==
  ASSUME HInv, SInv, Kind = "vote", VotesOK, NEW p \in Client, Read(p)
  PROVE  VotesOK'
<1>1. PICK c, s : c = conn[p] /\ s = conn[p]["server"].data
  OBVIOUS
<1>2. /\ UNCHANGED <<chosen, votes, workers, listeners, stopped>> /\ status[p] = "reading"
      /\ \/ /\ HasData(c, "client")
            /\ got' = [got EXCEPT ![p] = NextMsg(build.framing, s)]
            /\ End(p, "answered", SetData(c, "server", SubSeq(s, Len(s) + 1, Len(s))))
         \/ AtEof(c, "client") /\ End(p, "guessed", c) /\ UNCHANGED got
         \/ AtReset(c, "client") /\ End(p, "guessed", ErrorReturned(c, "client")) /\ UNCHANGED got
  BY <1>1 DEF Read, Sizes, HasAll, AtEndOfFile, env
<1>3. DOMAIN got = Client /\ PInv(p) /\ Shaped(c) /\ VoterOK(p)
  BY <1>1 DEF SInv, StreamsOK, StreamTypes, PInv, ClientOK, VotesOK
<1>4. \A r \in Client : r # p => conn'[r] = conn[r] /\ status'[r] = status[r] /\ got'[r] = got[r]
  BY OneClient
<1>5. s \in Seq(Nat)
  BY <1>1, <1>3 DEF VoterOK, VoteTypes
<1>6. CASE HasData(c, "client")
  <2>1. PICK e : e = SetData(c, "server", <<>>)
    OBVIOUS
  <2>2. SubSeq(s, Len(s) + 1, Len(s)) = <<>>
    BY <1>5
  <2>3. /\ s # <<>> /\ got' = [got EXCEPT ![p] = NextMsg(build.framing, s)] /\ End(p, "answered", e)
    BY <1>1, <1>2, <1>6, <2>1, <2>2, EndsAre DEF HasData, AtEof, AtReset
  <2>4. status'[p] = "answered" /\ conn'[p] \in Closings(e, "client")
    BY <2>3, Ending
  <2>5. Shaped(e) /\ e["client"] = conn[p]["client"] /\ e["server"].data = <<>>
    BY <1>1, <1>3, <2>1, EndsAre, SetDataShape
  <2>6. conn'[p]["server"].data = <<>> /\ conn'[p]["client"].data \in {conn[p]["client"].data, <<>>}
    BY <2>4, <2>5, VoterLeaves
  <2>7. PICK m : m = NextMsg(build.framing, s)
    OBVIOUS
  <2>8. got'[p] = m
    BY <1>3, <2>3, <2>7
  <2>9. Heard(p, m)
    BY <1>1, <2>3, <2>7 DEF Heard, OnItsWay
  <2>10. m \in Seq(Nat)
    BY <1>3, <2>9 DEF VoterOK, TellsOK
  <2>11. VoteTypes(p)'
    BY <2>6, <2>8, <2>10, EmptySeq DEF VoteTypes
  <2>12. \A x : Heard(p, x)' => Heard(p, x)
    <3>1. \A z : OnItsWay(p, z)' => OnItsWay(p, z)
      BY <1>2, <2>6 DEF OnItsWay, workers
    <3>2. build' = build
      BY <1>2 DEF chosen
    <3>3. TAKE x
    <3>4. HAVE Heard(p, x)'
    <3>5. CASE got'[p] = x
      BY <2>8, <2>9, <3>5
    <3>6. CASE got'[p] # x
      <4>1. PICK z : OnItsWay(p, z)' /\ x = NextMsg(build.framing, z)
        BY <3>2, <3>4, <3>6 DEF Heard
      <4> QED
        BY <3>1, <4>1 DEF Heard
    <3> QED
      BY <3>5, <3>6
  <2>13. QuietFor(p)
    BY <2>4, <2>6, <2>11, <2>12 DEF QuietFor, GuessOK
  <2> QED
    BY <1>2, <1>4, <2>13, OtherVoters
<1>7. CASE ~HasData(c, "client")
  <2>1. PICK e \in {c, ErrorReturned(c, "client")} :
          /\ End(p, "guessed", e) /\ UNCHANGED got /\ ~IsOpen(c, "server")
    BY <1>2, <1>7, EndsAre DEF AtEof, AtReset, IsOpen
  <2>2. Shaped(e) /\ e["client"] = conn[p]["client"] /\ e["server"].data = conn[p]["server"].data
    BY <1>1, <1>3, <2>1, EndsAre, SetEndShape DEF ErrorReturned
  <2>3. status'[p] = "guessed" /\ conn'[p] \in Closings(e, "client")
    BY <2>1, Ending
  <2>4. QuietFor(p)
    BY <1>1, <1>2, <2>1, <2>2, <2>3, EndKeepsVotes
  <2> QED
    BY <1>2, <1>4, <2>4, OtherVoters
<1> QED
  BY <1>6, <1>7

-----------------------------------------------------------------------------
(* The step that counts. *)

\* The server takes p's request for one of candidate x, and the response is r, with the
\* count n.
Counting(p, x, n, r) ==
  /\ ReadAs(ballot[p].candidate, x) /\ (build.encoding = "bin" => x = ballot[p].candidate /\ r = Message(p, n))
  /\ r \in Seq(Nat) /\ r # <<>> /\ inBuf' \in Seq(Nat)
  /\ IF x <= MAX_CANDIDATE /\ ~ballot[p].isInquiry
       THEN counts' = counts (+) SetToBag({x}) /\ counted' = [counted EXCEPT ![p] = x]
       ELSE UNCHANGED <<counts, counted>>
  /\ x <= MAX_CANDIDATE => n = CountOf(x, counts')
  /\ IF Framable(build.framing, r)
       THEN buf' = [buf EXCEPT !["main"] = Framed(build.framing, r)] /\ at' = [at EXCEPT !["main"] = "send"]
       ELSE /\ at' = [at EXCEPT !["main"] = "close"] /\ UNCHANGED buf
            /\ build.encoding = "bin" /\ build.framing = "delim" /\ n >= NEWLINE

\* A request that the server has read is decoded and counted as its voter meant it, and
\* answered with the count, or not at all.
LEMMA VoteTaken ==
  ASSUME ChosenOK, Kind = "vote", TallyOK, inBuf \in Seq(Nat), NEW p \in Client, p = sock["main"],
         NEW s, s = Framed(build.framing, Request(p)), Framable(build.framing, Request(p)),
         TakeVote("main", s)
  PROVE  \E x \in Nat, n \in Nat : \E r : Counting(p, x, n, r)
<1>1. PICK m : m = Request(p)
  OBVIOUS
<1>2. PICK x \in Nat :
        /\ m \in Seq(Nat) /\ Overwritten(inBuf, m) \in Seq(Nat)
        /\ build.encoding = "bin" => InBin(m, RequestInfo(p, ballot[p].candidate))
        /\ Decode(build.encoding, Overwritten(inBuf, m), Len(m)) = RequestInfo(p, x)
        /\ build.encoding = "bin" => x = ballot[p].candidate
        /\ ReadAs(ballot[p].candidate, x)
  BY <1>1, RequestIsDecoded
<1>3. NextMsg(build.framing, s) = m
  BY <1>1, <1>2, NextIsFramed
<1>4. PICK v : v = RequestInfo(p, x)
  OBVIOUS
<1>5. PICK i \in BOOLEAN : i = ballot[p].isInquiry
  BY BallotsAre
<1>6. /\ v = [isInquiry |-> i, isResponse |-> FALSE, candidate |-> x, count |-> 0]
      /\ v # NotAVote /\ (Valid(v) <=> x <= MAX_CANDIDATE)
  <2>1. v = [isInquiry |-> i, isResponse |-> FALSE, candidate |-> x, count |-> 0]
    BY <1>4, <1>5 DEF RequestInfo
  <2>2. v.isResponse = FALSE /\ NotAVote.isResponse = TRUE /\ v.candidate = x
    BY <2>1 DEF NotAVote
  <2> QED
    BY <2>1, <2>2 DEF Valid
<1>7. PICK r : r = Response(v)
  OBVIOUS
<1>8. /\ inBuf' = Overwritten(inBuf, m) /\ counts' = Tallied(v)
      /\ counted' = IF Valid(v) /\ ~v.isInquiry THEN [counted EXCEPT ![p] = v.candidate] ELSE counted
      /\ IF Framable(build.framing, r)
           THEN buf' = [buf EXCEPT !["main"] = Framed(build.framing, r)] /\ at' = [at EXCEPT !["main"] = "send"]
           ELSE at' = [at EXCEPT !["main"] = "close"] /\ UNCHANGED buf
  <2> DEFINE taken(a, u, t) ==
        /\ inBuf' = Overwritten(inBuf, a)
        /\ counts' = Tallied(u)
        /\ counted' = IF Valid(u) /\ ~u.isInquiry
                        THEN [counted EXCEPT ![sock["main"]] = u.candidate] ELSE counted
        /\ IF u # NotAVote /\ Framable(build.framing, t)
             THEN /\ buf' = [buf EXCEPT !["main"] = Framed(build.framing, t)]
                  /\ at' = [at EXCEPT !["main"] = "send"]
             ELSE at' = [at EXCEPT !["main"] = "close"] /\ UNCHANGED buf
  <2>1. \E a \in {NextMsg(build.framing, s)} :
        \E u \in {Decode(build.encoding, Overwritten(inBuf, a), Len(a))} :
        \E t \in {Response(u)} : taken(a, u, t)
    BY DEF TakeVote
  <2> HIDE DEF taken
  <2>2. \E u \in {Decode(build.encoding, Overwritten(inBuf, m), Len(m))} :
        \E t \in {Response(u)} : taken(m, u, t)
    BY <1>3, <2>1
  <2>3. taken(m, v, r)
    BY <1>2, <1>4, <1>7, <2>2
  <2> QED
    BY <1>6, <2>3 DEF taken
<1>9. IF x <= MAX_CANDIDATE /\ ~i
        THEN counts' = counts (+) SetToBag({x}) /\ counted' = [counted EXCEPT ![p] = x]
        ELSE UNCHANGED <<counts, counted>>
  BY <1>6, <1>8 DEF Tallied
<1>10. IsABag(counts')
  <2>1. CASE x <= MAX_CANDIDATE /\ ~i
    <3>1. IsABag(counts) /\ counts' = counts (+) SetToBag({x})
      BY <1>9, <2>1 DEF TallyOK
    <3>2. OneMore(x, counts, counts')
      BY <3>1, OneVoteMore
    <3> QED
      BY <3>2 DEF OneMore
  <2>2. CASE ~(x <= MAX_CANDIDATE /\ ~i)
    BY <1>9, <2>2 DEF TallyOK
  <2> QED
    BY <2>1, <2>2
<1>11. PICK n \in Nat : n = IF x <= MAX_CANDIDATE THEN CountOf(x, counts') ELSE 0
  BY <1>10, CountsAreNumbers
<1>12. r = Encode(build.encoding, [RequestInfo(p, x) EXCEPT !.isResponse = TRUE, !.count = n])
  <2>1. v.count = 0 /\ v.candidate = x
    BY <1>6
  <2>2. n = IF Valid(v) THEN CountOf(v.candidate, Tallied(v)) ELSE v.count
    BY <1>6, <1>8, <1>11, <2>1
  <2> QED
    BY <1>4, <1>7, <2>2 DEF Response
<1>13. /\ r \in Seq(Nat) /\ r # <<>>
       /\ build.encoding = "bin" => r = Message(p, n) /\ InBin(r, AnswerInfo(p, n))
       /\ build.encoding # "bin" => Framable(build.framing, r)
  BY <1>2, <1>12, AnswerIsEncoded
<1>14. ~Framable(build.framing, r) => build.encoding = "bin" /\ build.framing = "delim" /\ n >= NEWLINE
  <2> SUFFICES ASSUME ~Framable(build.framing, r)
               PROVE  build.encoding = "bin" /\ build.framing = "delim" /\ n >= NEWLINE
    OBVIOUS
  <2>1. build.encoding = "bin" /\ build.framing = "delim"
    BY <1>13, BallotsAre DEF Framable, Framings
  <2>2. PICK c \in Nat : c = ballot[p].candidate
    BY BallotsAre
  <2>3. PICK u, a : u = RequestInfo(p, c) /\ a = AnswerInfo(p, n)
    OBVIOUS
  <2>4. /\ u = [isInquiry |-> i, isResponse |-> FALSE, candidate |-> c, count |-> 0]
        /\ a = [isInquiry |-> i, isResponse |-> TRUE, candidate |-> c, count |-> n]
    BY <1>5, <2>2, <2>3 DEF RequestInfo, AnswerInfo
  <2>5. /\ u \in VoteInfo /\ a \in VoteInfo /\ u.candidate = a.candidate /\ ~u.isResponse /\ a.isResponse
        /\ a.count = n
    BY <2>4 DEF VoteInfo
  <2>6. InBin(m, u) /\ InBin(r, a)
    BY <1>2, <1>13, <2>1, <2>2, <2>3
  <2>7. Framable("delim", m) /\ ~Framable("delim", r)
    BY <1>1, <2>1
  <2> QED
    BY <2>1, <2>5, <2>6, <2>7, NewlineInCount
<1> QED
  BY <1>2, <1>5, <1>8, <1>9, <1>11, <1>13, <1>14 DEF Counting

\* The counts after it.
LEMMA VoteIsTallied ==
  ASSUME ChosenOK, Kind = "vote", TallyOK, counted \in [Client -> -1 .. MAX_CANDIDATE],
         NEW p \in Client, counted[p] = -1, NEW x \in Nat, NEW n \in Nat, NEW r, Counting(p, x, n, r)
  PROVE  /\ TallyOK'
         /\ counted' \in [Client -> -1 .. MAX_CANDIDATE]
         /\ \A q \in Client : q # p => counted'[q] = counted[q]
         /\ counted'[p] # -1 => /\ counted'[p] = x /\ x \in 0 .. MAX_CANDIDATE /\ ~ballot[p].isInquiry
                                /\ CountOf(x, counts') = CountOf(x, counts) + 1
         /\ \A c : CountOf(c, counts) \in Nat /\ CountOf(c, counts') \in Nat /\ CountOf(c, counts) <= CountOf(c, counts')
<1>1. \A c : CountOf(c, counts) \in Nat
  BY CountsAreNumbers DEF TallyOK
<1>2. CASE x <= MAX_CANDIDATE /\ ~ballot[p].isInquiry
  <2>1. counts' = counts (+) SetToBag({x}) /\ counted' = [counted EXCEPT ![p] = x] /\ x \in 0 .. MAX_CANDIDATE
    <3>1. counts' = counts (+) SetToBag({x}) /\ counted' = [counted EXCEPT ![p] = x]
      BY <1>2 DEF Counting
    <3>2. x \in 0 .. MAX_CANDIDATE
      BY <1>2 DEF MAX_CANDIDATE
    <3> QED
      BY <3>1, <3>2
  <2>2. /\ IsABag(counts') /\ DOMAIN counts' = (DOMAIN counts) \union {x}
        /\ CountOf(x, counts') = CountOf(x, counts) + 1
        /\ \A c : c # x => CountOf(c, counts') = CountOf(c, counts)
    <3>1. IsABag(counts)
      BY DEF TallyOK
    <3>2. OneMore(x, counts, counts')
      BY <2>1, <3>1, OneVoteMore
    <3> QED
      BY <3>2 DEF OneMore
  <2>3. /\ counted'[p] = x /\ \A q \in Client : q # p => counted'[q] = counted[q]
        /\ counted' \in [Client -> -1 .. MAX_CANDIDATE]
    BY <2>1 DEF MAX_CANDIDATE
  <2>4. -1 # x /\ -1 \notin 0 .. MAX_CANDIDATE
    BY <2>1 DEF MAX_CANDIDATE
  <2>5. IsFiniteSet(Voters(x)) /\ Voters(x) \subseteq Client
    BY FiniteClients, FS_Subset DEF Voters
  <2>6. Voters(x)' = Voters(x) \union {p} /\ p \notin Voters(x)
    BY <2>3, <2>4 DEF Voters
  <2>7. \A c \in 0 .. MAX_CANDIDATE : c # x => Voters(c)' = Voters(c)
    BY <2>3, <2>4 DEF Voters
  <2>8. Cardinality(Voters(x)') = Cardinality(Voters(x)) + 1
    BY <2>5, <2>6, FS_AddElement
  <2>9. ASSUME NEW c \in 0 .. MAX_CANDIDATE
        PROVE  CountOf(c, counts') = CountOf(c, EarlierVotes) + Cardinality(Voters(c)')
    <3>1. CountOf(c, counts) = CountOf(c, EarlierVotes) + Cardinality(Voters(c))
      BY DEF TallyOK
    <3>2. CASE c = x
      <4>1. Cardinality(Voters(x)) \in Nat
        BY <2>5, FS_CardinalityType
      <4>2. CountOf(x, EarlierVotes) \in Nat
        BY CountsAreNumbers, ServersAssumption
      <4> QED
        BY <2>2, <2>8, <3>1, <3>2, <4>1, <4>2
    <3>3. CASE c # x
      BY <2>2, <2>7, <3>1, <3>3
    <3> QED
      BY <3>2, <3>3
  <2>10. TallyOK'
    BY <2>1, <2>2, <2>9 DEF TallyOK
  <2>11. \A c : CountOf(c, counts') \in Nat
    BY <2>2, CountsAreNumbers
  <2>12. \A c : CountOf(c, counts) <= CountOf(c, counts')
    BY <1>1, <2>2
  <2> QED
    BY <1>1, <1>2, <2>1, <2>2, <2>3, <2>10, <2>11, <2>12
<1>3. CASE ~(x <= MAX_CANDIDATE /\ ~ballot[p].isInquiry)
  <2>1. counts' = counts /\ counted' = counted
    BY <1>3 DEF Counting
  <2>2. TallyOK'
    BY <2>1 DEF TallyOK, Voters
  <2> QED
    BY <1>1, <2>1, <2>2
<1> QED
  BY <1>2, <1>3

\* Before its request is read nobody has told p anything.
LEMMA NobodyTold ==
  ASSUME SInv, Kind = "vote", NEW p \in Client, TellsOK(p), conn[p]["client"].data # <<>>,
         \A w \in Worker : sock[w] = p => at[w] # "send"
  PROVE  /\ conn[p]["server"].data = <<>> /\ status[p] \notin {"answered", "connected"}
         /\ \A m : ~Heard(p, m)
<1>1. PInv(p)
  BY DEF SInv, StreamsOK
<1>2. conn[p]["server"].data = <<>> /\ got[p] = <<>> /\ status[p] # "connected"
  BY <1>1 DEF PInv, OnceOK, Unsent, ClientOK
<1>3. \A s : ~OnItsWay(p, s)
  BY <1>2 DEF OnItsWay
<1>4. status[p] # "answered"
  BY <1>2 DEF TellsOK, Heard
<1> QED
  BY <1>2, <1>3, <1>4 DEF Heard

\* The votes of the others stay as they are, and p's is counted.
LEMMA CountingKeepsVotes ==
  ASSUME HInv, SInv, Kind = "vote", VotesOK, NEW p \in Client, p = sock["main"], at["main"] = "receive",
         HasData(conn[p], "server"), NEW x \in Nat, NEW n \in Nat, NEW r, Counting(p, x, n, r),
         UNCHANGED <<chosen, backlog, fds, listeners, sock, status, got, stopped>>,
         conn' = [conn EXCEPT ![p] = SetData(@, "client", <<>>)]
  PROVE  VotesOK'
<1>1. /\ "main" \in Worker /\ DOMAIN conn = Client /\ DOMAIN buf = Worker /\ DOMAIN at = Worker
      /\ \A v \in Worker : at[v] \in Serving => v = "main"
      /\ PInv(p) /\ Shaped(conn[p]) /\ VoterOK(p)
  BY VoterServed DEF Serving, Worker
<1>2. /\ conn'[p]["server"] = conn[p]["server"] /\ conn'[p]["client"].data = <<>>
      /\ \A q \in Client : q # p => conn'[q] = conn[q]
  <2>1. conn'[p] = SetData(conn[p], "client", <<>>) /\ \A q \in Client : q # p => conn'[q] = conn[q]
    BY <1>1
  <2> QED
    BY <1>1, <2>1, EndsAre, SetDataShape
<1>3. conn[p]["client"].data # <<>>
  BY EndsAre DEF HasData
<1>4. counted[p] = -1 /\ status[p] # "start"
  BY <1>1, <1>3, VoterServed DEF VoterOK, AskedOK, PInv, ClientOK, Idle, Ends
<1>5. /\ conn[p]["server"].data = <<>> /\ status[p] \notin {"answered", "connected"}
      /\ \A m : ~Heard(p, m)
  <2>1. \A w \in Worker : sock[w] = p => at[w] # "send"
    BY <1>1 DEF Serving
  <2>2. TellsOK(p)
    BY <1>1 DEF VoterOK
  <2> QED
    BY <1>3, <2>1, <2>2, NobodyTold
<1>6. counted \in [Client -> -1 .. MAX_CANDIDATE] /\ ChosenOK /\ TallyOK
  BY DEF VotesOK, SInv
<1>7. /\ TallyOK' /\ counted' \in [Client -> -1 .. MAX_CANDIDATE]
      /\ \A q \in Client : q # p => counted'[q] = counted[q]
      /\ counted'[p] # -1 => /\ counted'[p] = x /\ x \in 0 .. MAX_CANDIDATE /\ ~ballot[p].isInquiry
                             /\ CountOf(x, counts') = CountOf(x, counts) + 1
      /\ \A c : CountOf(c, counts) \in Nat /\ CountOf(c, counts') \in Nat /\ CountOf(c, counts) <= CountOf(c, counts')
  BY <1>4, <1>6, VoteIsTallied
<1>8. \/ /\ Framable(build.framing, r) /\ buf'["main"] = Framed(build.framing, r) /\ at'["main"] = "send"
      \/ /\ buf'["main"] = buf["main"] /\ at'["main"] = "close"
         /\ build.encoding = "bin" /\ build.framing = "delim" /\ n >= NEWLINE
  BY <1>1 DEF Counting
<1>9. \A v \in Worker : v # "main" => at'[v] = at[v] /\ buf'[v] = buf[v] /\ at'[v] \notin Serving
  BY <1>1 DEF Counting
<1>10. UNCHANGED <<program, build, ballot, stack>> /\ Kind' = Kind
  BY SameProgram DEF chosen
<1>11. \A q \in Client, k \in Nat : Message(q, k)' = Message(q, k)
  BY <1>10 DEF Message, AnswerInfo
\* Unframable answers stay so.
<1>12. \A q \in Client : Unframable(q) => Unframable(q)'
  BY <1>7, <1>10 DEF Unframable, NEWLINE
\* The others.
<1>13. ASSUME NEW q \in Client, q # p
       PROVE  VoterOK(q)' /\ \A m : Heard(q, m)' => Heard(q, m)
  <2>1. VoterOK(q) /\ conn'[q] = conn[q] /\ counted'[q] = counted[q] /\ status'[q] = status[q] /\ got'[q] = got[q]
    BY <1>2, <1>7, <1>13 DEF VotesOK
  <2>2. \A m : Heard(q, m)' => Heard(q, m)
    <3>1. \A w \in Worker : sock'[w] = q /\ at'[w] = "send" => sock[w] = q /\ at[w] = "send" /\ buf'[w] = buf[w]
      BY <1>9, <1>13 DEF Serving
    <3> QED
      BY <1>10, <2>1, <3>1, NothingNew
  <2>3. VoteTypes(q)'
    BY <2>1 DEF VoterOK, VoteTypes
  <2>4. AskedOK(q)'
    BY <1>10, <2>1 DEF VoterOK, AskedOK, Request
  <2>5. TellsOK(q)'
    <3>1. ASSUME NEW m, Says(q, m) PROVE Says(q, m)'
      <4>1. SUFFICES ASSUME build.encoding = "bin"
                     PROVE  \E k \in Nat : m = Message(q, k)' /\ (counted'[q] # -1 => k <= CountOf(counted'[q], counts'))
        BY <1>10 DEF Says
      <4>2. PICK k \in Nat : m = Message(q, k) /\ (counted[q] # -1 => k <= CountOf(counted[q], counts))
        BY <3>1, <4>1 DEF Says
      <4>3. m = Message(q, k)'
        BY <1>11, <4>2
      <4>4. counted'[q] # -1 => k <= CountOf(counted'[q], counts')
        <5>1. PICK a, b : a = CountOf(counted[q], counts) /\ b = CountOf(counted[q], counts')
          OBVIOUS
        <5>2. a \in Nat /\ b \in Nat /\ a <= b
          BY <1>7, <5>1
        <5> QED
          BY <2>1, <4>2, <5>1, <5>2
      <4> QED
        BY <4>3, <4>4
    <3> QED
      BY <2>1, <2>2, <3>1 DEF VoterOK, TellsOK
  <2>6. ChoiceOK(q)'
    BY <1>10, <2>1 DEF VoterOK, ChoiceOK
  <2>7. GuessOK(q)'
    <3>1. ~Worked(q, {"close"})'
      BY <1>9, <1>13 DEF Worked, Serving
    <3> QED
      BY <1>12, <2>1, <3>1 DEF VoterOK, GuessOK
  <2> QED
    BY <2>2, <2>3, <2>4, <2>5, <2>6, <2>7 DEF VoterOK
\* What p is told.
<1>14. build.encoding = "bin" => x = ballot[p].candidate /\ r = Message(p, n)
  BY DEF Counting
<1>15. ASSUME NEW m, Heard(p, m)' PROVE m = r
  <2>1. status'[p] # "answered" /\ conn'[p]["server"].data = <<>>
    BY <1>2, <1>5
  <2>2. PICK s : OnItsWay(p, s)' /\ m = NextMsg(build.framing, s)
    BY <1>10, <1>15, <2>1 DEF Heard
  <2>3. at'["main"] = "send" /\ s = buf'["main"]
    BY <1>9, <2>1, <2>2 DEF OnItsWay, Serving
  <2>4. Framable(build.framing, r) /\ s = Framed(build.framing, r)
    BY <1>8, <2>3
  <2>5. r \in Seq(Nat)
    BY DEF Counting
  <2> QED
    BY <2>2, <2>4, <2>5, NextIsFramed
<1>16. counted'[p] # -1 => n = CountOf(counted'[p], counts')
  BY <1>7 DEF Counting, MAX_CANDIDATE
<1>17. VoterOK(p)'
  <2>1. VoteTypes(p)'
    BY <1>1, <1>2 DEF VoterOK, VoteTypes
  <2>2. AskedOK(p)'
    BY <1>2, <1>4, <1>5 DEF AskedOK
  <2>3. TellsOK(p)'
    <3> SUFFICES ASSUME NEW m, Heard(p, m)' PROVE m \in Seq(Nat) /\ m # <<>> /\ Says(p, m)'
      BY DEF TellsOK
    <3>1. m = r /\ r \in Seq(Nat) /\ r # <<>>
      BY <1>15 DEF Counting
    <3>2. Says(p, m)'
      <4>1. SUFFICES ASSUME build.encoding = "bin"
                     PROVE  \E k \in Nat : m = Message(p, k)' /\ (counted'[p] # -1 => k <= CountOf(counted'[p], counts'))
        BY <1>10 DEF Says
      <4>2. m = Message(p, n)'
        BY <1>11, <1>14, <3>1, <4>1 DEF Counting
      <4>3. n <= n
        OBVIOUS
      <4> QED
        BY <1>16, <4>2, <4>3
    <3> QED
      BY <3>1, <3>2
  <2>4. ChoiceOK(p)'
    <3>1. ReadAs(ballot[p].candidate, x) /\ (build.encoding = "bin" => x = ballot[p].candidate)
      BY DEF Counting
    <3> QED
      BY <1>7, <1>10, <3>1 DEF ChoiceOK
  <2>5. GuessOK(p)'
    <3>1. IsOpen(conn'[p], "server") <=> IsOpen(conn[p], "server")
      BY <1>2 DEF IsOpen
    <3>2. at'["main"] = "close" => Unframable(p)'
      <4>1. SUFFICES ASSUME at'["main"] = "close" PROVE CountOf(ballot[p].candidate, counts') >= NEWLINE /\ build.encoding = "bin" /\ build.framing = "delim"
        BY <1>10 DEF Unframable
      <4>2. build.encoding = "bin" /\ build.framing = "delim" /\ n >= NEWLINE
        BY <1>8, <4>1
      <4>3. x = ballot[p].candidate /\ x <= MAX_CANDIDATE
        <5>1. x = ballot[p].candidate /\ ballot[p].candidate \in 0 .. MAX_CANDIDATE
          BY <1>6, <1>14, <4>2, BallotsAre
        <5>2. \A c \in 0 .. MAX_CANDIDATE : c <= MAX_CANDIDATE
          BY DEF MAX_CANDIDATE
        <5> QED
          BY <5>1, <5>2
      <4>4. n = CountOf(x, counts')
        BY <4>3 DEF Counting
      <4> QED
        BY <4>2, <4>3, <4>4
    <3>3. Worked(p, {"close"})' => at'["main"] = "close"
      BY <1>9 DEF Worked, Serving
    <3> QED
      BY <1>1, <1>12, <3>1, <3>2, <3>3 DEF VoterOK, GuessOK
  <2> QED
    BY <2>1, <2>2, <2>3, <2>4, <2>5 DEF VoterOK
\* Nobody is told what another voter of the candidate is.
<1>18. ASSUME build.encoding = "bin", NEW q \in Client, NEW m, q # p, counted'[p] # -1, counted'[q] = counted'[p],
              Heard(p, m)', Heard(q, m)'
       PROVE  FALSE
  <2>1. m = Message(p, n)
    BY <1>14, <1>15, <1>18 DEF Counting
  <2>2. counted[q] = x /\ counted[q] # -1 /\ n = CountOf(x, counts')
        /\ CountOf(x, counts') = CountOf(x, counts) + 1 /\ CountOf(x, counts) \in Nat
    BY <1>7, <1>16, <1>18
  <2>3. Says(q, m)
    BY <1>13, <1>18 DEF VotesOK, VoterOK, TellsOK
  <2>4. PICK k \in Nat : m = Message(q, k) /\ k <= CountOf(x, counts)
    BY <1>18, <2>2, <2>3 DEF Says
  <2>5. k = n
    BY <1>6, <2>1, <2>4, CountsTellApart
  <2> QED
    BY <2>2, <2>4, <2>5
<1>19. ApartOK'
  <2> SUFFICES ASSUME build.encoding = "bin", NEW a \in Client, NEW b \in Client, NEW m, a # b,
                      counted'[a] # -1, counted'[b] = counted'[a], Heard(a, m)', Heard(b, m)'
               PROVE  FALSE
    BY <1>10 DEF ApartOK
  <2>1. CASE a = p
    BY <1>18, <2>1
  <2>2. CASE b = p
    BY <1>18, <2>2
  <2>3. CASE a # p /\ b # p
    BY <1>7, <1>13, <2>3 DEF VotesOK, ApartOK
  <2> QED
    BY <2>1, <2>2, <2>3
<1>20. GoesOnOK'
  BY <1>8 DEF VotesOK, GoesOnOK
<1>21. \A v \in Worker : buf'[v] \in Seq(Nat)
  <2>1. buf'["main"] \in Seq(Nat)
    <3>1. r \in Seq(Nat)
      BY DEF Counting
    <3>2. Framable(build.framing, r) => Framed(build.framing, r) \in Seq(Nat)
      BY <3>1, NextIsFramed
    <3> QED
      BY <1>1, <1>8, <3>2 DEF VotesOK
  <2> QED
    BY <1>9, <2>1 DEF VotesOK
<1>22. inBuf' \in Seq(Nat)
  BY DEF Counting
<1> QED
  BY <1>7, <1>10, <1>13, <1>17, <1>19, <1>20, <1>21, <1>22 DEF VotesOK

\* The server reads.
LEMMA ReceiveKeepsVotes ==
  ASSUME HInv, SInv, Kind = "vote", VotesOK, NEW w \in Worker, Receive(w)
  PROVE  VotesOK'
<1>1. at[w] = "receive" /\ w = "main" /\ "main" \in Worker
  BY VoterServed DEF Receive, Serving
<1>2. PICK p \in Client : p = sock["main"]
  BY <1>1, VoterServed DEF Serving
<1>3. /\ Shaped(conn[p]) /\ VoterOK(p)
  BY <1>1, <1>2, VoterServed DEF Serving
<1>4. PICK s : s = conn[p]["client"].data
  OBVIOUS
<1>5. UNCHANGED <<chosen, sock, status, got, stopped>>
  BY DEF Receive, clients, env
<1>6. \/ /\ HasData(conn[p], "server")
         /\ conn' = [conn EXCEPT ![p] = SetData(@, "client", SubSeq(s, Len(s) + 1, Len(s)))]
         /\ TakeVote("main", s) /\ UNCHANGED <<backlog, fds, listeners>>
      \/ /\ AtEof(conn[p], "server") /\ at' = [at EXCEPT !["main"] = "close"]
         /\ UNCHANGED <<votes, kernel, buf>>
      \/ /\ AtReset(conn[p], "server") /\ conn' = [conn EXCEPT ![p] = ErrorReturned(@, "server")]
         /\ at' = [at EXCEPT !["main"] = "close"]
         /\ UNCHANGED <<backlog, fds, listeners, votes, buf>>
  BY <1>1, <1>2, <1>4 DEF Receive, Sizes, OnEof, OnError
<1>7. CASE HasData(conn[p], "server")
  <2>1. s # <<>> /\ ~AtEof(conn[p], "server") /\ ~AtReset(conn[p], "server")
    BY <1>4, <1>7, EndsAre DEF HasData, AtEof, AtReset
  <2>2. s = Framed(build.framing, Request(p)) /\ Framable(build.framing, Request(p)) /\ counted[p] = -1
    BY <1>3, <1>4, <2>1 DEF VoterOK, AskedOK
  <2>3. s \in Seq(Nat)
    <3>1. ChosenOK
      BY DEF SInv
    <3>2. <<>> \in Seq(Nat)
      BY EmptySeq
    <3>3. PICK m : m = Request(p)
      OBVIOUS
    <3>4. m \in Seq(Nat)
      BY <3>1, <3>2, <3>3, RequestIsDecoded
    <3> QED
      BY <2>2, <3>3, <3>4, NextIsFramed
  <2>4. SubSeq(s, Len(s) + 1, Len(s)) = <<>>
    BY <2>3
  <2>5. TakeVote("main", s) /\ UNCHANGED <<backlog, fds, listeners>>
        /\ conn' = [conn EXCEPT ![p] = SetData(@, "client", <<>>)]
    BY <1>6, <2>1, <2>4
  <2>6. ChosenOK /\ TallyOK /\ inBuf \in Seq(Nat)
    BY DEF SInv, VotesOK
  <2>7. PICK x \in Nat, n \in Nat : \E r : Counting(p, x, n, r)
    BY <1>2, <2>2, <2>5, <2>6, VoteTaken
  <2>8. PICK r : Counting(p, x, n, r)
    BY <2>7
  <2> QED
    BY <1>1, <1>2, <1>5, <1>7, <2>5, <2>8, CountingKeepsVotes
<1>8. CASE ~HasData(conn[p], "server")
  <2>1. /\ ~IsOpen(conn[p], "client") /\ at' = [at EXCEPT !["main"] = "close"]
        /\ UNCHANGED <<votes, backlog, fds, listeners, buf>>
        /\ conn' = conn \/ conn' = [conn EXCEPT ![p] = ErrorReturned(@, "server")]
    BY <1>6, <1>8, EndsAre DEF AtEof, AtReset, IsOpen, kernel
  <2> QED
    BY <1>1, <1>2, <1>5, <2>1, GoneKeepsVotes
<1> QED
  BY <1>7, <1>8

\* Nobody has voted initially.
LEMMA InitVotes == Init => VInv
<1> SUFFICES ASSUME Init, Kind = "vote" PROVE VotesOK
  BY DEF VInv
<1>1. /\ counts = EarlierVotes /\ inBuf = stack /\ stack \in StackBytes /\ counted = [p \in Client |-> -1]
      /\ buf = [w \in Worker |-> <<>>] /\ "main" \notin stopped
  BY DEF Init
<1>2. inBuf \in Seq(Nat) /\ stack \in Seq(Nat)
  <2>1. PICK s \in Seq(0 .. 255) : s = stack
    BY <1>1, ServersAssumption
  <2>2. 0 .. 255 \subseteq Nat
    OBVIOUS
  <2>3. s \in Seq(Nat)
    BY <2>1, <2>2, SeqMonotonic, Zenon
  <2> QED
    BY <1>1, <2>1, <2>3
<1>3. counted \in [Client -> -1 .. MAX_CANDIDATE] /\ \A p \in Client : counted[p] = -1
  <2>1. -1 \in -1 .. MAX_CANDIDATE
    BY DEF MAX_CANDIDATE
  <2>2. \A p \in Client : counted[p] = -1
    BY <1>1
  <2>3. counted = [p \in Client |-> counted[p]]
    BY <1>1, Zenon
  <2> QED
    BY <2>1, <2>2, <2>3
<1>4. \A w \in Worker : buf[w] \in Seq(Nat) /\ at[w] \in {"none", "accept"}
  <2>1. Architecture = "iterative"
    BY VoteProgram
  <2> QED
    BY <1>1, <2>1, EmptySeq DEF Init
<1>5. ASSUME NEW p \in Client PROVE VoterOK(p) /\ \A m : ~Heard(p, m)
  <2>1. conn[p] = Idle /\ status[p] = "start" /\ got[p] = <<>>
    BY DEF Init
  <2>2. conn[p]["client"].data = <<>> /\ conn[p]["server"].data = <<>>
    BY <2>1, EndsAre DEF Idle
  <2>3. \A m : ~Heard(p, m)
    BY <1>4, <2>1, <2>2 DEF Heard, OnItsWay
  <2>4. VoteTypes(p)
    BY <2>1, <2>2, EmptySeq DEF VoteTypes
  <2>5. AskedOK(p) /\ ChoiceOK(p)
    BY <1>3, <2>2 DEF AskedOK, ChoiceOK
  <2>6. GuessOK(p)
    BY <2>1 DEF GuessOK
  <2> QED
    BY <2>3, <2>4, <2>5, <2>6 DEF VoterOK, TellsOK
<1>6. ApartOK
  BY <1>5 DEF ApartOK
<1>7. TallyOK
  <2>1. \A c \in 0 .. MAX_CANDIDATE : c # -1
    BY DEF MAX_CANDIDATE
  <2>2. \A c \in 0 .. MAX_CANDIDATE : Voters(c) = {}
    BY <1>3, <2>1 DEF Voters
  <2>3. \A c : CountOf(c, EarlierVotes) \in Nat
    BY ServersAssumption, CountsAreNumbers
  <2>4. Cardinality({}) = 0
    BY FS_EmptySet
  <2>5. \A c \in 0 .. MAX_CANDIDATE : CountOf(c, counts) = CountOf(c, EarlierVotes) + Cardinality(Voters(c))
    <3> TAKE c \in 0 .. MAX_CANDIDATE
    <3>1. PICK n \in Nat : n = CountOf(c, EarlierVotes)
      BY <2>3
    <3>2. CountOf(c, counts) = n /\ Cardinality(Voters(c)) = 0
      BY <1>1, <2>2, <2>4, <3>1
    <3> QED
      BY <3>1, <3>2
  <2> QED
    BY <1>1, <2>5, ServersAssumption DEF TallyOK
<1>8. GoesOnOK
  <2>1. "main" \in Worker
    BY DEF Worker
  <2>2. "main" \in listeners
    BY DEF Init
  <2> QED
    BY <1>4, <2>1, <2>2 DEF GoesOnOK
<1> QED
  BY <1>2, <1>3, <1>4, <1>5, <1>6, <1>7, <1>8 DEF VotesOK

\* Every step keeps what is known about the votes.
LEMMA NextKeepsVotes == HInv /\ SInv /\ VInv /\ [Next]_svars => VInv'
<1> SUFFICES ASSUME HInv, SInv, VInv, [Next]_svars, Kind = "vote" PROVE VotesOK'
  <2>1. [Next]_svars => Kind' = Kind
    BY ChosenOnce, SameProgram DEF chosen
  <2> QED
    BY <2>1 DEF VInv
<1>1. VotesOK
  BY DEF VInv
<1>2. ASSUME NEW w \in Worker, Serve(w) PROVE VotesOK'
  BY <1>1, <1>2, AcceptKeepsVotes, ReceiveKeepsVotes, SendKeepsVotes, FinishKeepsVotes DEF Serve
<1>3. at["main"] \in {"none", "accept", "ended"} \union Serving /\ \A p \in Client : at[p] = "none"
  <2>1. "main" \in Worker /\ Client \subseteq Worker /\ "main" \notin Client
    BY ServersAssumption DEF Worker
  <2> QED
    BY <2>1, OnlyMainActs
<1>4. ~MainStep /\ \A p \in Client : ~(ChildBegins(p) \/ Start(p))
  BY <1>3 DEF MainStep, Select, ShutDown, Fork, ParentCloses, Wait, CreateThread, ChildBegins, Start, Serving
<1>5. ASSUME NEW w \in Worker, Stops(w) PROVE VotesOK'
  BY <1>1, <1>5, StopKeepsVotes
<1>6. ASSUME NEW p \in Client, Connect(p) \/ SendWord(p) \/ Read(p) \/ Killed(p) PROVE VotesOK'
  BY <1>1, <1>6, ConnectKeepsVotes, SendWordKeepsVotes, ReadKeepsVotes, KilledKeepsVotes
<1>7. ~HitReturn
  BY VoteProgram DEF HitReturn
<1>8. CASE UNCHANGED svars
  <2>1. UNCHANGED <<chosen, votes, kernel, workers, clients, env>>
    BY <1>8 DEF svars
  <2>2. UNCHANGED <<conn, at, sock, buf, status, got, build, listeners, stopped>>
    BY <2>1 DEF kernel, workers, clients, env, chosen
  <2>3. ASSUME NEW p \in Client PROVE QuietFor(p)
    <3>1. VoteTypes(p)'
      BY <1>1, <2>2 DEF VotesOK, VoterOK, VoteTypes
    <3>2. \A m : Heard(p, m)' => Heard(p, m)
      BY <2>2, NothingNew
    <3>3. GuessOK(p)'
      <4>1. Unframable(p)' <=> Unframable(p)
        BY <2>1 DEF Unframable, chosen, votes
      <4>2. Worked(p, {"close"})' <=> Worked(p, {"close"})
        BY <2>2 DEF Worked
      <4> QED
        BY <1>1, <2>2, <4>1, <4>2 DEF VotesOK, VoterOK, GuessOK
    <3> QED
      BY <2>2, <3>1, <3>2, <3>3 DEF QuietFor
  <2>4. GoesOnOK' /\ \A w \in Worker : buf'[w] \in Seq(Nat)
    BY <1>1, <2>2 DEF VotesOK, GoesOnOK
  <2> QED
    BY <1>1, <2>1, <2>3, <2>4, QuietKeepsVotes
<1> QED
  BY <1>2, <1>4, <1>5, <1>6, <1>7, <1>8 DEF Next, Stops, ServerStep

\* What a voter that is answered in the binary encoding is told.
LEMMA AnswerIsRead ==
  ASSUME ChosenOK, Kind = "vote", VotesOK, build.encoding = "bin", NEW p \in Client, status[p] = "answered"
  PROVE  \E n \in Nat : Heard(p, Message(p, n)) /\ Told(p) = AnswerInfo(p, n)
<1>1. PICK m : m = got[p]
  OBVIOUS
<1>2. Heard(p, m)
  BY <1>1 DEF Heard
<1>3. m \in Seq(Nat) /\ Says(p, m) /\ stack \in Seq(Nat)
  BY <1>2 DEF VotesOK, VoterOK, TellsOK
<1>4. PICK n \in Nat : m = Message(p, n)
  BY <1>3 DEF Says
<1>5. PICK v : v = AnswerInfo(p, n)
  OBVIOUS
<1>6. PICK c \in Nat : c = ballot[p].candidate
  BY BallotsAre
<1>7. PICK i \in BOOLEAN : i = ballot[p].isInquiry
  BY BallotsAre
<1>8. v = [isInquiry |-> i, isResponse |-> TRUE, candidate |-> c, count |-> n]
  BY <1>5, <1>6, <1>7 DEF AnswerInfo
<1>9. v \in VoteInfo /\ v.isResponse
  BY <1>8 DEF VoteInfo
<1>10. InBin(m, v)
  <2>1. m = EncodeBin(v)
    BY <1>4, <1>5 DEF Message
  <2> QED
    BY <1>9, <2>1, BinBytes
<1>11. PICK s : s = Overwritten(stack, m)
  OBVIOUS
<1>12. s \in Seq(Nat) /\ Len(m) <= Len(s) /\ \A k \in 1 .. Len(m) : s[k] = m[k]
  BY <1>3, <1>11, PutInBuffer
<1>13. DecodeBin(s, Len(m)) = v
  BY <1>9, <1>10, <1>12, BinIsRead
<1>14. Told(p) = v
  BY <1>1, <1>11, <1>13 DEF Told, Decode
<1> QED
  BY <1>2, <1>4, <1>5, <1>14

\* What is known about the votes is enough for the property.
LEMMA VotesAreRight == SInv /\ VInv => VotesAreCounted
<1> SUFFICES ASSUME SInv, VInv, Kind = "vote" PROVE VotesAreCounted
  BY DEF VotesAreCounted
<1>1. VotesOK /\ ChosenOK
  BY DEF VInv, SInv
<1>2. ASSUME NEW c \in UNION {DOMAIN counts, DOMAIN EarlierVotes, {counted[p] : p \in Client} \ {-1}}
      PROVE  CountOf(c, counts) = CountOf(c, EarlierVotes) + Cardinality(Voters(c))
  <2>1. CASE c \in (DOMAIN counts) \union (DOMAIN EarlierVotes)
    BY <1>1, <2>1, ServersAssumption DEF VotesOK, TallyOK
  <2>2. CASE c \notin (DOMAIN counts) \union (DOMAIN EarlierVotes)
    <3>1. PICK p \in Client : c = counted[p] /\ c # -1
      BY <1>2, <2>2
    <3>2. c \in -1 .. MAX_CANDIDATE
      BY <1>1, <3>1 DEF VotesOK
    <3>3. \A x \in -1 .. MAX_CANDIDATE : x # -1 => x \in 0 .. MAX_CANDIDATE
      BY DEF MAX_CANDIDATE
    <3> QED
      BY <1>1, <3>1, <3>2, <3>3 DEF VotesOK, TallyOK
  <2> QED
    BY <2>1, <2>2
<1>3. ASSUME NEW p \in Client, counted[p] # -1
      PROVE  /\ ~ballot[p].isInquiry
             /\ ballot[p].candidate \in IF build.encoding = "bin" THEN {counted[p]}
                                        ELSE {0} \union Beginnings(counted[p])
  <2>1. /\ ~ballot[p].isInquiry
        /\ IF build.encoding = "bin" THEN counted[p] = ballot[p].candidate
           ELSE ReadAs(ballot[p].candidate, counted[p])
    BY <1>1, <1>3 DEF VotesOK, VoterOK, ChoiceOK
  <2>2. PICK x \in 0 .. MAX_CANDIDATE : x = counted[p] /\ x \in Nat /\ ~(x > MAX_CANDIDATE)
    <3>1. \A x \in -1 .. MAX_CANDIDATE : x # -1 => x \in 0 .. MAX_CANDIDATE /\ x \in Nat /\ ~(x > MAX_CANDIDATE)
      BY DEF MAX_CANDIDATE
    <3> QED
      BY <1>1, <1>3, <3>1 DEF VotesOK
  <2>3. {x, x \div 10, x \div 100, x \div 1000} \subseteq Beginnings(x)
    <3>1. x \div 1 = x
      BY <2>2
    <3> QED
      BY <3>1 DEF Beginnings
  <2>4. build.encoding # "bin" => ballot[p].candidate \in {0} \union Beginnings(x)
    BY <2>1, <2>2, <2>3 DEF ReadAs
  <2> QED
    BY <2>1, <2>2, <2>4
<1>4. ASSUME NEW p \in Client, build.encoding = "bin", status[p] = "answered"
      PROVE  /\ Told(p).isResponse /\ Told(p).candidate = ballot[p].candidate
             /\ \A q \in Voters(counted[p]) \ {p} :
                  counted[p] # -1 /\ status[q] = "answered" => Told(p).count # Told(q).count
  <2>1. PICK n \in Nat : Heard(p, Message(p, n)) /\ Told(p) = AnswerInfo(p, n)
    BY <1>1, <1>4, AnswerIsRead
  <2>2. Told(p).isResponse /\ Told(p).candidate = ballot[p].candidate /\ Told(p).count = n
    BY <2>1 DEF AnswerInfo
  <2>3. ASSUME NEW q \in Voters(counted[p]) \ {p}, counted[p] # -1, status[q] = "answered"
        PROVE  Told(p).count # Told(q).count
    <3>1. q \in Client /\ counted[q] = counted[p] /\ q # p
      BY <2>3 DEF Voters
    <3>2. PICK k \in Nat : Heard(q, Message(q, k)) /\ Told(q) = AnswerInfo(q, k)
      BY <1>1, <1>4, <2>3, <3>1, AnswerIsRead
    <3>3. Told(q).count = k
      BY <3>2 DEF AnswerInfo
    <3>4. /\ counted[p] = ballot[p].candidate /\ counted[q] = ballot[q].candidate
          /\ ~ballot[p].isInquiry /\ ~ballot[q].isInquiry
      BY <1>1, <1>4, <2>3, <3>1 DEF VotesOK, VoterOK, ChoiceOK
    <3>5. ballot[p].isInquiry = ballot[q].isInquiry
      BY <1>1, <3>1, <3>4, BallotsAre
    <3>6. n = k => Message(p, n) = Message(q, k)
      BY <3>1, <3>4, <3>5 DEF Message, AnswerInfo
    <3>7. Message(p, n) # Message(q, k)
      BY <1>1, <1>4, <2>1, <2>3, <3>1, <3>2 DEF VotesOK, ApartOK
    <3> QED
      BY <2>2, <3>3, <3>6, <3>7
  <2> QED
    BY <2>2, <2>3
<1>5. ASSUME NEW p \in Client, status[p] = "guessed", "main" \notin stopped
      PROVE  /\ build = [encoding |-> "bin", framing |-> "delim"]
             /\ CountOf(ballot[p].candidate, counts) >= NEWLINE
  <2>1. Unframable(p)
    BY <1>1, <1>5 DEF VotesOK, VoterOK, GuessOK
  <2>2. build \in [encoding : Encodings, framing : Framings]
    BY <1>1, ServersAssumption DEF ChosenOK
  <2> QED
    BY <2>1, <2>2 DEF Unframable
<1> QED
  BY <1>2, <1>3, <1>4, <1>5 DEF VotesAreCounted

\* The invariants of the vote server hold in every behaviour.
LEMMA VotesHold == Spec => [](SInv /\ VInv)
<1>1. Init => HInv /\ SInv /\ VInv
  BY InitH, InitS, InitVotes
<1>2. (HInv /\ SInv /\ VInv) /\ [Next]_svars => (HInv /\ SInv /\ VInv)'
  BY NextKeepsH, NextKeepsS, NextKeepsVotes
<1> QED
  BY <1>1, <1>2, PTL DEF Spec

\* Every vote is counted once, and inquiries are not; with the binary encoding it goes
\* to the candidate it names, voters of one candidate are told different counts, and only
\* a newline in the bytes of a count leaves a voter without an answer; with the text
\* encoding it goes to a candidate whose number begins as the one it names.
THEOREM VotesCountedOnce == Spec => []VotesAreCounted
<1>1. SInv /\ VInv => VotesAreCounted
  BY VotesAreRight
<1> QED
  BY <1>1, VotesHold, PTL

-----------------------------------------------------------------------------
(* Types. *)

\* The connections of the programs: what clients send are bytes; what servers answer,
\* also the address of a client.
Conns == {c \in Connections(Byte) : c["client"].data \in Seq(Nat)}

\* Numbers are bytes of the model, and so are the addresses of clients.
LEMMA NatsAreBytes == Seq(Nat) \subseteq Seq(Byte)
BY DEF Byte

\* What the two streams of a connection hold.
LEMMA ConnsHold ==
  ASSUME NEW c \in Conns
  PROVE  /\ c \in Connections(Byte) /\ c["client"].data \in Seq(Nat) /\ c["server"].data \in Seq(Byte)
         /\ c["client"].data \in Seq(Byte)
BY EndsAre, NatsAreBytes DEF Conns, Connections

\* Other bytes in one stream of a connection.
LEMMA DataInConns ==
  ASSUME NEW c \in Conns, NEW s
  PROVE  /\ s \in Seq(Nat) => SetData(c, "client", s) \in Conns
         /\ s \in Seq(Byte) => SetData(c, "server", s) \in Conns
<1>1. ASSUME s \in Seq(Byte), NEW e \in Ends
      PROVE  /\ SetData(c, e, s) \in Connections(Byte) /\ SetData(c, e, s)[Peer(e)] = c[Peer(e)]
             /\ SetData(c, e, s)[e].data = s
  BY <1>1, ConnsHold, SetDataIsConnection
<1>2. s \in Seq(Nat) => s \in Seq(Byte)
  BY NatsAreBytes
<1> QED
  BY <1>1, <1>2, EndsAre, ConnsHold DEF Conns

\* One end of a connection in another state.
LEMMA EndsInConns ==
  ASSUME NEW c \in Conns, NEW e \in Ends, NEW x \in StreamStates
  PROVE  SetEnd(c, e, x) \in Conns
<1>1. /\ SetEnd(c, e, x) \in Connections(Byte) /\ SetEnd(c, e, x)[Peer(e)] = c[Peer(e)]
      /\ SetEnd(c, e, x)[e].data = c[e].data
  BY ConnsHold, SetEndIsConnection
<1>2. "client" \in {e, Peer(e)}
  BY DEF Ends, Peer
<1> QED
  BY <1>1, <1>2, ConnsHold DEF Conns

\* A connection of which recv() or send() has returned the error.
LEMMA ErrorInConns ==
  ASSUME NEW c \in Conns, NEW e \in Ends
  PROVE  ErrorReturned(c, e) \in Conns
<1>1. Peer(e) \in Ends /\ "broken" \in StreamStates
  BY DEF Ends, Peer, StreamStates
<1> QED
  BY <1>1, EndsInConns DEF ErrorReturned

\* The bytes before a place, and those after it.
LEMMA PartsOfBytes ==
  ASSUME NEW s \in Seq(Nat), NEW k \in 0 .. Len(s)
  PROVE  SubSeq(s, 1, k) \in Seq(Nat) /\ SubSeq(s, k + 1, Len(s)) \in Seq(Nat)
OBVIOUS

\* A connection that one end has closed.
LEMMA ClosingsInConns ==
  ASSUME NEW c \in Conns, NEW e \in Ends
  PROVE  Closings(c, e) \subseteq Conns
<1> SUFFICES ASSUME NEW d \in Closings(c, e) PROVE d \in Conns
  OBVIOUS
<1>1. /\ d \in Connections(Byte) /\ d[Peer(e)].data = <<>>
      /\ \E k \in 0 .. Len(c[e].data) : d[e].data = SubSeq(c[e].data, 1, k)
  BY ConnsHold, ClosingsIsConnection
<1>2. CASE e = "client"
  <2>1. PICK s \in Seq(Nat) : s = c["client"].data
    BY ConnsHold
  <2>2. PICK k \in 0 .. Len(s) : d["client"].data = SubSeq(s, 1, k)
    BY <1>1, <1>2, <2>1
  <2> QED
    BY <1>1, <2>2, PartsOfBytes DEF Conns
<1>3. CASE e = "server"
  BY <1>1, <1>3, EndsAre, EmptySeq DEF Conns
<1> QED
  BY <1>2, <1>3 DEF Ends

\* A connection that was reset before it was accepted.
LEMMA AbortedInConns ==
  ASSUME NEW c \in Conns
  PROVE  Aborted(c, "server") \in Conns
<1>1. PICK d : d = SetData(c, "client", <<>>)
  OBVIOUS
<1>2. d \in Conns
  BY <1>1, DataInConns, EmptySeq
<1>3. Aborted(c, "server") = SetEnd(d, "server", "rst") /\ "rst" \in StreamStates
  BY <1>1, EndsAre DEF Aborted, StreamStates
<1> QED
  BY <1>2, <1>3, EndsAre, EndsInConns

\* A connection on which bytes were sent, one way or the other.
LEMMA SendsInConns ==
  ASSUME NEW c \in Conns, NEW e \in Ends, NEW s, e = "client" => s \in Seq(Nat), e = "server" => s \in Seq(Byte)
  PROVE  Sends(c, e, s) \subseteq Conns
<1> SUFFICES ASSUME NEW d \in Sends(c, e, s) PROVE d \in Conns
  OBVIOUS
<1>1. CASE IsOpen(c, Peer(e))
  <2>1. d = SetData(c, e, c[e].data \o s)
    BY <1>1 DEF Sends
  <2>2. CASE e = "client"
    <3>1. PICK t \in Seq(Nat) : t = c["client"].data
      BY ConnsHold
    <3>2. t \o s \in Seq(Nat)
      BY <2>2, <3>1
    <3> QED
      BY <2>1, <2>2, <3>1, <3>2, DataInConns
  <2>3. CASE e = "server"
    <3>1. PICK t \in Seq(Byte) : t = c["server"].data
      BY ConnsHold
    <3>2. t \o s \in Seq(Byte)
      BY <2>3, <3>1, ConcatProperties
    <3> QED
      BY <2>1, <2>3, <3>1, <3>2, DataInConns
  <2> QED
    BY <2>2, <2>3 DEF Ends
<1>2. CASE ~IsOpen(c, Peer(e))
  <2>1. d = c \/ d = ErrorReturned(c, e) \/ d = SetEnd(c, Peer(e), "finrst")
    BY <1>2 DEF Sends, Sent
  <2>2. Peer(e) \in Ends /\ "finrst" \in StreamStates
    BY DEF Ends, Peer, StreamStates
  <2> QED
    BY <2>1, <2>2, EndsInConns, ErrorInConns
<1> QED
  BY <1>1, <1>2

\* A connection before it is made, and when it is new.
LEMMA NewInConns == Idle \in Conns /\ Established \in Conns
<1>1. <<>> \in Seq(Nat) /\ <<>> \in Seq(Byte)
  BY EmptySeq
<1> QED
  BY <1>1 DEF Idle, Established, Conns, Connections, Ends, StreamStates

\* What processes let go of.
LEMMA LetGoInConns ==
  ASSUME NEW c \in [Client -> Conns], NEW F, NEW L, Descriptors(c, F, L)
  PROVE  conn' \in [Client -> Conns]
<1> DEFINE held(G) == UNION {G[w] : w \in Worker}
           queued == UNION {{backlog[q][k] : k \in DOMAIN backlog[q]} : q \in Port}
           next(r) == IF r \in held(fds) \ held(F) THEN Closings(c[r], "server")
                      ELSE IF L = {} /\ r \in queued THEN {Aborted(c[r], "server")} ELSE {c[r]}
<1>1. conn' \in {f \in [Client -> UNION {next(r) : r \in Client}] : \A r \in Client : f[r] \in next(r)}
  BY DEF Descriptors
<1>2. ASSUME NEW r \in Client PROVE next(r) \subseteq Conns
  <2>1. c[r] \in Conns
    OBVIOUS
  <2>2. Closings(c[r], "server") \subseteq Conns /\ Aborted(c[r], "server") \in Conns
    BY <2>1, EndsAre, ClosingsInConns, AbortedInConns
  <2> HIDE DEF held, queued
  <2> QED
    BY <2>1, <2>2
<1> HIDE DEF next
<1> QED
  BY <1>1, <1>2

\* What clients send are numbers of a byte.
TypesOK == ServerTypeOK /\ \A p \in Client : conn[p]["client"].data \in Seq(Nat)

\* What the types say of the connections and the buffers.
LEMMA TypedConns ==
  ASSUME TypesOK
  PROVE  conn \in [Client -> Conns] /\ buf \in [Worker -> Seq(Nat)]
<1>1. conn \in [Client -> Connections(Byte)]
  BY DEF TypesOK, ServerTypeOK, Connections, Byte
<1> QED
  BY <1>1 DEF TypesOK, ServerTypeOK, Conns

\* What a client sends are numbers.
LEMMA WordsAreNats ==
  ASSUME ChosenOK, NEW p \in Client
  PROVE  IF Kind = "vote" THEN Framable(build.framing, Request(p)) => Framed(build.framing, Request(p)) \in Seq(Nat)
         ELSE Request(p) \in Seq(Nat)
<1>1. CASE Kind = "vote"
  <2>1. PICK m : m = Request(p)
    OBVIOUS
  <2>2. m \in Seq(Nat)
    BY <1>1, <2>1, EmptySeq, RequestIsDecoded
  <2> QED
    BY <1>1, <2>1, <2>2, NextIsFramed
<1>2. CASE Kind # "vote"
  <2>1. Word[p] \in [1 .. 2 -> 0 .. BYTE - 1] /\ BYTE \in Nat
    BY ServersAssumption
  <2>2. Word[p] \in [1 .. 2 -> Nat] /\ 2 \in Nat
    BY <2>1
  <2>3. Word[p] \in Seq(Nat)
    BY <2>2, SeqDef
  <2> QED
    BY <1>2, <2>3 DEF Request
<1> QED
  BY <1>1, <1>2

\* The answer of PlusOneServer are numbers.
LEMMA PlusOneIsNumbers ==
  ASSUME NEW b \in Seq(Nat), Len(b) = 2
  PROVE  PlusOne(b) \in Seq(Nat)
<1> DEFINE m == BYTE * BYTE
           sum == b[1] * BYTE + b[2] + 1
           val == sum % m
<1>1. BYTE \in Nat \ {0} /\ b[1] \in Nat /\ b[2] \in Nat
  <2>1. BYTE \in Nat \ {0}
    BY ServersAssumption
  <2>2. \A k \in 1 .. 2 : b[k] \in Nat
    BY ElementOfSeq
  <2>3. b[1] \in Nat /\ b[2] \in Nat
    BY <2>2
  <2> QED
    BY <2>1, <2>3
<1>2. \A x, y \in Nat : x * y \in Nat /\ (x # 0 /\ y # 0 => x * y # 0)
  OBVIOUS
<1>3. m \in Nat \ {0} /\ sum \in Nat
  <2>1. m \in Nat \ {0} /\ b[1] * BYTE \in Nat
    BY <1>1, <1>2
  <2> QED
    BY <1>1, <2>1
<1>4. val \in Nat
  <2> HIDE DEF m, sum
  <2> QED
    BY <1>3
<1>5. val \div BYTE \in Nat /\ val % BYTE \in Nat
  <2> HIDE DEF val
  <2> QED
    BY <1>1, <1>4
<1>6. PlusOne(b) = <<val \div BYTE, val % BYTE>>
  BY DEF PlusOne
<1> HIDE DEF val
<1> QED
  BY <1>5, <1>6

\* The answer of a worker: numbers, or the address of its client.
LEMMA ReplyIsTyped ==
  ASSUME HInv, SInv, TypesOK, NEW w \in Worker, at[w] = "send"
  PROVE  Reply(w) \in Seq(Byte)
<1>1. PICK b \in Seq(Nat) : b = buf[w]
  BY TypedConns
<1>2. b \in Seq(Byte)
  BY NatsAreBytes
<1>3. CASE Kind = "plus one"
  <2>1. Len(b) = 2
    BY <1>1, <1>3 DEF SInv, StreamsOK, BufOK
  <2>2. PlusOne(b) \in Seq(Byte)
    BY <2>1, PlusOneIsNumbers, NatsAreBytes
  <2> QED
    BY <1>1, <1>3, <2>2 DEF Reply
<1>4. CASE Kind = "endpoint"
  <2>1. sock[w] \in Client
    BY Served DEF Serving
  <2>2. <<sock[w]>> \in Seq(Byte)
    BY <2>1 DEF Byte
  <2> QED
    BY <1>4, <2>2 DEF Reply
<1>5. CASE Kind = "note"
  <2>1. <<18>> \in Seq(Byte)
    BY DEF Byte
  <2> QED
    BY <1>5, <2>1 DEF Reply
<1>6. CASE Kind \notin {"plus one", "endpoint", "note"}
  BY <1>1, <1>2, <1>6 DEF Reply
<1> QED
  BY <1>3, <1>4, <1>5, <1>6

\* What is read, and what is left.
LEMMA ReadsAreTyped ==
  ASSUME NEW M \in {Nat, Byte}, NEW s \in Seq(M), s # <<>>, NEW b, Partial(b), NEW k \in Sizes(s, b)
  PROVE  SubSeq(s, 1, k) \in Seq(M) /\ SubSeq(s, k + 1, Len(s)) \in Seq(M)
<1>1. s \in Seq(Byte)
  BY NatsAreBytes
<1>2. Fits(k, s, b)
  BY <1>1, SomeArrive
<1>3. k \in 1 .. Len(s)
  BY <1>2 DEF Fits
<1> QED
  BY <1>3

\* One connection becomes another.
LEMMA OneConnection ==
  ASSUME NEW c \in [Client -> Conns], NEW p \in Client, NEW d \in Conns
  PROVE  [c EXCEPT ![p] = d] \in [Client -> Conns]
OBVIOUS

\* The connections, where a worker serves.
LEMMA SessionConns ==
  ASSUME HInv, SInv, TypesOK, NEW w \in Worker, Serve(w)
  PROVE  conn' \in [Client -> Conns]
<1>1. conn \in [Client -> Conns]
  BY TypedConns
<1>2. ASSUME Receive(w) PROVE conn' \in [Client -> Conns]
  <2>1. PICK p \in Client : p = sock[w]
    BY <1>2, Served DEF Receive, Serving
  <2>2. PICK d \in Conns : d = conn[p]
    BY <1>1
  <2>3. PICK s \in Seq(Nat) : s = d["client"].data
    BY ConnsHold
  <2>4. PICK e : e = [conn EXCEPT ![p] = ErrorReturned(@, "server")]
    OBVIOUS
  <2>5. e \in [Client -> Conns]
    <3>1. ErrorReturned(d, "server") \in Conns
      BY EndsAre, ErrorInConns
    <3> QED
      BY <1>1, <2>2, <2>4, <3>1
  <2>6. \/ /\ HasData(d, "server")
           /\ \E k \in Sizes(s, buf[w]) : conn' = [conn EXCEPT ![p] = SetData(d, "client", SubSeq(s, k + 1, Len(s)))]
        \/ conn' = conn \/ conn' = e \/ Exit(w, e)
    BY <1>1, <1>2, <2>1, <2>2, <2>3, <2>4 DEF Receive, kernel
  <2>7. CASE Exit(w, e)
    BY <2>5, <2>7, LetGoInConns DEF Exit
  <2>8. CASE /\ HasData(d, "server")
             /\ \E k \in Sizes(s, buf[w]) : conn' = [conn EXCEPT ![p] = SetData(d, "client", SubSeq(s, k + 1, Len(s)))]
    <3>1. PICK b \in Seq(Nat) : b = buf[w]
      BY TypedConns
    <3>2. PICK k \in Sizes(s, b) : conn' = [conn EXCEPT ![p] = SetData(d, "client", SubSeq(s, k + 1, Len(s)))]
      BY <2>8, <3>1
    <3>3. s # <<>> /\ Partial(b)
      BY <2>3, <2>8, EndsAre, NatsAreBytes DEF HasData, Partial
    <3>4. PICK r : r = SubSeq(s, k + 1, Len(s))
      OBVIOUS
    <3>5. r \in Seq(Nat)
      BY <3>3, <3>4, ReadsAreTyped
    <3>6. SetData(d, "client", r) \in Conns
      BY <3>5, DataInConns
    <3> QED
      BY <1>1, <3>2, <3>4, <3>6, OneConnection
  <2> QED
    BY <1>1, <2>5, <2>6, <2>7, <2>8
<1>3. ASSUME Send(w) PROVE conn' \in [Client -> Conns]
  <2>1. PICK p \in Client : p = sock[w]
    BY <1>3, Served DEF Send, Serving
  <2>2. PICK c \in Conns : c = conn[p]
    BY <1>1
  <2>3. PICK s \in Seq(Byte) : s = Reply(w)
    BY <1>3, ReplyIsTyped DEF Send
  <2>4. \/ Exit(w, conn)
        \/ \E d \in Sends(c, "server", s) : Exit(w, [conn EXCEPT ![p] = d]) \/ conn' = [conn EXCEPT ![p] = d]
    BY <1>3, <2>1, <2>2, <2>3 DEF Send
  <2>5. Sends(c, "server", s) \subseteq Conns
    BY <2>3, EndsAre, SendsInConns
  <2>6. ASSUME NEW d \in Conns PROVE [conn EXCEPT ![p] = d] \in [Client -> Conns]
    BY <1>1, OneConnection
  <2>7. ASSUME NEW e \in [Client -> Conns], Exit(w, e) PROVE conn' \in [Client -> Conns]
    BY <2>7, LetGoInConns DEF Exit
  <2>8. CASE Exit(w, conn)
    BY <1>1, <2>7, <2>8
  <2>9. ASSUME NEW d \in Sends(c, "server", s), Exit(w, [conn EXCEPT ![p] = d]) \/ conn' = [conn EXCEPT ![p] = d]
        PROVE  conn' \in [Client -> Conns]
    <3>1. PICK e : e = [conn EXCEPT ![p] = d]
      OBVIOUS
    <3>2. e \in [Client -> Conns]
      BY <2>5, <2>6, <3>1
    <3>3. Exit(w, e) \/ conn' = e
      BY <2>9, <3>1
    <3> QED
      BY <2>7, <3>2, <3>3
  <2> QED
    BY <2>4, <2>8, <2>9
<1>4. ASSUME Finish(w) PROVE conn' \in [Client -> Conns]
  <2>1. \E F, L : Descriptors(conn, F, L)
    BY <1>4 DEF Finish, Exit
  <2> QED
    BY <1>1, <2>1, LetGoInConns
<1>5. ASSUME Accept(w) PROVE conn' \in [Client -> Conns]
  BY <1>1, <1>5 DEF Accept
<1> QED
  BY <1>2, <1>3, <1>4, <1>5 DEF Serve

\* The connections, where a client steps.
LEMMA ClientConns ==
  ASSUME HInv, SInv, TypesOK, NEW p \in Client, Connect(p) \/ SendWord(p) \/ Read(p) \/ Killed(p)
  PROVE  conn' \in [Client -> Conns]
<1>1. PICK c \in Conns : c = conn[p] /\ conn \in [Client -> Conns]
  BY TypedConns
<1>2. ASSUME NEW how, NEW d \in Conns, End(p, how, d) PROVE conn' \in [Client -> Conns]
  <2>1. PICK x \in Closings(d, "client") : conn' = [conn EXCEPT ![p] = x]
    BY <1>2 DEF End
  <2>2. x \in Conns
    BY EndsAre, ClosingsInConns
  <2> QED
    BY <1>1, <2>1, <2>2, OneConnection
<1>3. ASSUME NEW d \in Conns, conn' = [conn EXCEPT ![p] = d] PROVE conn' \in [Client -> Conns]
  BY <1>1, <1>3, OneConnection
<1>4. CASE Connect(p)
  <2>1. conn' = conn \/ conn' = [conn EXCEPT ![p] = Established]
    BY <1>4 DEF Connect
  <2> QED
    BY <1>1, <1>3, <2>1, NewInConns
<1>5. CASE SendWord(p)
  <2>1. PICK s : s = IF Kind = "vote" THEN Framed(build.framing, Request(p)) ELSE Request(p)
    OBVIOUS
  <2>2. \/ End(p, "died", c)
        \/ /\ Kind = "vote" => Framable(build.framing, Request(p))
           /\ \E d \in Sends(c, "client", s) : End(p, "died", d) \/ conn' = [conn EXCEPT ![p] = d]
    BY <1>1, <1>5, <2>1 DEF SendWord
  <2>3. (Kind = "vote" => Framable(build.framing, Request(p))) => s \in Seq(Nat)
    BY <2>1, WordsAreNats DEF SInv
  <2>4. s \in Seq(Nat) => Sends(c, "client", s) \subseteq Conns
    BY SendsInConns, EndsAre
  <2> QED
    BY <1>2, <1>3, <2>2, <2>3, <2>4
<1>6. CASE Read(p)
  <2>1. PICK s \in Seq(Byte) : s = c["server"].data
    BY ConnsHold
  <2>2. PICK g : g = got[p]
    OBVIOUS
  <2>3. \/ /\ HasData(c, "client")
           /\ \E k \in Sizes(s, g) : \E d \in {SetData(c, "server", SubSeq(s, k + 1, Len(s)))} :
                End(p, "answered", d) \/ conn' = [conn EXCEPT ![p] = d]
        \/ \E how : End(p, how, c)
        \/ conn' = [conn EXCEPT ![p] = ErrorReturned(c, "client")]
        \/ \E how : End(p, how, ErrorReturned(c, "client"))
    BY <1>1, <1>6, <2>1, <2>2 DEF Read
  <2>4. ErrorReturned(c, "client") \in Conns
    BY EndsAre, ErrorInConns
  <2>5. CASE /\ HasData(c, "client")
             /\ \E k \in Sizes(s, g) : \E d \in {SetData(c, "server", SubSeq(s, k + 1, Len(s)))} :
                  End(p, "answered", d) \/ conn' = [conn EXCEPT ![p] = d]
    <3>1. s # <<>> /\ Partial(g)
      BY <2>1, <2>2, <2>5, EndsAre DEF HasData, Partial, SInv, StreamsOK, PInv, ClientOK
    <3>2. PICK k \in Sizes(s, g) : \E d \in {SetData(c, "server", SubSeq(s, k + 1, Len(s)))} :
                  End(p, "answered", d) \/ conn' = [conn EXCEPT ![p] = d]
      BY <2>5
    <3>3. PICK r : r = SubSeq(s, k + 1, Len(s))
      OBVIOUS
    <3>4. r \in Seq(Byte)
      BY <3>1, <3>3, ReadsAreTyped
    <3>5. PICK d : d = SetData(c, "server", r)
      OBVIOUS
    <3>6. d \in Conns
      BY <3>4, <3>5, DataInConns
    <3>7. End(p, "answered", d) \/ conn' = [conn EXCEPT ![p] = d]
      BY <3>2, <3>3, <3>5
    <3> QED
      BY <1>2, <1>3, <3>6, <3>7
  <2> QED
    BY <1>2, <1>3, <2>3, <2>4, <2>5
<1>7. CASE Killed(p)
  BY <1>1, <1>2, <1>7 DEF Killed
<1> QED
  BY <1>4, <1>5, <1>6, <1>7

\* The connections, in every step.
LEMMA NextKeepsConns ==
  ASSUME HInv, SInv, TypesOK, [Next]_svars
  PROVE  conn' \in [Client -> Conns]
<1>1. conn \in [Client -> Conns]
  BY TypedConns
<1>2. ASSUME conn' = conn \/ \E F, L : Descriptors(conn, F, L) PROVE conn' \in [Client -> Conns]
  BY <1>1, <1>2, LetGoInConns
<1>3. CASE MainStep
  <2>1. Select \/ Fork => conn' = conn
    BY DEF Select, Fork, kernel
  <2>2. ShutDown \/ ParentCloses \/ Wait \/ CreateThread => conn' = conn \/ \E F, L : Descriptors(conn, F, L)
    BY DEF ShutDown, ParentCloses, Wait, CreateThread, kernel, Exit
  <2> QED
    BY <1>2, <1>3, <2>1, <2>2 DEF MainStep
<1>4. ASSUME NEW w \in Worker, ChildBegins(w) \/ Start(w) \/ Stops(w) PROVE conn' \in [Client -> Conns]
  BY <1>2, <1>4 DEF ChildBegins, Start, Stops, Interrupt, CallFails, kernel, Exit
<1>5. CASE HitReturn \/ UNCHANGED svars
  BY <1>1, <1>5 DEF HitReturn, svars, kernel
<1> QED
  BY <1>3, <1>4, <1>5, SessionConns, ClientConns DEF Next, Stops, ServerStep

\* The buffers of the workers.
LEMMA NextKeepsBuffers ==
  ASSUME HInv, SInv, VInv', TypesOK, [Next]_svars
  PROVE  buf' \in [Worker -> Seq(Nat)]
<1>1. conn \in [Client -> Conns] /\ buf \in [Worker -> Seq(Nat)]
  BY TypedConns
<1>2. ASSUME NEW w \in Worker, NEW b \in Seq(Nat), buf' = [buf EXCEPT ![w] = b] \/ buf' = buf
      PROVE  buf' \in [Worker -> Seq(Nat)]
  BY <1>1, <1>2
<1>3. ASSUME NEW w \in Worker, Receive(w) PROVE buf' \in [Worker -> Seq(Nat)]
  <2>1. PICK p \in Client : p = sock[w]
    BY <1>3, Served DEF Receive, Serving
  <2>2. PICK s \in Seq(Nat) : s = conn[p]["client"].data
    BY <1>1, ConnsHold
  <2>3. \/ /\ s # <<>>
           /\ \E k \in Sizes(s, buf[w]) : IF Kind = "vote" THEN TakeVote(w, s) ELSE TakeBytes(w, SubSeq(s, 1, k))
        \/ buf' = buf
    BY <1>3, <2>1, <2>2, EndsAre DEF Receive, HasData
  <2>4. CASE buf' = buf
    BY <1>1, <2>4
  <2>5. CASE /\ s # <<>> /\ Kind = "vote" /\ TakeVote(w, s)
    <3>1. (\E b : buf' = [buf EXCEPT ![w] = b]) \/ buf' = buf
      BY <2>5 DEF TakeVote
    <3>2. Kind' = Kind
      BY ChosenOnce, SameProgram DEF chosen
    <3>3. buf'[w] \in Seq(Nat)
      BY <2>5, <3>2 DEF VInv, VotesOK
    <3> QED
      BY <1>1, <3>1, <3>3
  <2>6. CASE s # <<>> /\ Kind # "vote" /\ \E k \in Sizes(s, buf[w]) : TakeBytes(w, SubSeq(s, 1, k))
    <3>1. PICK b \in Seq(Nat) : b = buf[w]
      BY <1>1
    <3>2. PICK k \in Sizes(s, b) : TakeBytes(w, SubSeq(s, 1, k))
      BY <2>6, <3>1
    <3>3. PICK t : t = SubSeq(s, 1, k)
      OBVIOUS
    <3>4. Partial(b)
      BY NatsAreBytes DEF Partial
    <3>5. t \in Seq(Nat)
      BY <2>6, <3>3, <3>4, ReadsAreTyped
    <3>6. b \o t \in Seq(Nat)
      BY <3>5
    <3>7. buf' = [buf EXCEPT ![w] = b \o t] \/ buf' = [buf EXCEPT ![w] = t]
      BY <3>1, <3>2, <3>3 DEF TakeBytes
    <3> QED
      BY <1>2, <3>5, <3>6, <3>7
  <2> QED
    BY <2>3, <2>4, <2>5, <2>6
<1>4. ASSUME NEW w \in Worker, Send(w) \/ Finish(w) PROVE buf' \in [Worker -> Seq(Nat)]
  BY <1>2, <1>4, EmptySeq DEF Send, Finish
<1>5. ASSUME NEW w \in Worker, Accept(w) \/ ChildBegins(w) \/ Start(w) \/ Stops(w) PROVE buf' = buf
  BY <1>5 DEF Accept, ChildBegins, Start, Stops, Interrupt, CallFails
<1>6. MainStep => buf' = buf
  BY DEF MainStep, Select, ShutDown, Fork, ParentCloses, Wait, CreateThread
<1>7. ASSUME NEW p \in Client, Connect(p) \/ SendWord(p) \/ Read(p) \/ Killed(p) PROVE buf' = buf
  BY <1>7 DEF Connect, SendWord, Read, Killed, workers
<1>8. HitReturn \/ UNCHANGED svars => buf' = buf
  BY DEF HitReturn, svars, workers
<1> QED
  BY <1>1, <1>3, <1>4, <1>5, <1>6, <1>7, <1>8 DEF Next, Stops, ServerStep, Serve

\* Where clients are, and what they have received.
LEMMA NextKeepsClients ==
  ASSUME SInv', VInv', TypesOK, [Next]_svars
  PROVE  /\ status' \in [Client -> Outcomes \union {"start", "connected", "reading"}]
         /\ got' \in [Client -> Seq(Byte)]
<1>1. /\ status \in [Client -> Outcomes \union {"start", "connected", "reading"}]
      /\ got \in [Client -> Seq(Byte)]
  BY DEF TypesOK, ServerTypeOK, Byte
<1>2. \A p \in Client : got'[p] \in Seq(Byte)
  BY NatsAreBytes DEF SInv, StreamsOK, PInv, ClientOK, VInv, VotesOK, VoterOK, VoteTypes
<1>3. ASSUME NEW p \in Client, Connect(p) \/ SendWord(p) \/ Read(p) \/ Killed(p)
      PROVE  /\ \/ status' = status
                \/ \E x \in Outcomes \union {"start", "connected", "reading"} : status' = [status EXCEPT ![p] = x]
             /\ got' = got \/ \E g : got' = [got EXCEPT ![p] = g]
  <2>1. {"refused", "died", "answered", "unanswered", "guessed", "killed"} \subseteq Outcomes
    BY DEF Outcomes
  <2>2. Connect(p) \/ SendWord(p) \/ Killed(p) => got' = got
    BY DEF Connect, SendWord, Killed
  <2>3. Read(p) => got' = got \/ \E g : got' = [got EXCEPT ![p] = g]
    BY DEF Read
  <2>4. Connect(p) \/ SendWord(p) \/ Killed(p) =>
          \/ status' = status
          \/ \E x \in {"refused", "connected", "died", "reading", "killed"} : status' = [status EXCEPT ![p] = x]
    BY DEF Connect, SendWord, Killed, End
  <2>5. Read(p) =>
          \/ status' = status
          \/ \E x \in {"answered", "died", "unanswered", "guessed"} : status' = [status EXCEPT ![p] = x]
    BY DEF Read, End, AtEndOfFile
  <2> QED
    BY <1>3, <2>1, <2>2, <2>3, <2>4, <2>5
<1>4. ASSUME NEW w \in Worker, ServerStep(w) \/ Stops(w) PROVE UNCHANGED <<status, got>>
  <2>1. Serve(w) => UNCHANGED clients
    BY DEF Serve, Accept, Receive, Send, Finish
  <2>2. MainStep => UNCHANGED clients
    BY DEF MainStep, Select, ShutDown, Fork, ParentCloses, Wait, CreateThread
  <2>3. ChildBegins(w) \/ Start(w) \/ Stops(w) => UNCHANGED clients
    BY DEF ChildBegins, Start, Stops, Interrupt, CallFails
  <2> QED
    BY <1>4, <2>1, <2>2, <2>3 DEF ServerStep, clients
<1>5. HitReturn \/ UNCHANGED svars => UNCHANGED <<status, got>>
  BY DEF HitReturn, svars, clients
<1>6. \/ UNCHANGED <<status, got>>
      \/ \E p \in Client :
           /\ \/ status' = status
              \/ \E x \in Outcomes \union {"start", "connected", "reading"} : status' = [status EXCEPT ![p] = x]
           /\ got' = got \/ \E g : got' = [got EXCEPT ![p] = g]
  BY <1>3, <1>4, <1>5 DEF Next, Stops
<1>7. status' \in [Client -> Outcomes \union {"start", "connected", "reading"}]
  BY <1>1, <1>6
<1>8. got' = got \/ \E p \in Client : \E g : got' = [got EXCEPT ![p] = g]
  BY <1>6
<1>9. got' \in [Client -> Seq(Byte)]
  BY <1>1, <1>2, <1>8
<1> QED
  BY <1>7, <1>9

\* The loop that accepts, who listens, the keyboard, and who was stopped.
LEMMA NextKeepsLoop ==
  ASSUME HInv, TypesOK, [Next]_svars
  PROVE  /\ listeners' \subseteq Worker /\ childProcCount' \in Nat /\ ready' \subseteq Port
         /\ running' \in BOOLEAN /\ typed' \in BOOLEAN /\ stopped' \subseteq Worker
<1>1. /\ listeners \subseteq Worker /\ childProcCount \in Nat /\ ready \subseteq Port
      /\ running \in BOOLEAN /\ typed \in BOOLEAN /\ stopped \subseteq Worker
  BY DEF TypesOK, ServerTypeOK
\* Who listens.
<1>2. listeners' \subseteq Worker
  <2>1. ASSUME NEW w \in Worker, NEW c, Exit(w, c) PROVE listeners' \subseteq Worker
    BY <1>1, <2>1 DEF Exit, Descriptors
  <2>2. ASSUME NEW w \in Worker, Serve(w) PROVE listeners' \subseteq Worker
    <3>1. Accept(w) => listeners' = listeners
      BY DEF Accept
    <3>2. Receive(w) => listeners' = listeners \/ \E c : Exit(w, c)
      BY DEF Receive, kernel
    <3>3. Send(w) => listeners' = listeners \/ \E c : Exit(w, c)
      BY DEF Send
    <3>4. Finish(w) => listeners' = listeners \/ \E c : Exit(w, c)
      BY DEF Finish, Descriptors
    <3> QED
      BY <1>1, <2>1, <2>2, <3>1, <3>2, <3>3, <3>4 DEF Serve
  <2>3. CASE MainStep
    <3>1. "main" \in Worker
      BY DEF Worker
    <3>2. Select \/ ParentCloses => listeners' = listeners
      BY DEF Select, ParentCloses, Descriptors, kernel
    <3>3. ShutDown \/ Wait \/ CreateThread => listeners' = listeners \/ \E c : Exit("main", c)
      BY DEF ShutDown, Wait, CreateThread, kernel
    <3>4. CASE Fork
      <4>1. sock["main"] \in fds["main"] /\ fds["main"] \subseteq Client
        BY <3>1, <3>4 DEF Fork, HInv, CInv, ControlTypes, WorkersOK, Process, Busy
      <4> QED
        BY <1>1, <3>4, <4>1 DEF Fork, Worker
    <3> QED
      BY <1>1, <2>1, <2>3, <3>1, <3>2, <3>3, <3>4 DEF MainStep
  <2>4. ASSUME NEW w \in Worker, ChildBegins(w) \/ Start(w) \/ Stops(w) PROVE listeners' \subseteq Worker
    <3>1. ChildBegins(w) => listeners' \subseteq listeners
      BY DEF ChildBegins, Descriptors
    <3>2. Start(w) => listeners' = listeners
      BY DEF Start, kernel
    <3>3. Stops(w) => \E c : Exit(w, c)
      BY DEF Stops, Interrupt, CallFails
    <3> QED
      BY <1>1, <2>1, <2>4, <3>1, <3>2, <3>3
  <2>5. ASSUME NEW p \in Client, Connect(p) \/ SendWord(p) \/ Read(p) \/ Killed(p) PROVE listeners' = listeners
    BY <2>5 DEF Connect, SendWord, Read, Killed
  <2>6. HitReturn \/ UNCHANGED svars => listeners' = listeners
    BY DEF HitReturn, svars, kernel
  <2> QED
    BY <1>1, <2>2, <2>3, <2>4, <2>5, <2>6 DEF Next, Stops, ServerStep
\* The rest.
<1>3. Port' = Port
  BY ChosenOnce, SameProgram DEF Port, chosen
<1>4. ASSUME UNCHANGED <<loop, env>>
      PROVE  childProcCount' \in Nat /\ ready' \subseteq Port /\ running' \in BOOLEAN /\ typed' \in BOOLEAN /\ stopped' \subseteq Worker
  BY <1>1, <1>4 DEF loop, env
<1>5. ASSUME NEW w \in Worker, Serve(w)
      PROVE  childProcCount' \in Nat /\ ready' \subseteq Port /\ running' \in BOOLEAN /\ typed' \in BOOLEAN /\ stopped' \subseteq Worker
  <2>1. Receive(w) \/ Send(w) \/ Finish(w) => UNCHANGED <<loop, env>>
    BY DEF Receive, Send, Finish
  <2>2. Accept(w) => UNCHANGED <<childProcCount, running, typed, stopped>> /\ ready' \subseteq ready
    BY DEF Accept, env
  <2> QED
    BY <1>1, <1>4, <1>5, <2>1, <2>2 DEF Serve
<1>6. CASE MainStep
  <2>1. ShutDown \/ Fork \/ CreateThread => UNCHANGED <<loop, env>>
    BY DEF ShutDown, Fork, CreateThread
  <2>2. Select => /\ UNCHANGED <<childProcCount, stopped>> /\ ready' \subseteq Port
                  /\ running' \in BOOLEAN /\ typed' \in BOOLEAN
    BY DEF Select
  <2>3. ParentCloses => /\ UNCHANGED <<ready, running, typed, stopped>> /\ childProcCount' = childProcCount + 1
    BY DEF ParentCloses, env
  <2>4. Wait => /\ UNCHANGED <<ready, running, typed, stopped>>
                /\ childProcCount' = childProcCount \/ (childProcCount # 0 /\ childProcCount' = childProcCount - 1)
    BY DEF Wait, env
  <2>5. CASE ShutDown \/ Fork \/ CreateThread
    BY <1>2, <1>4, <2>1, <2>5
  <2>6. CASE Select
    BY <1>1, <1>2, <2>2, <2>6
  <2>7. ready' = ready => ready' \subseteq Port
    BY <1>1
  <2>8. CASE ParentCloses
    <3>1. childProcCount + 1 \in Nat
      BY <1>1
    <3> QED
      BY <1>1, <1>2, <2>3, <2>7, <2>8, <3>1
  <2>9. CASE Wait
    <3>1. childProcCount # 0 => childProcCount - 1 \in Nat
      BY <1>1
    <3> QED
      BY <1>1, <1>2, <2>4, <2>7, <2>9, <3>1
  <2> QED
    BY <1>6, <2>5, <2>6, <2>8, <2>9 DEF MainStep
<1>7. ASSUME NEW w \in Worker, ChildBegins(w) \/ Start(w) \/ Stops(w)
      PROVE  childProcCount' \in Nat /\ ready' \subseteq Port /\ running' \in BOOLEAN /\ typed' \in BOOLEAN /\ stopped' \subseteq Worker
  <2>1. ChildBegins(w) \/ Start(w) => UNCHANGED <<loop, env>>
    BY DEF ChildBegins, Start
  <2>2. Stops(w) => UNCHANGED <<childProcCount, ready, running, typed>> /\ stopped' = stopped \union {w}
    BY DEF Stops, Interrupt, CallFails, loop
  <2> QED
    BY <1>1, <1>4, <1>7, <2>1, <2>2
<1>8. ASSUME NEW p \in Client, Connect(p) \/ SendWord(p) \/ Read(p) \/ Killed(p) PROVE UNCHANGED <<loop, env>>
  BY <1>8 DEF Connect, SendWord, Read, Killed
<1>9. CASE HitReturn \/ UNCHANGED svars
  <2>1. UNCHANGED <<childProcCount, ready, running, stopped>> /\ typed' \in {TRUE, typed}
    BY <1>9 DEF HitReturn, svars, loop, env
  <2> QED
    BY <1>1, <1>2, <1>3, <2>1
<1> QED
  BY <1>2, <1>3, <1>4, <1>5, <1>6, <1>7, <1>8, <1>9 DEF Next, Stops, ServerStep

\* The votes, which only the vote server counts.
LEMMA NextKeepsTally ==
  ASSUME VInv', TypesOK, [Next]_svars
  PROVE  IsABag(counts') /\ inBuf' \in Seq(Nat) /\ counted' \in [Client -> -1 .. MAX_CANDIDATE]
<1>1. CASE Kind = "vote"
  <2>1. Kind' = "vote"
    BY <1>1, ChosenOnce, SameProgram DEF chosen
  <2> QED
    BY <2>1 DEF VInv, VotesOK, TallyOK
<1>2. CASE Kind # "vote"
  <2>1. ASSUME NEW w \in Worker, Serve(w) PROVE UNCHANGED votes
    <3>1. Receive(w) => UNCHANGED votes \/ \E s : TakeBytes(w, s)
      BY <1>2 DEF Receive
    <3>2. \A s : TakeBytes(w, s) => UNCHANGED votes
      BY DEF TakeBytes
    <3>3. Accept(w) \/ Send(w) \/ Finish(w) => UNCHANGED votes
      BY DEF Accept, Send, Finish
    <3> QED
      BY <2>1, <3>1, <3>2, <3>3 DEF Serve
  <2>2. MainStep => UNCHANGED votes
    BY DEF MainStep, Select, ShutDown, Fork, ParentCloses, Wait, CreateThread
  <2>3. ASSUME NEW w \in Worker, ChildBegins(w) \/ Start(w) \/ Stops(w) PROVE UNCHANGED votes
    BY <2>3 DEF ChildBegins, Start, Stops, Interrupt, CallFails
  <2>4. ASSUME NEW p \in Client, Connect(p) \/ SendWord(p) \/ Read(p) \/ Killed(p) PROVE UNCHANGED votes
    BY <2>4 DEF Connect, SendWord, Read, Killed
  <2>5. HitReturn \/ UNCHANGED svars => UNCHANGED votes
    BY DEF HitReturn, svars
  <2>6. UNCHANGED votes
    BY <2>1, <2>2, <2>3, <2>4, <2>5 DEF Next, Stops, ServerStep
  <2>7. IsABag(counts') <=> IsABag(counts)
    BY <2>6 DEF votes
  <2> QED
    BY <2>6, <2>7 DEF votes, TypesOK, ServerTypeOK
<1> QED
  BY <1>1, <1>2

\* The types that HInv does not give.
PartsOK ==
  /\ conn \in [Client -> Conns] /\ buf \in [Worker -> Seq(Nat)] /\ got \in [Client -> Seq(Byte)]
  /\ listeners \subseteq Worker /\ childProcCount \in Nat /\ ready \subseteq Port
  /\ running \in BOOLEAN /\ typed \in BOOLEAN /\ stopped \subseteq Worker
  /\ IsABag(counts) /\ inBuf \in Seq(Nat) /\ counted \in [Client -> -1 .. MAX_CANDIDATE]
  /\ status \in [Client -> Outcomes \union {"start", "connected", "reading"}]

\* The types of the parts, put together.
LEMMA TypesFromParts == HInv /\ PartsOK => TypesOK
<1> SUFFICES ASSUME HInv, PartsOK PROVE TypesOK
  OBVIOUS
<1>1. conn \in [Client -> [Ends -> [data : Seq(Nat \union Client), end : StreamStates]]]
  BY DEF PartsOK, Conns, Connections, Byte
<1>2. \A p \in Client : conn[p]["client"].data \in Seq(Nat)
  BY ConnsHold DEF PartsOK
<1>3. /\ fds \in [Worker -> SUBSET Client] /\ sock \in [Worker -> Client \union {"nobody"}]
      /\ at \in [Worker -> {"none", "select", "accept", "fork", "parent", "wait", "create",
                            "child", "start", "receive", "send", "close", "ended", "reaped"}]
  <2>1. Places = {"none", "select", "accept", "fork", "parent", "wait", "create",
                  "child", "start", "receive", "send", "close", "ended", "reaped"}
    BY DEF Places, Busy, Serving
  <2> QED
    BY <2>1 DEF HInv, CInv, ControlTypes
<1>4. got \in [Client -> Seq(Nat \union Client)]
  BY DEF PartsOK, Byte
<1> QED
  BY <1>1, <1>2, <1>3, <1>4 DEF PartsOK, TypesOK, ServerTypeOK

\* The types hold initially.
LEMMA InitTypes == Init => TypesOK
<1> SUFFICES ASSUME Init PROVE TypesOK
  OBVIOUS
<1>1. conn \in [Client -> Conns]
  BY NewInConns DEF Init
<1>2. buf \in [Worker -> Seq(Nat)] /\ got \in [Client -> Seq(Byte)]
  <2>1. <<>> \in Seq(Nat) /\ <<>> \in Seq(Byte)
    BY EmptySeq
  <2> QED
    BY <2>1 DEF Init
<1>3. /\ listeners \subseteq Worker /\ childProcCount \in Nat /\ ready \subseteq Port
      /\ running \in BOOLEAN /\ typed \in BOOLEAN /\ stopped \subseteq Worker
  BY DEF Init, Worker
<1>4. IsABag(counts) /\ inBuf \in Seq(Nat) /\ counted \in [Client -> -1 .. MAX_CANDIDATE]
  <2>1. CASE Kind = "vote"
    BY <2>1, InitVotes DEF VInv, VotesOK, TallyOK
  <2>2. CASE Kind # "vote"
    <3>1. inBuf = <<>> /\ counts = EarlierVotes
      BY <2>2 DEF Init
    <3>2. inBuf \in Seq(Nat) /\ IsABag(counts)
      BY <3>1, EmptySeq, ServersAssumption
    <3>3. -1 \in -1 .. MAX_CANDIDATE
      BY DEF MAX_CANDIDATE
    <3>4. counted \in [Client -> -1 .. MAX_CANDIDATE]
      BY <3>3 DEF Init
    <3> QED
      BY <3>2, <3>4
  <2> QED
    BY <2>1, <2>2
<1>5. status \in [Client -> Outcomes \union {"start", "connected", "reading"}]
  BY DEF Init
<1> QED
  BY <1>1, <1>2, <1>3, <1>4, <1>5, InitH, TypesFromParts DEF PartsOK

\* Every step keeps the types.
LEMMA NextKeepsTypes ==
  ASSUME HInv, SInv, HInv', SInv', VInv', TypesOK, [Next]_svars
  PROVE  TypesOK'
<1>1. conn' \in [Client -> Conns]
  BY NextKeepsConns
<1>2. buf' \in [Worker -> Seq(Nat)]
  BY NextKeepsBuffers
<1>3. /\ status' \in [Client -> Outcomes \union {"start", "connected", "reading"}]
      /\ got' \in [Client -> Seq(Byte)]
  BY NextKeepsClients
<1>4. /\ listeners' \subseteq Worker /\ childProcCount' \in Nat /\ ready' \subseteq Port'
      /\ running' \in BOOLEAN /\ typed' \in BOOLEAN /\ stopped' \subseteq Worker
  <2>1. Port' = Port
    BY ChosenOnce, SameProgram DEF Port, chosen
  <2> QED
    BY <2>1, NextKeepsLoop
<1>5. IsABag(counts') /\ inBuf' \in Seq(Nat) /\ counted' \in [Client -> -1 .. MAX_CANDIDATE]
  BY NextKeepsTally
<1>6. (ready \subseteq Port)' /\ IsABag(counts)'
  BY <1>4, <1>5
<1>7. PartsOK'
  BY <1>1, <1>2, <1>3, <1>4, <1>5, <1>6 DEF PartsOK
<1> QED
  BY <1>7, TypesFromParts, PTL

\* Every variable of the servers keeps its type: connections hold the bytes of requests
\* one way and of answers the other, workers are where their code takes them, processes
\* hold connections of clients, and votes go to candidates of counts[].
THEOREM TypesHold == Spec => []ServerTypeOK
<1>1. Init => HInv /\ SInv /\ VInv /\ TypesOK
  BY InitH, InitS, InitVotes, InitTypes
<1>2. (HInv /\ SInv /\ VInv /\ TypesOK) /\ [Next]_svars => (HInv /\ SInv /\ VInv /\ TypesOK)'
  BY NextKeepsH, NextKeepsS, NextKeepsVotes, NextKeepsTypes
<1>3. TypesOK => ServerTypeOK
  BY DEF TypesOK
<1> QED
  BY <1>1, <1>2, <1>3, PTL DEF Spec
=============================================================================
