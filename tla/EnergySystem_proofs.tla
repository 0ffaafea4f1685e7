------------------------ MODULE EnergySystem_proofs ------------------------
(***************************************************************************)
(* Proofs about EnergySystem, for any number of clients, slots and         *)
(* commands. First the refinement: whatever the clients do, each server    *)
(* runs as EnergyServer says it does among clients that keep to the        *)
(* protocol, so what EnergyServer_proofs shows of a server holds of SE and *)
(* of SCII. The invariant relates the variables of a client to what its    *)
(* two servers have told it, and bounds the messages under way by the      *)
(* commands typed (SysInv).                                                *)
(*                                                                         *)
(* Then what clients leave behind, in whatever order their users type: no  *)
(* server dies but of an answer to a client that has ended, and a client   *)
(* that ends in success has been removed. Both rest on a client that runs  *)
(* being out of a server's loop once it has closed its socket with it, and *)
(* knowing, or being about to be told, its entry in the table (PlaceInv).  *)
(* Then: SCII acts once, at most, for each state of the production that SE *)
(* gave (Balance). And what is shown of the reports of a server holds of   *)
(* those of SCII.                                                          *)
(***************************************************************************)
EXTENDS EnergySystem, TLAPS

AtSE == INSTANCE EnergyServer_proofs WITH
  server_type <- "SE", Levels <- Production, Resets <- TRUE,
  Requests <- {"REQ_INFOSE", "REQ_STATUS"}, MaxPending <- 2 * MaxCommands + 2,
  clients <- se_clients, next_client_id <- se_next_client_id,
  num_clients <- se_num_clients, active_fd_set <- se_active_fd_set,
  read_fd_set <- se_read_fd_set, latest <- se_latest,
  history_index <- se_history_index, fds <- se_fds, backlog <- se_backlog,
  conn <- se_conn, told <- se_told, running <- se_running

AtSCII == INSTANCE EnergyServer_proofs WITH
  server_type <- "SCII", Levels <- Consumption, Resets <- TRUE,
  Requests <- {"REQ_INFOSCII", "REQ_UP", "REQ_NONE", "REQ_DOWN"},
  MaxPending <- 2 * MaxCommands + 2,
  clients <- scii_clients, next_client_id <- scii_next_client_id,
  num_clients <- scii_num_clients, active_fd_set <- scii_active_fd_set,
  read_fd_set <- scii_read_fd_set, latest <- scii_latest,
  history_index <- scii_history_index, fds <- scii_fds, backlog <- scii_backlog,
  conn <- scii_conn, told <- scii_told, running <- scii_running

-----------------------------------------------------------------------------
(* The two servers are instances of EnergyServer and of the module with its *)
(* proofs: their definitions are the same.                                  *)

\* The values SE gives the constants are those its assumption admits.
LEMMA AssumptionAtSE ==
  /\ MAX_CLIENTS \in Nat \ {0} /\ HISTORY_SIZE \in Nat \ {0}
  /\ "SE" \in {"SE", "SCII"} /\ MaxFd \in Nat
  /\ Production \subseteq (IF "SE" = "SE" THEN 20 .. 50 ELSE 0 .. 100)
  /\ {"REQ_INFOSE", "REQ_STATUS"} \subseteq AtSE!RequestTypes
  /\ 2 * MaxCommands + 2 \in Nat
  /\ TRUE \in BOOLEAN
  /\ AtSE!IsFiniteSet(Client)
  BY SystemAssumption DEF AtSE!RequestTypes, IsFiniteSet, AtSE!IsFiniteSet

\* The messages and the connections of SE.
LEMMA NamesAtSE ==
  /\ \A c, e : AtSE!IsOpen(c, e) <=> IsOpen(c, e)
  /\ \A c, e : AtSE!HasData(c, e) <=> HasData(c, e)
  /\ \A c, e : AtSE!RaisesSigPipe(c, e) <=> RaisesSigPipe(c, e)
  /\ \A c, e : AtSE!Incoming(c, e) = Incoming(c, e)
  /\ \A c, e : AtSE!Received(c, e) = Received(c, e)
  /\ \A c, e, m : AtSE!Sent(c, e, m) = Sent(c, e, m)
  /\ \A t, a : AtSE!Msg(t, a) = Msg(t, a)
  /\ \A id : AtSE!REQ_REM(id) = REQ_REM(id)
  /\ AtSE!NoId = NoId /\ AtSE!StatusTypes = StatusTypes
  BY DEF AtSE!IsOpen, AtSE!HasData, AtSE!RaisesSigPipe, AtSE!Incoming, AtSE!Received, AtSE!Sent,
         AtSE!Msg, AtSE!REQ_REM, AtSE!NoId, AtSE!StatusTypes, AtSE!Peer, AtSE!SetData, AtSE!SetEnd,
         AtSE!ErrorReturned, IsOpen, HasData, RaisesSigPipe, Incoming, Received, Sent, Msg, REQ_REM,
         NoId, StatusTypes, Peer, SetData, SetEnd, ErrorReturned

\* What a client may do on its connection with SE, and what it finds there.
LEMMA ActionsAtSE ==
  /\ \A p : SE!PeerConnect(p) <=> AtSE!PeerConnect(p)
  /\ \A p, m : SE!PeerSends(p, m) <=> AtSE!PeerSends(p, m)
  /\ \A p : SE!PeerReceive(p) <=> AtSE!PeerReceive(p)
  /\ \A p, c : SE!PeerCloses(p, c) <=> AtSE!PeerCloses(p, c)
  /\ \A p : SE!Registered(p) <=> AtSE!Registered(p)
  BY DEF SE!PeerConnect, SE!PeerSends, SE!PeerReceive, SE!PeerCloses, SE!Registered, SE!registry,
         SE!history, SE!Idle, SE!Established, SE!sockets, SE!IsOpen, SE!Sent, SE!PeerReads,
         SE!Readable, SE!HasData, SE!Closings, SE!Slot, SE!NoId, SE!Ends, SE!Peer, SE!SetData,
         SE!SetEnd, SE!ErrorReturned, SE!AtReset, SE!Received, SE!Closed, AtSE!PeerConnect,
         AtSE!PeerSends, AtSE!PeerReceive, AtSE!PeerCloses, AtSE!Registered, AtSE!registry,
         AtSE!history, AtSE!Idle, AtSE!Established, AtSE!sockets, AtSE!IsOpen, AtSE!Sent,
         AtSE!PeerReads, AtSE!Readable, AtSE!HasData, AtSE!Closings, AtSE!Slot, AtSE!NoId,
         AtSE!Ends, AtSE!Peer, AtSE!SetData, AtSE!SetEnd, AtSE!ErrorReturned, AtSE!AtReset,
         AtSE!Received, AtSE!Closed

\* The steps of SE, and its first states.
LEMMA StepsAtSE ==
  /\ SE!Init <=> AtSE!Init
  /\ SE!ServerStep <=> AtSE!ServerStep
  /\ SE!PeerStep <=> AtSE!PeerStep
  BY DEF SE!Init, SE!ServerStep, SE!PeerStep, SE!server_socket, SE!Slot, SE!Idle, SE!NoId,
         SE!Select, SE!AcceptFails, SE!Refuse, SE!Admit, SE!Disconnect, SE!ReceiveError, SE!Remove,
         SE!RemoveUnknown, SE!Info, SE!Status, SE!Up, SE!None, SE!Down, SE!Echo, SE!PeerConnect,
         SE!PeerSend, SE!PeerReceive, SE!PeerClose, SE!PeerSendsLast, SE!Ends, SE!registry,
         SE!history, SE!sockets, SE!Ready, SE!Fd, SE!Serving, SE!AtLimit, SE!Sent, SE!Closings,
         SE!Msg, SE!IsFirst, SE!FreeSlot, SE!SocketSlot, SE!Link, SE!DropConnection, SE!AtEof,
         SE!AtReset, SE!Entry, SE!Answer, SE!Incoming, SE!AddValue, SE!RES_STATUS, SE!Known,
         SE!HasData, SE!Established, SE!PeerSends, SE!MaySend, SE!PeerReads, SE!IsOpen, SE!Readable,
         SE!PeerCloses, SE!Peer, SE!SetData, SE!SetEnd, SE!ErrorReturned, SE!Closed, SE!CloseFd,
         SE!Send, SE!Received, SE!Allowed, SE!RaisesSigPipe, SE!REQ_REM, AtSE!Init, AtSE!ServerStep,
         AtSE!PeerStep, AtSE!server_socket, AtSE!Slot, AtSE!Idle, AtSE!NoId, AtSE!Select,
         AtSE!AcceptFails, AtSE!Refuse, AtSE!Admit, AtSE!Disconnect, AtSE!ReceiveError, AtSE!Remove,
         AtSE!RemoveUnknown, AtSE!Info, AtSE!Status, AtSE!Up, AtSE!None, AtSE!Down, AtSE!Echo,
         AtSE!PeerConnect, AtSE!PeerSend, AtSE!PeerReceive, AtSE!PeerClose, AtSE!PeerSendsLast,
         AtSE!Ends, AtSE!registry, AtSE!history, AtSE!sockets, AtSE!Ready, AtSE!Fd, AtSE!Serving,
         AtSE!AtLimit, AtSE!Sent, AtSE!Closings, AtSE!Msg, AtSE!IsFirst, AtSE!FreeSlot,
         AtSE!SocketSlot, AtSE!Link, AtSE!DropConnection, AtSE!AtEof, AtSE!AtReset, AtSE!Entry,
         AtSE!Answer, AtSE!Incoming, AtSE!AddValue, AtSE!RES_STATUS, AtSE!Known, AtSE!HasData,
         AtSE!Established, AtSE!PeerSends, AtSE!MaySend, AtSE!PeerReads, AtSE!IsOpen, AtSE!Readable,
         AtSE!PeerCloses, AtSE!Peer, AtSE!SetData, AtSE!SetEnd, AtSE!ErrorReturned, AtSE!Closed,
         AtSE!CloseFd, AtSE!Send, AtSE!Received, AtSE!Allowed, AtSE!RaisesSigPipe, AtSE!REQ_REM

\* The values SCII gives the constants are those its assumption admits.
LEMMA AssumptionAtSCII ==
  /\ MAX_CLIENTS \in Nat \ {0} /\ HISTORY_SIZE \in Nat \ {0}
  /\ "SCII" \in {"SE", "SCII"} /\ MaxFd \in Nat
  /\ Consumption \subseteq (IF "SCII" = "SE" THEN 20 .. 50 ELSE 0 .. 100)
  /\ {"REQ_INFOSCII", "REQ_UP", "REQ_NONE", "REQ_DOWN"} \subseteq AtSCII!RequestTypes
  /\ 2 * MaxCommands + 2 \in Nat
  /\ TRUE \in BOOLEAN
  /\ AtSCII!IsFiniteSet(Client)
  BY SystemAssumption DEF AtSCII!RequestTypes, IsFiniteSet, AtSCII!IsFiniteSet

\* The messages and the connections of SCII.
LEMMA NamesAtSCII ==
  /\ \A c, e : AtSCII!IsOpen(c, e) <=> IsOpen(c, e)
  /\ \A c, e : AtSCII!HasData(c, e) <=> HasData(c, e)
  /\ \A c, e : AtSCII!RaisesSigPipe(c, e) <=> RaisesSigPipe(c, e)
  /\ \A c, e : AtSCII!Incoming(c, e) = Incoming(c, e)
  /\ \A c, e : AtSCII!Received(c, e) = Received(c, e)
  /\ \A c, e, m : AtSCII!Sent(c, e, m) = Sent(c, e, m)
  /\ \A t, a : AtSCII!Msg(t, a) = Msg(t, a)
  /\ \A id : AtSCII!REQ_REM(id) = REQ_REM(id)
  /\ AtSCII!NoId = NoId /\ AtSCII!StatusTypes = StatusTypes
  BY DEF AtSCII!IsOpen, AtSCII!HasData, AtSCII!RaisesSigPipe, AtSCII!Incoming, AtSCII!Received,
         AtSCII!Sent, AtSCII!Msg, AtSCII!REQ_REM, AtSCII!NoId, AtSCII!StatusTypes, AtSCII!Peer,
         AtSCII!SetData, AtSCII!SetEnd, AtSCII!ErrorReturned, IsOpen, HasData, RaisesSigPipe,
         Incoming, Received, Sent, Msg, REQ_REM, NoId, StatusTypes, Peer, SetData, SetEnd,
         ErrorReturned

\* What a client may do on its connection with SCII, and what it finds there.
LEMMA ActionsAtSCII ==
  /\ \A p : SCII!PeerConnect(p) <=> AtSCII!PeerConnect(p)
  /\ \A p, m : SCII!PeerSends(p, m) <=> AtSCII!PeerSends(p, m)
  /\ \A p : SCII!PeerReceive(p) <=> AtSCII!PeerReceive(p)
  /\ \A p, c : SCII!PeerCloses(p, c) <=> AtSCII!PeerCloses(p, c)
  /\ \A p : SCII!Registered(p) <=> AtSCII!Registered(p)
  BY DEF SCII!PeerConnect, SCII!PeerSends, SCII!PeerReceive, SCII!PeerCloses, SCII!Registered,
         SCII!registry, SCII!history, SCII!Idle, SCII!Established, SCII!sockets, SCII!IsOpen,
         SCII!Sent, SCII!PeerReads, SCII!Readable, SCII!HasData, SCII!Closings, SCII!Slot,
         SCII!NoId, SCII!Ends, SCII!Peer, SCII!SetData, SCII!SetEnd, SCII!ErrorReturned,
         SCII!AtReset, SCII!Received, SCII!Closed, AtSCII!PeerConnect, AtSCII!PeerSends,
         AtSCII!PeerReceive, AtSCII!PeerCloses, AtSCII!Registered, AtSCII!registry, AtSCII!history,
         AtSCII!Idle, AtSCII!Established, AtSCII!sockets, AtSCII!IsOpen, AtSCII!Sent,
         AtSCII!PeerReads, AtSCII!Readable, AtSCII!HasData, AtSCII!Closings, AtSCII!Slot,
         AtSCII!NoId, AtSCII!Ends, AtSCII!Peer, AtSCII!SetData, AtSCII!SetEnd, AtSCII!ErrorReturned,
         AtSCII!AtReset, AtSCII!Received, AtSCII!Closed

\* The steps of SCII, and its first states.
LEMMA StepsAtSCII ==
  /\ SCII!Init <=> AtSCII!Init
  /\ SCII!ServerStep <=> AtSCII!ServerStep
  /\ SCII!PeerStep <=> AtSCII!PeerStep
  BY DEF SCII!Init, SCII!ServerStep, SCII!PeerStep, SCII!server_socket, SCII!Slot, SCII!Idle,
         SCII!NoId, SCII!Select, SCII!AcceptFails, SCII!Refuse, SCII!Admit, SCII!Disconnect,
         SCII!ReceiveError, SCII!Remove, SCII!RemoveUnknown, SCII!Info, SCII!Status, SCII!Up,
         SCII!None, SCII!Down, SCII!Echo, SCII!PeerConnect, SCII!PeerSend, SCII!PeerReceive,
         SCII!PeerClose, SCII!PeerSendsLast, SCII!Ends, SCII!registry, SCII!history, SCII!sockets,
         SCII!Ready, SCII!Fd, SCII!Serving, SCII!AtLimit, SCII!Sent, SCII!Closings, SCII!Msg,
         SCII!IsFirst, SCII!FreeSlot, SCII!SocketSlot, SCII!Link, SCII!DropConnection, SCII!AtEof,
         SCII!AtReset, SCII!Entry, SCII!Answer, SCII!Incoming, SCII!AddValue, SCII!RES_STATUS,
         SCII!Known, SCII!HasData, SCII!Established, SCII!PeerSends, SCII!MaySend, SCII!PeerReads,
         SCII!IsOpen, SCII!Readable, SCII!PeerCloses, SCII!Peer, SCII!SetData, SCII!SetEnd,
         SCII!ErrorReturned, SCII!Closed, SCII!CloseFd, SCII!Send, SCII!Received, SCII!Allowed,
         SCII!RaisesSigPipe, SCII!REQ_REM, AtSCII!Init, AtSCII!ServerStep, AtSCII!PeerStep,
         AtSCII!server_socket, AtSCII!Slot, AtSCII!Idle, AtSCII!NoId, AtSCII!Select,
         AtSCII!AcceptFails, AtSCII!Refuse, AtSCII!Admit, AtSCII!Disconnect, AtSCII!ReceiveError,
         AtSCII!Remove, AtSCII!RemoveUnknown, AtSCII!Info, AtSCII!Status, AtSCII!Up, AtSCII!None,
         AtSCII!Down, AtSCII!Echo, AtSCII!PeerConnect, AtSCII!PeerSend, AtSCII!PeerReceive,
         AtSCII!PeerClose, AtSCII!PeerSendsLast, AtSCII!Ends, AtSCII!registry, AtSCII!history,
         AtSCII!sockets, AtSCII!Ready, AtSCII!Fd, AtSCII!Serving, AtSCII!AtLimit, AtSCII!Sent,
         AtSCII!Closings, AtSCII!Msg, AtSCII!IsFirst, AtSCII!FreeSlot, AtSCII!SocketSlot,
         AtSCII!Link, AtSCII!DropConnection, AtSCII!AtEof, AtSCII!AtReset, AtSCII!Entry,
         AtSCII!Answer, AtSCII!Incoming, AtSCII!AddValue, AtSCII!RES_STATUS, AtSCII!Known,
         AtSCII!HasData, AtSCII!Established, AtSCII!PeerSends, AtSCII!MaySend, AtSCII!PeerReads,
         AtSCII!IsOpen, AtSCII!Readable, AtSCII!PeerCloses, AtSCII!Peer, AtSCII!SetData,
         AtSCII!SetEnd, AtSCII!ErrorReturned, AtSCII!Closed, AtSCII!CloseFd, AtSCII!Send,
         AtSCII!Received, AtSCII!Allowed, AtSCII!RaisesSigPipe, AtSCII!REQ_REM

-----------------------------------------------------------------------------
(* What the steps of a client are at either server. *)

\* What a step of client p may be at SE: a step of a client there, or nothing, which
\* sends some of the messages N, and n more than it reads.
SEDoes(p, N, n) ==
  /\ AtSE!PeerStep \/ UNCHANGED se_vars
  /\ AtSE!ClientMoves(p, N, n)

\* Nothing.
LEMMA RestsAtSE ==
  ASSUME AtSE!IInv, NEW p \in Client, UNCHANGED se_vars
  PROVE  SEDoes(p, {}, 0) /\ se_conn'[p] = se_conn[p]
<1>1. UNCHANGED AtSE!vars
  BY DEF se_vars, AtSE!vars, AtSE!registry, AtSE!history, AtSE!sockets
<1> QED
  BY <1>1, AssumptionAtSE, AtSE!RestMoves DEF SEDoes

\* connect().
LEMMA ConnectsAtSE ==
  ASSUME AtSE!IInv, NEW p \in Client, SE!PeerConnect(p)
  PROVE  SEDoes(p, {}, 0) /\ SEOpen(p)' /\ se_told[p] = NoId
<1>1. AtSE!PeerConnect(p)
  BY ActionsAtSE
<1>2. AtSE!PeerStep
  BY <1>1 DEF AtSE!PeerStep
<1>3. /\ AtSE!ClientMoves(p, {}, 0) /\ AtSE!IsOpen(se_conn'[p], "client")
      /\ se_told[p] = AtSE!NoId
      /\ AtSE!Carried(se_conn'[p]) = 0
  BY <1>1, AssumptionAtSE, AtSE!ConnectMoves
<1> QED
  BY <1>2, <1>3, NamesAtSE DEF SEDoes, SEOpen

\* send() of a message that the client may send.
LEMMA SendsAtSE ==
  ASSUME AtSE!IInv, NEW p \in Client, NEW m \in AtSE!Allowed(p),
         AtSE!Load(p) < 2 * MaxCommands + 2, SE!PeerSends(p, m)
  PROVE  /\ SEDoes(p, {m}, 1) /\ SEOpen(p) /\ SEOpen(p)'
         /\ se_conn'[p]["server"].data = se_conn[p]["server"].data
<1>1. AtSE!PeerSends(p, m)
  BY ActionsAtSE
<1>2. /\ AtSE!PeerStep /\ AtSE!ClientMoves(p, {m}, 1)
      /\ AtSE!IsOpen(se_conn[p], "client") /\ AtSE!IsOpen(se_conn'[p], "client")
      /\ se_conn'[p]["server"].data = se_conn[p]["server"].data
  BY <1>1, AssumptionAtSE, AtSE!SendIsStep
<1> QED
  BY <1>2, NamesAtSE DEF SEDoes, SEOpen

\* close() right after it.
LEMMA SendsLastAtSE ==
  ASSUME AtSE!IInv, NEW p \in Client, NEW m \in AtSE!Allowed(p),
         AtSE!Load(p) < 2 * MaxCommands + 2,
         NEW c \in Sent(se_conn[p], "client", m), SE!PeerCloses(p, c)
  PROVE  SEDoes(p, {m}, 1) /\ ~SEOpen(p)'
<1>1. c \in AtSE!Sent(se_conn[p], "client", m) /\ AtSE!PeerCloses(p, c)
  BY ActionsAtSE, NamesAtSE
<1>2. /\ AtSE!PeerStep /\ AtSE!ClientMoves(p, {m}, 1)
      /\ ~AtSE!IsOpen(se_conn'[p], "client")
  BY <1>1, AssumptionAtSE, AtSE!LastSendIsStep
<1> QED
  BY <1>2, NamesAtSE DEF SEDoes, SEOpen

\* recv().
LEMMA ReceivesAtSE ==
  ASSUME AtSE!IInv, NEW p \in Client, SE!PeerReceive(p)
  PROVE  /\ SEDoes(p, {}, 0) /\ SEOpen(p) /\ SEOpen(p)'
         /\ HasData(se_conn[p], "client") => SEDoes(p, {}, -1)
         /\ ~HasData(se_conn[p], "client") => se_conn'[p]["server"].data = <<>>
<1>1. AtSE!PeerReceive(p)
  BY ActionsAtSE
<1>2. AtSE!PeerStep
  BY <1>1 DEF AtSE!PeerStep
<1>3. /\ AtSE!ClientMoves(p, {}, 0)
      /\ AtSE!HasData(se_conn[p], "client") => AtSE!ClientMoves(p, {}, -1)
      /\ ~AtSE!HasData(se_conn[p], "client") => se_conn'[p]["server"].data = <<>>
      /\ AtSE!IsOpen(se_conn[p], "client") /\ AtSE!IsOpen(se_conn'[p], "client")
  BY <1>1, AssumptionAtSE, AtSE!ReceiveMoves
<1> QED
  BY <1>2, <1>3, NamesAtSE DEF SEDoes, SEOpen

\* close(), perhaps with the message in hand that the step has read.
LEMMA ClosesAtSE ==
  ASSUME AtSE!IInv, NEW p \in Client,
         NEW c \in {se_conn[p]} \union Received(se_conn[p], "client"), SE!PeerCloses(p, c)
  PROVE  SEDoes(p, {}, 0) /\ ~SEOpen(p)'
<1>1. c \in {se_conn[p]} \union AtSE!Received(se_conn[p], "client") /\ AtSE!PeerCloses(p, c)
  BY ActionsAtSE, NamesAtSE
<1>2. /\ AtSE!PeerStep /\ AtSE!ClientMoves(p, {}, 0)
      /\ ~AtSE!IsOpen(se_conn'[p], "client")
  BY <1>1, AssumptionAtSE, AtSE!CloseIsStep
<1> QED
  BY <1>2, NamesAtSE DEF SEDoes, SEOpen

\* What a step of client p may be at SCII: a step of a client there, or nothing, which
\* sends some of the messages N, and n more than it reads.
SCIIDoes(p, N, n) ==
  /\ AtSCII!PeerStep \/ UNCHANGED scii_vars
  /\ AtSCII!ClientMoves(p, N, n)

\* Nothing.
LEMMA RestsAtSCII ==
  ASSUME AtSCII!IInv, NEW p \in Client, UNCHANGED scii_vars
  PROVE  SCIIDoes(p, {}, 0) /\ scii_conn'[p] = scii_conn[p]
<1>1. UNCHANGED AtSCII!vars
  BY DEF scii_vars, AtSCII!vars, AtSCII!registry, AtSCII!history, AtSCII!sockets
<1> QED
  BY <1>1, AssumptionAtSCII, AtSCII!RestMoves DEF SCIIDoes

\* connect().
LEMMA ConnectsAtSCII ==
  ASSUME AtSCII!IInv, NEW p \in Client, SCII!PeerConnect(p)
  PROVE  SCIIDoes(p, {}, 0) /\ SCIIOpen(p)' /\ scii_told[p] = NoId
<1>1. AtSCII!PeerConnect(p)
  BY ActionsAtSCII
<1>2. AtSCII!PeerStep
  BY <1>1 DEF AtSCII!PeerStep
<1>3. /\ AtSCII!ClientMoves(p, {}, 0) /\ AtSCII!IsOpen(scii_conn'[p], "client")
      /\ scii_told[p] = AtSCII!NoId
      /\ AtSCII!Carried(scii_conn'[p]) = 0
  BY <1>1, AssumptionAtSCII, AtSCII!ConnectMoves
<1> QED
  BY <1>2, <1>3, NamesAtSCII DEF SCIIDoes, SCIIOpen

\* send() of a message that the client may send.
LEMMA SendsAtSCII ==
  ASSUME AtSCII!IInv, NEW p \in Client, NEW m \in AtSCII!Allowed(p),
         AtSCII!Load(p) < 2 * MaxCommands + 2, SCII!PeerSends(p, m)
  PROVE  /\ SCIIDoes(p, {m}, 1) /\ SCIIOpen(p) /\ SCIIOpen(p)'
         /\ scii_conn'[p]["server"].data = scii_conn[p]["server"].data
<1>1. AtSCII!PeerSends(p, m)
  BY ActionsAtSCII
<1>2. /\ AtSCII!PeerStep /\ AtSCII!ClientMoves(p, {m}, 1)
      /\ AtSCII!IsOpen(scii_conn[p], "client") /\ AtSCII!IsOpen(scii_conn'[p], "client")
      /\ scii_conn'[p]["server"].data = scii_conn[p]["server"].data
  BY <1>1, AssumptionAtSCII, AtSCII!SendIsStep
<1> QED
  BY <1>2, NamesAtSCII DEF SCIIDoes, SCIIOpen

\* recv().
LEMMA ReceivesAtSCII ==
  ASSUME AtSCII!IInv, NEW p \in Client, SCII!PeerReceive(p)
  PROVE  /\ SCIIDoes(p, {}, 0) /\ SCIIOpen(p) /\ SCIIOpen(p)'
         /\ HasData(scii_conn[p], "client") => SCIIDoes(p, {}, -1)
         /\ ~HasData(scii_conn[p], "client") => scii_conn'[p]["server"].data = <<>>
<1>1. AtSCII!PeerReceive(p)
  BY ActionsAtSCII
<1>2. AtSCII!PeerStep
  BY <1>1 DEF AtSCII!PeerStep
<1>3. /\ AtSCII!ClientMoves(p, {}, 0)
      /\ AtSCII!HasData(scii_conn[p], "client") => AtSCII!ClientMoves(p, {}, -1)
      /\ ~AtSCII!HasData(scii_conn[p], "client") => scii_conn'[p]["server"].data = <<>>
      /\ AtSCII!IsOpen(scii_conn[p], "client") /\ AtSCII!IsOpen(scii_conn'[p], "client")
  BY <1>1, AssumptionAtSCII, AtSCII!ReceiveMoves
<1> QED
  BY <1>2, <1>3, NamesAtSCII DEF SCIIDoes, SCIIOpen

\* close(), perhaps with the message in hand that the step has read.
LEMMA ClosesAtSCII ==
  ASSUME AtSCII!IInv, NEW p \in Client,
         NEW c \in {scii_conn[p]} \union Received(scii_conn[p], "client"), SCII!PeerCloses(p, c)
  PROVE  SCIIDoes(p, {}, 0) /\ ~SCIIOpen(p)'
<1>1. c \in {scii_conn[p]} \union AtSCII!Received(scii_conn[p], "client") /\ AtSCII!PeerCloses(p, c)
  BY ActionsAtSCII, NamesAtSCII
<1>2. /\ AtSCII!PeerStep /\ AtSCII!ClientMoves(p, {}, 0)
      /\ ~AtSCII!IsOpen(scii_conn'[p], "client")
  BY <1>1, AssumptionAtSCII, AtSCII!CloseIsStep
<1> QED
  BY <1>2, NamesAtSCII DEF SCIIDoes, SCIIOpen

-----------------------------------------------------------------------------
(* What the clients' own variables say of the connections. *)

\* Where a client process may be.
Statuses == {"start", "connected to SE", "running"} \union Exits

\* The variables of the client processes have the values the program gives them.
ClientTypes ==
  /\ typed \in 0 .. MaxCommands
  /\ status \in [Client -> Statuses]
  /\ se_client_id \in [Client -> Int]
  /\ scii_client_id \in [Client -> Int]
  /\ read_fds \in [Client -> SUBSET {"stdin", "se", "scii"}]

\* A client knows no identifier but those it was told.
KnowsItsIds(p) ==
  /\ se_client_id[p] \in {NoId, se_told[p]}
  /\ scii_client_id[p] \in {NoId, scii_told[p]}

\* A command makes at most two messages, and every other message of the client answers
\* one that it has read.
Typing(p) == IF "stdin" \in read_fds[p] THEN 2 ELSE 0
WithinBudget(p) == AtSE!Load(p) + AtSCII!Load(p) + Typing(p) <= 2 * typed + 2

SysInv ==
  /\ AtSE!XInv
  /\ AtSCII!XInv
  /\ ClientTypes
  /\ \A p \in Client : KnowsItsIds(p) /\ WithinBudget(p)

\* What SysInv says of one client, in numbers.
LEMMA LoadsAreCounted ==
  ASSUME SysInv, NEW p \in Client
  PROVE  /\ AtSE!IInv /\ AtSCII!IInv
         /\ AtSE!Load(p) \in Nat /\ AtSCII!Load(p) \in Nat
         /\ Typing(p) \in {0, 2} /\ MaxCommands \in Nat /\ typed \in Nat
         /\ AtSE!Load(p) + AtSCII!Load(p) + Typing(p) <= 2 * MaxCommands + 2
         /\ HasData(se_conn[p], "client") => AtSE!Load(p) >= 1
         /\ HasData(scii_conn[p], "client") => AtSCII!Load(p) >= 1
<1>1. AtSE!IInv /\ AtSCII!IInv
  BY DEF SysInv, AtSE!XInv, AtSE!TInv, AtSCII!XInv, AtSCII!TInv
<1>2. /\ AtSE!Load(p) \in Nat
      /\ AtSE!HasData(se_conn[p], "client") => AtSE!Load(p) >= 1
  BY <1>1, AssumptionAtSE, AtSE!LoadCounts
<1>3. /\ AtSCII!Load(p) \in Nat
      /\ AtSCII!HasData(scii_conn[p], "client") => AtSCII!Load(p) >= 1
  BY <1>1, AssumptionAtSCII, AtSCII!LoadCounts
<1>4. Typing(p) \in {0, 2} /\ MaxCommands \in Nat /\ typed \in 0 .. MaxCommands
  BY SystemAssumption DEF Typing, SysInv, ClientTypes
<1>5. AtSE!Load(p) + AtSCII!Load(p) + Typing(p) <= 2 * typed + 2
  BY DEF SysInv, WithinBudget
<1> QED
  BY <1>1, <1>2, <1>3, <1>4, <1>5, NamesAtSE, NamesAtSCII

\* A step of client p: what it is at SE, and what it is at SCII.
Does(p, NS, ns, NC, nc) == SEDoes(p, NS, ns) /\ SCIIDoes(p, NC, nc)

\* The process ends.
LEMMA ExitDoes ==
  ASSUME SysInv, NEW p \in Client, NEW how,
         NEW se \in {se_conn[p]} \union Received(se_conn[p], "client"),
         NEW scii \in {scii_conn[p]} \union Received(scii_conn[p], "client"),
         Exit(p, how, se, scii)
  PROVE  Does(p, {}, 0, {}, 0) /\ ~SEOpen(p)' /\ ~SCIIOpen(p)'
<1>1. AtSE!IInv /\ AtSCII!IInv
  BY LoadsAreCounted
<1>2. SEDoes(p, {}, 0) /\ ~SEOpen(p)'
  <2>1. CASE SEOpen(p)
    BY <1>1, <2>1, ClosesAtSE DEF Exit
  <2>2. CASE ~SEOpen(p)
    BY <1>1, <2>2, RestsAtSE DEF Exit, SEOpen
  <2> QED
    BY <2>1, <2>2
<1>3. SCIIDoes(p, {}, 0) /\ ~SCIIOpen(p)'
  <2>1. CASE SCIIOpen(p)
    BY <1>1, <2>1, ClosesAtSCII DEF Exit
  <2>2. CASE ~SCIIOpen(p)
    BY <1>1, <2>2, RestsAtSCII DEF Exit, SCIIOpen
  <2> QED
    BY <2>1, <2>2
<1> QED
  BY <1>2, <1>3 DEF Does

\* Nothing is sent, or anything to nobody.
LEMMA RestDoes ==
  ASSUME SysInv, NEW p \in Client, UNCHANGED <<se_vars, scii_vars>>
  PROVE  /\ Does(p, {}, 0, {}, 0)
         /\ se_conn'[p] = se_conn[p] /\ scii_conn'[p] = scii_conn[p]
<1>1. AtSE!IInv /\ AtSCII!IInv
  BY LoadsAreCounted
<1> QED
  BY <1>1, RestsAtSE, RestsAtSCII DEF Does

\* What the client has been told at SE, or will be, is as it was; and the same at SCII.
SEStays(p) ==
  \/ se_conn'[p] = se_conn[p]
  \/ SEOpen(p)' /\ se_conn'[p]["server"].data = se_conn[p]["server"].data
SCIIStays(p) ==
  \/ scii_conn'[p] = scii_conn[p]
  \/ SCIIOpen(p)' /\ scii_conn'[p]["server"].data = scii_conn[p]["server"].data

\* The process goes on, or ends without success.
GoesOn(p) == UNCHANGED status /\ SEStays(p) /\ SCIIStays(p)
Fails(p) == \E how \in Exits \ {"success"} : status' = [status EXCEPT ![p] = how]

\* A step that sends less does not send more.
LEMMA DoesMore ==
  ASSUME SysInv, NEW p \in Client, NEW NS, NEW NC, NEW ns \in Int, NEW nc \in Int,
         NEW MS, NEW MC, NEW ms \in Int, NEW mc \in Int,
         Does(p, NS, ns, NC, nc), NS \subseteq MS, NC \subseteq MC, ns <= ms, nc <= mc
  PROVE  Does(p, MS, ms, MC, mc)
<1>1. AtSE!IInv /\ AtSCII!IInv
  BY LoadsAreCounted
<1>2. AtSE!ClientMoves(p, NS, ns) /\ AtSCII!ClientMoves(p, NC, nc)
  BY DEF Does, SEDoes, SCIIDoes
<1>3. AtSE!ClientMoves(p, MS, ms)
  BY <1>1, <1>2, AssumptionAtSE, AtSE!MovesMore
<1>4. AtSCII!ClientMoves(p, MC, mc)
  BY <1>1, <1>2, AssumptionAtSCII, AtSCII!MovesMore
<1> QED
  BY <1>3, <1>4 DEF Does, SEDoes, SCIIDoes

\* The user has typed a command: both servers have room for a message.
LEMMA RoomForCommand ==
  ASSUME SysInv, NEW p \in Client, "stdin" \in read_fds[p]
  PROVE  /\ AtSE!Load(p) < 2 * MaxCommands + 2
         /\ AtSCII!Load(p) < 2 * MaxCommands + 2
<1>1. Typing(p) = 2
  BY DEF Typing
<1>2. \A x, y, z \in Nat : x + y + 2 <= 2 * z + 2 => x < 2 * z + 2 /\ y < 2 * z + 2
  OBVIOUS
<1> QED
  BY <1>1, <1>2, LoadsAreCounted

\* One message goes to SE, or the process ends.
LEMMA SendSEDoes ==
  ASSUME SysInv, NEW p \in Client, "stdin" \in read_fds[p], NEW m \in AtSE!Allowed(p),
         SendSE(p, m)
  PROVE  /\ Does(p, {m}, 1, {}, 0)
         /\ GoesOn(p) \/ Fails(p)
<1>1. AtSE!IInv /\ AtSCII!IInv /\ AtSE!Load(p) < 2 * MaxCommands + 2
  BY LoadsAreCounted, RoomForCommand
<1>2. CASE SE!PeerSends(p, m) /\ UNCHANGED <<scii_vars, status>>
  BY <1>1, <1>2, SendsAtSE, RestsAtSCII DEF Does, GoesOn, SEStays, SCIIStays
<1>3. CASE Exit(p, "sigpipe", se_conn[p], scii_conn[p])
  <2>1. Does(p, {}, 0, {}, 0)
    BY <1>3, ExitDoes
  <2>2. 0 \in Int /\ 1 \in Int /\ 0 <= 1 /\ 0 <= 0 /\ {} \subseteq {m} /\ {} \subseteq {}
    OBVIOUS
  <2>3. Does(p, {m}, 1, {}, 0)
    BY <2>1, <2>2, DoesMore
  <2> QED
    BY <1>3, <2>3 DEF Exit, Fails, Exits
<1> QED
  BY <1>2, <1>3 DEF SendSE

\* One message goes to SCII, or the process ends.
LEMMA SendSCIIDoes ==
  ASSUME SysInv, NEW p \in Client, "stdin" \in read_fds[p], NEW m \in AtSCII!Allowed(p),
         SendSCII(p, m)
  PROVE  /\ Does(p, {}, 0, {m}, 1)
         /\ GoesOn(p) \/ Fails(p)
<1>1. AtSE!IInv /\ AtSCII!IInv /\ AtSCII!Load(p) < 2 * MaxCommands + 2
  BY LoadsAreCounted, RoomForCommand
<1>2. CASE SCII!PeerSends(p, m) /\ UNCHANGED <<se_vars, status>>
  BY <1>1, <1>2, SendsAtSCII, RestsAtSE DEF Does, GoesOn, SEStays, SCIIStays
<1>3. CASE Exit(p, "sigpipe", se_conn[p], scii_conn[p])
  <2>1. Does(p, {}, 0, {}, 0)
    BY <1>3, ExitDoes
  <2>2. 0 \in Int /\ 1 \in Int /\ 0 <= 1 /\ 0 <= 0 /\ {} \subseteq {m} /\ {} \subseteq {}
    OBVIOUS
  <2>3. Does(p, {}, 0, {m}, 1)
    BY <2>1, <2>2, DoesMore
  <2> QED
    BY <1>3, <2>3 DEF Exit, Fails, Exits
<1> QED
  BY <1>2, <1>3 DEF SendSCII

\* The removal that kill asks of a server names the identifier that server gave.
LEMMA RemovalsAreAllowed ==
  ASSUME SysInv, NEW p \in Client
  PROVE  /\ se_client_id[p] # NoId => RemovalAtSE(p) \in AtSE!Allowed(p)
         /\ scii_client_id[p] # NoId => RemovalAtSCII(p) \in AtSCII!Allowed(p)
<1>1. KnowsItsIds(p)
  BY DEF SysInv
<1>2. ASSUME se_client_id[p] # NoId
      PROVE  RemovalAtSE(p) \in AtSE!Allowed(p)
  <2>1. se_told[p] = se_client_id[p]
    BY <1>1, <1>2 DEF KnowsItsIds
  <2> QED
    BY <1>2, <2>1, NamesAtSE DEF RemovalAtSE, AtSE!Allowed
<1>3. ASSUME scii_client_id[p] # NoId
      PROVE  RemovalAtSCII(p) \in AtSCII!Allowed(p)
  <2>1. scii_told[p] = scii_client_id[p]
    BY <1>1, <1>3 DEF KnowsItsIds
  <2> QED
    BY <1>3, <2>1, NamesAtSCII DEF RemovalAtSCII, AtSCII!Allowed
<1> QED
  BY <1>2, <1>3

\* kill: one removal for each server whose identifier is known.
LEMMA KillDoes ==
  ASSUME SysInv, NEW p \in Client, Kill(p)
  PROVE  /\ Does(p, {RemovalAtSE(p)}, 1, {RemovalAtSCII(p)}, 1)
         /\ GoesOn(p) \/ Fails(p)
<1> DEFINE s == RemovalAtSE(p)
           c == RemovalAtSCII(p)
<1>1. "stdin" \in read_fds[p]
  BY DEF Kill, Command, GoesThrough
<1>2. /\ AtSE!IInv /\ AtSCII!IInv
      /\ AtSE!Load(p) < 2 * MaxCommands + 2 /\ AtSCII!Load(p) < 2 * MaxCommands + 2
  BY <1>1, LoadsAreCounted, RoomForCommand
<1>3. /\ se_client_id[p] # NoId => s \in AtSE!Allowed(p)
      /\ scii_client_id[p] # NoId => c \in AtSCII!Allowed(p)
  BY RemovalsAreAllowed
<1>4. /\ 0 \in Int /\ 1 \in Int /\ 0 <= 1 /\ 1 <= 1
      /\ {} \subseteq {s} /\ {} \subseteq {c} /\ {s} \subseteq {s} /\ {c} \subseteq {c}
  OBVIOUS
<1>5. \/ se_client_id[p] = NoId /\ scii_client_id[p] = NoId /\ UNCHANGED <<se_vars, scii_vars, status>>
      \/ se_client_id[p] # NoId /\ SendSE(p, s)
      \/ scii_client_id[p] # NoId /\ SendSCII(p, c)
      \/ /\ se_client_id[p] # NoId /\ scii_client_id[p] # NoId
         /\ SE!PeerSends(p, s) /\ SCII!PeerSends(p, c) /\ UNCHANGED status
      \/ Exit(p, "sigpipe", se_conn[p], scii_conn[p])
      \/ /\ se_client_id[p] # NoId /\ scii_client_id[p] # NoId
         /\ status' = [status EXCEPT ![p] = "sigpipe"]
         /\ \E d \in Sent(se_conn[p], "client", s) : SE!PeerCloses(p, d)
         /\ SCII!PeerCloses(p, scii_conn[p])
  BY DEF Kill
<1> HIDE DEF s, c
<1>6. CASE UNCHANGED <<se_vars, scii_vars, status>>
  <2>1. Does(p, {}, 0, {}, 0) /\ se_conn'[p] = se_conn[p] /\ scii_conn'[p] = scii_conn[p]
    BY <1>6, RestDoes
  <2>2. Does(p, {s}, 1, {c}, 1)
    BY <1>4, <2>1, DoesMore
  <2> QED
    BY <1>6, <2>1, <2>2 DEF s, c, GoesOn, SEStays, SCIIStays
<1>7. CASE se_client_id[p] # NoId /\ SendSE(p, s)
  <2>1. /\ Does(p, {s}, 1, {}, 0)
        /\ GoesOn(p) \/ Fails(p)
    BY <1>1, <1>3, <1>7, SendSEDoes
  <2>2. Does(p, {s}, 1, {c}, 1)
    BY <1>4, <2>1, DoesMore
  <2> QED
    BY <2>1, <2>2 DEF s, c
<1>8. CASE scii_client_id[p] # NoId /\ SendSCII(p, c)
  <2>1. /\ Does(p, {}, 0, {c}, 1)
        /\ GoesOn(p) \/ Fails(p)
    BY <1>1, <1>3, <1>8, SendSCIIDoes
  <2>2. Does(p, {s}, 1, {c}, 1)
    BY <1>4, <2>1, DoesMore
  <2> QED
    BY <2>1, <2>2 DEF s, c
<1>9. CASE /\ se_client_id[p] # NoId /\ scii_client_id[p] # NoId
           /\ SE!PeerSends(p, s) /\ SCII!PeerSends(p, c) /\ UNCHANGED status
  <2>1. /\ SEDoes(p, {s}, 1) /\ SEOpen(p)'
        /\ se_conn'[p]["server"].data = se_conn[p]["server"].data
    BY <1>2, <1>3, <1>9, SendsAtSE
  <2>2. /\ SCIIDoes(p, {c}, 1) /\ SCIIOpen(p)'
        /\ scii_conn'[p]["server"].data = scii_conn[p]["server"].data
    BY <1>2, <1>3, <1>9, SendsAtSCII
  <2> QED
    BY <1>9, <2>1, <2>2 DEF Does, s, c, GoesOn, SEStays, SCIIStays
<1>10. CASE Exit(p, "sigpipe", se_conn[p], scii_conn[p])
  <2>1. Does(p, {}, 0, {}, 0)
    BY <1>10, ExitDoes
  <2>2. Does(p, {s}, 1, {c}, 1)
    BY <1>4, <2>1, DoesMore
  <2> QED
    BY <1>10, <2>2 DEF Exit, s, c, Fails, Exits
<1>11. CASE /\ se_client_id[p] # NoId /\ scii_client_id[p] # NoId
            /\ status' = [status EXCEPT ![p] = "sigpipe"]
            /\ \E d \in Sent(se_conn[p], "client", s) : SE!PeerCloses(p, d)
            /\ SCII!PeerCloses(p, scii_conn[p])
  <2>1. PICK d \in Sent(se_conn[p], "client", s) : SE!PeerCloses(p, d)
    BY <1>11
  <2>2. SEDoes(p, {s}, 1)
    BY <1>2, <1>3, <1>11, <2>1, SendsLastAtSE
  <2>3. scii_conn[p] \in {scii_conn[p]} \union Received(scii_conn[p], "client")
    OBVIOUS
  <2>4. SCIIDoes(p, {}, 0)
    BY <1>2, <1>11, <2>3, ClosesAtSCII
  <2>5. Does(p, {s}, 1, {c}, 1)
    BY <1>4, <2>2, <2>4, DoesMore DEF Does
  <2> QED
    BY <1>11, <2>5 DEF s, c, Fails, Exits
<1> QED
  BY <1>5, <1>6, <1>7, <1>8, <1>9, <1>10, <1>11

\* connect() to SE.
LEMMA ConnectSEDoes ==
  ASSUME SysInv, NEW p \in Client, ConnectSE(p)
  PROVE  /\ Does(p, {}, 0, {}, 0)
         /\ \/ /\ status' = [status EXCEPT ![p] = "connected to SE"]
               /\ SEOpen(p)' /\ se_told[p] = NoId
            \/ Fails(p)
<1>1. AtSE!IInv /\ AtSCII!IInv
  BY LoadsAreCounted
<1>2. SCIIDoes(p, {}, 0)
  BY <1>1, RestsAtSCII DEF ConnectSE
<1>3. CASE SE!PeerConnect(p) /\ status' = [status EXCEPT ![p] = "connected to SE"]
  BY <1>1, <1>2, <1>3, ConnectsAtSE DEF Does
<1>4. CASE UNCHANGED se_vars /\ status' = [status EXCEPT ![p] = "no server"]
  BY <1>1, <1>2, <1>4, RestsAtSE DEF Does, Fails, Exits
<1> QED
  BY <1>3, <1>4 DEF ConnectSE

\* connect() to SCII.
LEMMA ConnectSCIIDoes ==
  ASSUME SysInv, NEW p \in Client, ConnectSCII(p)
  PROVE  /\ Does(p, {}, 0, {}, 0)
         /\ \/ /\ status' = [status EXCEPT ![p] = "running"] /\ SEStays(p)
               /\ SCIIOpen(p)' /\ scii_told[p] = NoId
            \/ Fails(p)
<1>1. AtSE!IInv /\ AtSCII!IInv
  BY LoadsAreCounted
<1>2. CASE SCII!PeerConnect(p) /\ status' = [status EXCEPT ![p] = "running"] /\ UNCHANGED se_vars
  BY <1>1, <1>2, ConnectsAtSCII, RestsAtSE DEF Does, SEStays
<1>3. CASE Exit(p, "no server", se_conn[p], scii_conn[p])
  BY <1>3, ExitDoes DEF Exit, Fails, Exits
<1> QED
  BY <1>2, <1>3 DEF ConnectSCII

\* The ways to end without success that send nothing.
LEMMA EndDoes ==
  ASSUME SysInv, NEW p \in Client,
         SelectFails(p) \/ EndOfInput(p) \/ RefusedBySE(p) \/ RefusedBySCII(p)
  PROVE  Does(p, {}, 0, {}, 0) /\ Fails(p)
<1>1. PICK how \in Exits \ {"success"},
           se \in {se_conn[p]} \union Received(se_conn[p], "client"),
           scii \in {scii_conn[p]} \union Received(scii_conn[p], "client") :
             Exit(p, how, se, scii)
  BY DEF SelectFails, EndOfInput, RefusedBySE, RefusedBySCII, Exits
<1>2. Does(p, {}, 0, {}, 0)
  BY <1>1, ExitDoes
<1> QED
  BY <1>1, <1>2 DEF Exit, Fails

\* The commands with one request.
LEMMA RequestDoes ==
  ASSUME SysInv, NEW p \in Client,
         DisplayInfoSE(p) \/ DisplayInfoSCII(p) \/ QueryCondition(p)
  PROVE  /\ GoesOn(p) \/ Fails(p)
         /\ \/ DisplayInfoSE(p) /\ Does(p, {Msg("REQ_INFOSE", <<>>)}, 1, {}, 0)
            \/ DisplayInfoSCII(p) /\ Does(p, {}, 0, {Msg("REQ_INFOSCII", <<>>)}, 1)
            \/ QueryCondition(p) /\ Does(p, {Msg("REQ_STATUS", <<>>)}, 1, {}, 0)
<1>1. "stdin" \in read_fds[p]
  BY DEF DisplayInfoSE, DisplayInfoSCII, QueryCondition, Command, GoesThrough
<1>2. /\ Msg("REQ_INFOSE", <<>>) \in AtSE!Allowed(p)
      /\ Msg("REQ_STATUS", <<>>) \in AtSE!Allowed(p)
      /\ Msg("REQ_INFOSCII", <<>>) \in AtSCII!Allowed(p)
  BY NamesAtSE, NamesAtSCII DEF AtSE!Allowed, AtSCII!Allowed
<1>3. CASE DisplayInfoSE(p)
  BY <1>1, <1>2, <1>3, SendSEDoes DEF DisplayInfoSE
<1>4. CASE DisplayInfoSCII(p)
  BY <1>1, <1>2, <1>4, SendSCIIDoes DEF DisplayInfoSCII
<1>5. CASE QueryCondition(p)
  BY <1>1, <1>2, <1>5, SendSEDoes DEF QueryCondition
<1> QED
  BY <1>3, <1>4, <1>5

\* A message from a server that the client only reads.
LEMMA ReadSEDoes ==
  ASSUME SysInv, NEW p \in Client, AdmittedBySE(p) \/ OtherFromSE(p) \/ NothingFromSE(p)
  PROVE  /\ Does(p, {}, 0, {}, 0) /\ UNCHANGED status
         /\ SEOpen(p) /\ SEOpen(p)' /\ SCIIStays(p)
<1>1. AtSE!IInv /\ AtSCII!IInv
  BY LoadsAreCounted
<1>2. SE!PeerReceive(p) /\ UNCHANGED <<scii_vars, status>>
  BY DEF AdmittedBySE, OtherFromSE, NothingFromSE
<1> QED
  BY <1>1, <1>2, ReceivesAtSE, RestsAtSCII DEF Does, SCIIStays

\* The same of a message from SCII.
LEMMA ReadSCIIDoes ==
  ASSUME SysInv, NEW p \in Client, AdmittedBySCII(p) \/ OtherFromSCII(p) \/ NothingFromSCII(p)
  PROVE  /\ Does(p, {}, 0, {}, 0) /\ UNCHANGED status
         /\ SCIIOpen(p) /\ SCIIOpen(p)' /\ SEStays(p)
<1>1. AtSE!IInv /\ AtSCII!IInv
  BY LoadsAreCounted
<1>2. SCII!PeerReceive(p) /\ UNCHANGED <<se_vars, status>>
  BY DEF AdmittedBySCII, OtherFromSCII, NothingFromSCII
<1> QED
  BY <1>1, <1>2, ReceivesAtSCII, RestsAtSE DEF Does, SEStays

\* OK(01): the socket is closed, or the process ends.
LEMMA RemovedBySEDoes ==
  ASSUME SysInv, NEW p \in Client, RemovedBySE(p)
  PROVE  /\ Does(p, {}, 0, {}, 0)
         /\ \/ UNCHANGED status /\ SCIIStays(p)
            \/ status' = [status EXCEPT ![p] = "success"] /\ scii_client_id[p] = NoId
<1>1. AtSE!IInv /\ AtSCII!IInv
  BY LoadsAreCounted
<1>2. PICK c \in Received(se_conn[p], "client") :
        \/ Exit(p, "success", c, scii_conn[p]) /\ scii_client_id[p] = NoId
        \/ SE!PeerCloses(p, c) /\ UNCHANGED <<scii_vars, status>>
  BY DEF RemovedBySE
<1>3. /\ c \in {se_conn[p]} \union Received(se_conn[p], "client")
      /\ scii_conn[p] \in {scii_conn[p]} \union Received(scii_conn[p], "client")
  OBVIOUS
<1>4. CASE Exit(p, "success", c, scii_conn[p]) /\ scii_client_id[p] = NoId
  <2>1. Does(p, {}, 0, {}, 0)
    BY <1>3, <1>4, ExitDoes
  <2> QED
    BY <1>4, <2>1 DEF Exit
<1>5. CASE SE!PeerCloses(p, c) /\ UNCHANGED <<scii_vars, status>>
  BY <1>1, <1>3, <1>5, ClosesAtSE, RestsAtSCII DEF Does, SCIIStays
<1> QED
  BY <1>2, <1>4, <1>5

\* The same of an OK(01) from SCII.
LEMMA RemovedBySCIIDoes ==
  ASSUME SysInv, NEW p \in Client, RemovedBySCII(p)
  PROVE  /\ Does(p, {}, 0, {}, 0)
         /\ \/ UNCHANGED status /\ SEStays(p)
            \/ status' = [status EXCEPT ![p] = "success"] /\ se_client_id[p] = NoId
<1>1. AtSE!IInv /\ AtSCII!IInv
  BY LoadsAreCounted
<1>2. PICK c \in Received(scii_conn[p], "client") :
        \/ Exit(p, "success", se_conn[p], c) /\ se_client_id[p] = NoId
        \/ SCII!PeerCloses(p, c) /\ UNCHANGED <<se_vars, status>>
  BY DEF RemovedBySCII
<1>3. /\ c \in {scii_conn[p]} \union Received(scii_conn[p], "client")
      /\ se_conn[p] \in {se_conn[p]} \union Received(se_conn[p], "client")
  OBVIOUS
<1>4. CASE Exit(p, "success", se_conn[p], c) /\ se_client_id[p] = NoId
  <2>1. Does(p, {}, 0, {}, 0)
    BY <1>3, <1>4, ExitDoes
  <2> QED
    BY <1>4, <2>1 DEF Exit
<1>5. CASE SCII!PeerCloses(p, c) /\ UNCHANGED <<se_vars, status>>
  BY <1>1, <1>3, <1>5, ClosesAtSCII, RestsAtSE DEF Does, SEStays
<1> QED
  BY <1>2, <1>4, <1>5

\* The state of the production is read, and SCII is asked for what it calls for.
LEMMA StatusDoes ==
  ASSUME SysInv, NEW p \in Client, StatusFromSE(p)
  PROVE  \/ /\ Does(p, {}, -1, {Advice(Incoming(se_conn[p], "client").type)}, 1)
            /\ UNCHANGED status /\ SEOpen(p) /\ SEOpen(p)' /\ SCIIStays(p)
         \/ Does(p, {}, 0, {}, 0) /\ Fails(p)
<1> DEFINE m == Advice(Incoming(se_conn[p], "client").type)
<1>1. /\ AtSE!IInv /\ AtSCII!IInv
      /\ HasData(se_conn[p], "client") /\ Incoming(se_conn[p], "client").type \in StatusTypes
  BY LoadsAreCounted DEF StatusFromSE, FromSE
<1>2. m \in AtSCII!Allowed(p)
  BY <1>1, NamesAtSCII DEF Advice, StatusTypes, AtSCII!Allowed
<1>3. AtSCII!Load(p) < 2 * MaxCommands + 2
  <2>1. \A x, y, z \in Nat : \A t \in {0, 2} : x + y + t <= 2 * z + 2 /\ x >= 1 => y < 2 * z + 2
    OBVIOUS
  <2> QED
    BY <1>1, <2>1, LoadsAreCounted
<1>4. \/ SE!PeerReceive(p) /\ SCII!PeerSends(p, m) /\ UNCHANGED status
      \/ \E c \in Received(se_conn[p], "client") : Exit(p, "sigpipe", c, scii_conn[p])
  BY DEF StatusFromSE
<1> HIDE DEF m
<1>5. CASE SE!PeerReceive(p) /\ SCII!PeerSends(p, m) /\ UNCHANGED status
  <2>1. SEDoes(p, {}, -1) /\ SEOpen(p) /\ SEOpen(p)'
    BY <1>1, <1>5, ReceivesAtSE
  <2>2. /\ SCIIDoes(p, {m}, 1) /\ SCIIOpen(p)'
        /\ scii_conn'[p]["server"].data = scii_conn[p]["server"].data
    BY <1>1, <1>2, <1>3, <1>5, SendsAtSCII
  <2> QED
    BY <1>5, <2>1, <2>2 DEF Does, SCIIStays, m
<1>6. CASE \E c \in Received(se_conn[p], "client") : Exit(p, "sigpipe", c, scii_conn[p])
  <2>1. PICK c \in Received(se_conn[p], "client") : Exit(p, "sigpipe", c, scii_conn[p])
    BY <1>6
  <2>2. /\ c \in {se_conn[p]} \union Received(se_conn[p], "client")
        /\ scii_conn[p] \in {scii_conn[p]} \union Received(scii_conn[p], "client")
    OBVIOUS
  <2>3. Does(p, {}, 0, {}, 0)
    BY <2>1, <2>2, ExitDoes
  <2> QED
    BY <2>1, <2>3 DEF Exit, Fails, Exits
<1> QED
  BY <1>4, <1>5, <1>6

-----------------------------------------------------------------------------
(* Every step of the system is a step of each server. *)

\* A step of a client is one of the two, at either server.
LEMMA DoesSteps ==
  ASSUME SysInv, NEW p \in Client, NEW NS, NEW NC, NEW ns, NEW nc, Does(p, NS, ns, NC, nc)
  PROVE  /\ [SE!Next]_(SE!vars) /\ [SCII!Next]_(SCII!vars)
         /\ AtSE!XInv' /\ AtSCII!XInv'
<1>1. AtSE!PeerStep \/ UNCHANGED se_vars
  BY DEF Does, SEDoes
<1>2. AtSCII!PeerStep \/ UNCHANGED scii_vars
  BY DEF Does, SCIIDoes
<1>3. AtSE!XInv /\ AtSCII!XInv
  BY DEF SysInv
<1>4. [AtSE!Next]_(AtSE!vars)
  BY <1>1 DEF AtSE!Next, se_vars, AtSE!vars, AtSE!registry, AtSE!history, AtSE!sockets
<1>5. [AtSCII!Next]_(AtSCII!vars)
  BY <1>2 DEF AtSCII!Next, scii_vars, AtSCII!vars, AtSCII!registry, AtSCII!history, AtSCII!sockets
<1>6. AtSE!XInv'
  BY <1>3, <1>4, AssumptionAtSE, AtSE!NextSays
<1>7. AtSCII!XInv'
  BY <1>3, <1>5, AssumptionAtSCII, AtSCII!NextSays
<1>8. [SE!Next]_(SE!vars)
  BY <1>1, StepsAtSE DEF SE!Next, se_vars, SE!vars, SE!registry, SE!history, SE!sockets
<1>9. [SCII!Next]_(SCII!vars)
  BY <1>2, StepsAtSCII DEF SCII!Next, scii_vars, SCII!vars, SCII!registry, SCII!history, SCII!sockets
<1> QED
  BY <1>6, <1>7, <1>8, <1>9

\* It leaves the other clients' connections, and what they were told, alone.
LEMMA DoesAlone ==
  ASSUME NEW p \in Client, NEW NS, NEW NC, NEW ns, NEW nc, Does(p, NS, ns, NC, nc),
         NEW q \in Client \ {p}
  PROVE  /\ AtSE!Load(q)' = AtSE!Load(q) /\ AtSCII!Load(q)' = AtSCII!Load(q)
         /\ se_conn'[q] = se_conn[q] /\ scii_conn'[q] = scii_conn[q]
<1>1. AtSE!OnlyClient(p) /\ AtSCII!OnlyClient(p)
  BY DEF Does, SEDoes, SCIIDoes, AtSE!ClientMoves, AtSCII!ClientMoves
<1>2. se_conn'[q] = se_conn[q] /\ (AtSE!Unanswered(q)' <=> AtSE!Unanswered(q))
  BY <1>1 DEF AtSE!OnlyClient
<1>3. scii_conn'[q] = scii_conn[q] /\ (AtSCII!Unanswered(q)' <=> AtSCII!Unanswered(q))
  BY <1>1 DEF AtSCII!OnlyClient
<1> QED
  BY <1>2, <1>3 DEF AtSE!Load, AtSCII!Load

\* And it leaves the tables and the identifiers alone, and no server dies of it.
LEMMA DoesNoHarm ==
  ASSUME NEW p \in Client, NEW NS, NEW NC, NEW ns, NEW nc, Does(p, NS, ns, NC, nc)
  PROVE  /\ UNCHANGED <<se_told, se_running, scii_told, scii_running>>
         /\ UNCHANGED <<se_clients, scii_clients>>
         /\ UNCHANGED <<se_active_fd_set, se_fds, scii_active_fd_set, scii_fds>>
<1>1. AtSE!OnlyClient(p) /\ AtSCII!OnlyClient(p)
  BY DEF Does, SEDoes, SCIIDoes, AtSE!ClientMoves, AtSCII!ClientMoves
<1> QED
  BY <1>1 DEF AtSE!OnlyClient, AtSCII!OnlyClient, AtSE!registry, AtSCII!registry

\* The command is taken out of what is left to go through.
LEMMA CommandIsTaken ==
  ASSUME SysInv, NEW p \in Client, NEW name, Command(p, name)
  PROVE  Typing(p) = 2 /\ Typing(p)' = 0 /\ UNCHANGED typed
<1>1. "stdin" \in read_fds[p] /\ read_fds' = [read_fds EXCEPT ![p] = @ \ {"stdin"}]
  BY DEF Command, GoesThrough
<1>2. read_fds'[p] = read_fds[p] \ {"stdin"}
  BY <1>1 DEF SysInv, ClientTypes
<1> QED
  BY <1>1, <1>2 DEF Typing, Command

\* The budget after a step of client p that sends ns messages to SE and nc to SCII.
LEMMA BudgetOfStep ==
  ASSUME SysInv, NEW p \in Client, NEW NS, NEW NC, NEW ns \in Int, NEW nc \in Int,
         Does(p, NS, ns, NC, nc), typed' \in Nat, typed <= typed',
         ns + nc + Typing(p)' + 2 * typed <= Typing(p) + 2 * typed'
  PROVE  WithinBudget(p)'
<1>1. /\ AtSE!Load(p)' \in Nat /\ AtSE!Load(p)' <= AtSE!Load(p) + ns
      /\ AtSCII!Load(p)' \in Nat /\ AtSCII!Load(p)' <= AtSCII!Load(p) + nc
  BY DEF Does, SEDoes, SCIIDoes, AtSE!ClientMoves, AtSCII!ClientMoves
<1>2. /\ AtSE!Load(p) \in Nat /\ AtSCII!Load(p) \in Nat /\ Typing(p) \in Nat /\ typed \in Nat
      /\ AtSE!Load(p) + AtSCII!Load(p) + Typing(p) <= 2 * typed + 2
  BY LoadsAreCounted DEF SysInv, WithinBudget
<1>3. Typing(p)' \in Nat
  BY DEF Typing
<1>4. \A a, b, c, d, e, f, t, u \in Nat :
        /\ a <= b + ns /\ c <= d + nc /\ b + d + e <= 2 * t + 2
        /\ ns + nc + f + 2 * t <= e + 2 * u
        => a + c + f <= 2 * u + 2
  OBVIOUS
<1> QED
  BY <1>1, <1>2, <1>3, <1>4 DEF WithinBudget

\* The budget of the others.
LEMMA BudgetOfOthers ==
  ASSUME SysInv, NEW p \in Client, NEW NS, NEW NC, NEW ns, NEW nc, Does(p, NS, ns, NC, nc),
         typed' \in Nat, typed <= typed', NEW q \in Client \ {p}, read_fds'[q] = read_fds[q]
  PROVE  WithinBudget(q)'
<1>1. AtSE!Load(q)' = AtSE!Load(q) /\ AtSCII!Load(q)' = AtSCII!Load(q)
  BY DoesAlone
<1>2. /\ AtSE!Load(q) \in Nat /\ AtSCII!Load(q) \in Nat /\ Typing(q) \in Nat /\ typed \in Nat
      /\ AtSE!Load(q) + AtSCII!Load(q) + Typing(q) <= 2 * typed + 2
  BY LoadsAreCounted DEF SysInv, WithinBudget
<1>3. Typing(q)' = Typing(q)
  BY DEF Typing
<1>4. \A a, b, c, t, u \in Nat : a + b + c <= 2 * t + 2 /\ t <= u => a + b + c <= 2 * u + 2
  OBVIOUS
<1> QED
  BY <1>1, <1>2, <1>3, <1>4 DEF WithinBudget

\* What a client learns from SE is the identifier that SE has told it.
LEMMA LearnsItsId ==
  ASSUME SysInv, NEW p \in Client
  PROVE  /\ AdmittedBySE(p) => /\ Incoming(se_conn[p], "client").args[1] = se_told[p]
                               /\ se_told[p] # NoId
         /\ AdmittedBySCII(p) => /\ Incoming(scii_conn[p], "client").args[1] = scii_told[p]
                                 /\ scii_told[p] # NoId
<1>1. ASSUME AdmittedBySE(p)
      PROVE  /\ Incoming(se_conn[p], "client").args[1] = se_told[p] /\ se_told[p] # NoId
  <2>1. HasData(se_conn[p], "client") /\ Incoming(se_conn[p], "client").type = "RES_ADD"
    BY <1>1 DEF AdmittedBySE, FromSE
  <2>2. AtSE!XInv /\ AtSE!HasData(se_conn[p], "client")
    BY <2>1, NamesAtSE DEF SysInv
  <2>3. AtSE!Incoming(se_conn[p], "client").type = "RES_ADD" =>
          se_told[p] # AtSE!NoId /\ AtSE!Incoming(se_conn[p], "client").args[1] = se_told[p]
    BY <2>2, AssumptionAtSE, AtSE!IncomingSays
  <2> QED
    BY <2>1, <2>3, NamesAtSE
<1>2. ASSUME AdmittedBySCII(p)
      PROVE  /\ Incoming(scii_conn[p], "client").args[1] = scii_told[p] /\ scii_told[p] # NoId
  <2>1. HasData(scii_conn[p], "client") /\ Incoming(scii_conn[p], "client").type = "RES_ADD"
    BY <1>2 DEF AdmittedBySCII, FromSCII
  <2>2. AtSCII!XInv /\ AtSCII!HasData(scii_conn[p], "client")
    BY <2>1, NamesAtSCII DEF SysInv
  <2>3. AtSCII!Incoming(scii_conn[p], "client").type = "RES_ADD" =>
          scii_told[p] # AtSCII!NoId /\ AtSCII!Incoming(scii_conn[p], "client").args[1] = scii_told[p]
    BY <2>2, AssumptionAtSCII, AtSCII!IncomingSays
  <2> QED
    BY <2>1, <2>3, NamesAtSCII
<1> QED
  BY <1>1, <1>2

\* How the steps of client p move its own variables.
Own(p) ==
  /\ \E s \in Statuses :
       status' = status \/ status' = [status EXCEPT ![p] = s]
  /\ \E id \in {NoId, se_told[p]} :
       se_client_id' = se_client_id \/ se_client_id' = [se_client_id EXCEPT ![p] = id]
  /\ \E id \in {NoId, scii_told[p]} :
       scii_client_id' = scii_client_id \/ scii_client_id' = [scii_client_id EXCEPT ![p] = id]
  /\ \E R \in SUBSET {"stdin", "se", "scii"} :
       read_fds' = read_fds \/ read_fds' = [read_fds EXCEPT ![p] = R]
  /\ typed' \in 0 .. MaxCommands /\ typed <= typed'

\* What SysInv asks of the clients' own variables, after such a step.
LEMMA OwnKeeps ==
  ASSUME SysInv, NEW p \in Client, Own(p), UNCHANGED <<se_told, scii_told>>
  PROVE  /\ ClientTypes' /\ \A q \in Client : KnowsItsIds(q)'
         /\ typed' \in Nat /\ typed <= typed'
         /\ \A q \in Client \ {p} : /\ read_fds'[q] = read_fds[q] /\ status'[q] = status[q]
                                    /\ se_client_id'[q] = se_client_id[q]
                                    /\ scii_client_id'[q] = scii_client_id[q]
<1>1. ClientTypes /\ \A q \in Client : KnowsItsIds(q)
  BY DEF SysInv
<1>2. se_told[p] \in Int /\ scii_told[p] \in Int /\ NoId \in Int
  <2>1. AtSE!TypeOK /\ AtSCII!TypeOK
    BY LoadsAreCounted DEF AtSE!IInv, AtSCII!IInv
  <2> QED
    BY <2>1 DEF AtSE!TypeOK, AtSCII!TypeOK, NoId, AtSE!NoId, AtSCII!NoId
<1>3. PICK s \in Statuses :
        status' = status \/ status' = [status EXCEPT ![p] = s]
  BY DEF Own
<1>4. PICK id \in {NoId, se_told[p]} :
        se_client_id' = se_client_id \/ se_client_id' = [se_client_id EXCEPT ![p] = id]
  BY DEF Own
<1>5. PICK jd \in {NoId, scii_told[p]} :
        scii_client_id' = scii_client_id \/ scii_client_id' = [scii_client_id EXCEPT ![p] = jd]
  BY DEF Own
<1>6. PICK R \in SUBSET {"stdin", "se", "scii"} :
        read_fds' = read_fds \/ read_fds' = [read_fds EXCEPT ![p] = R]
  BY DEF Own
<1>7. typed' \in 0 .. MaxCommands /\ typed <= typed' /\ MaxCommands \in Nat
  BY SystemAssumption DEF Own
<1>8. /\ status' \in [Client -> Statuses]
      /\ \A q \in Client \ {p} : status'[q] = status[q]
  BY <1>1, <1>3 DEF ClientTypes
<1>9. /\ se_client_id' \in [Client -> Int]
      /\ \A q \in Client \ {p} : se_client_id'[q] = se_client_id[q]
      /\ se_client_id'[p] \in {NoId, se_told[p]}
  BY <1>1, <1>2, <1>4 DEF ClientTypes, KnowsItsIds
<1>10. /\ scii_client_id' \in [Client -> Int]
       /\ \A q \in Client \ {p} : scii_client_id'[q] = scii_client_id[q]
       /\ scii_client_id'[p] \in {NoId, scii_told[p]}
  BY <1>1, <1>2, <1>5 DEF ClientTypes, KnowsItsIds
<1>11. /\ read_fds' \in [Client -> SUBSET {"stdin", "se", "scii"}]
       /\ \A q \in Client \ {p} : read_fds'[q] = read_fds[q]
  BY <1>1, <1>6 DEF ClientTypes
<1>12. ASSUME NEW q \in Client
       PROVE  KnowsItsIds(q)'
  BY <1>1, <1>9, <1>10 DEF KnowsItsIds
<1>13. typed' \in Nat
  BY <1>7
<1>14. ClientTypes'
  BY <1>7, <1>8, <1>9, <1>10, <1>11 DEF ClientTypes
<1> QED
  BY <1>7, <1>8, <1>9, <1>10, <1>11, <1>12, <1>13, <1>14

\* What a step of a client may leave of the ids, the sources and the count of commands.
LEMMA OwnOfStep ==
  ASSUME SysInv, NEW p \in Client, Selects(p) \/ ClientStep(p),
         NEW s \in Statuses,
         status' = status \/ status' = [status EXCEPT ![p] = s]
  PROVE  Own(p)
<1>1. read_fds[p] \subseteq {"stdin", "se", "scii"}
  BY DEF SysInv, ClientTypes
<1>2. typed \in 0 .. MaxCommands /\ MaxCommands \in Nat
  BY SystemAssumption DEF SysInv, ClientTypes
<1>3. ASSUME UNCHANGED se_client_id \/ AdmittedBySE(p)
             \/ se_client_id' = [se_client_id EXCEPT ![p] = NoId]
      PROVE  \E id \in {NoId, se_told[p]} :
               se_client_id' = se_client_id \/ se_client_id' = [se_client_id EXCEPT ![p] = id]
  BY <1>3, LearnsItsId DEF AdmittedBySE
<1>4. ASSUME UNCHANGED scii_client_id \/ AdmittedBySCII(p)
             \/ scii_client_id' = [scii_client_id EXCEPT ![p] = NoId]
      PROVE  \E id \in {NoId, scii_told[p]} :
               scii_client_id' = scii_client_id \/ scii_client_id' = [scii_client_id EXCEPT ![p] = id]
  BY <1>4, LearnsItsId DEF AdmittedBySCII
<1>5. ASSUME NEW f, GoesThrough(p, f)
      PROVE  \E R \in SUBSET {"stdin", "se", "scii"} : read_fds' = [read_fds EXCEPT ![p] = R]
  BY <1>1, <1>5 DEF GoesThrough
<1>6. ASSUME UNCHANGED typed
      PROVE  typed' \in 0 .. MaxCommands /\ typed <= typed'
  <2>1. \A n \in Nat : \A k \in 0 .. n : k <= k
    OBVIOUS
  <2> QED
    BY <1>2, <1>6, <2>1
<1>7. CASE ConnectSE(p) \/ ConnectSCII(p) \/ SelectFails(p)
  BY <1>3, <1>4, <1>6, <1>7 DEF Own, ConnectSE, ConnectSCII, SelectFails
<1>8. CASE \E name : Command(p, name)
  BY <1>3, <1>4, <1>5, <1>6, <1>8 DEF Own, Command
<1>9. CASE AdmittedBySE(p) \/ RefusedBySE(p) \/ RemovedBySE(p) \/ StatusFromSE(p)
           \/ OtherFromSE(p) \/ NothingFromSE(p)
  <2>1. GoesThrough(p, "se") /\ UNCHANGED <<typed, scii_client_id>>
    BY <1>9 DEF AdmittedBySE, RefusedBySE, RemovedBySE, StatusFromSE, OtherFromSE, NothingFromSE,
                FromSE
  <2>2. UNCHANGED se_client_id \/ AdmittedBySE(p)
        \/ se_client_id' = [se_client_id EXCEPT ![p] = NoId]
    BY <1>9 DEF RefusedBySE, RemovedBySE, StatusFromSE, OtherFromSE, NothingFromSE
  <2> QED
    BY <1>3, <1>4, <1>5, <1>6, <2>1, <2>2 DEF Own
<1>10. CASE AdmittedBySCII(p) \/ RefusedBySCII(p) \/ RemovedBySCII(p)
            \/ OtherFromSCII(p) \/ NothingFromSCII(p)
  <2>1. GoesThrough(p, "scii") /\ UNCHANGED <<typed, se_client_id>>
    BY <1>10 DEF AdmittedBySCII, RefusedBySCII, RemovedBySCII, OtherFromSCII, NothingFromSCII,
                FromSCII
  <2>2. UNCHANGED scii_client_id \/ AdmittedBySCII(p)
        \/ scii_client_id' = [scii_client_id EXCEPT ![p] = NoId]
    BY <1>10 DEF RefusedBySCII, RemovedBySCII, OtherFromSCII, NothingFromSCII
  <2> QED
    BY <1>3, <1>4, <1>5, <1>6, <2>1, <2>2 DEF Own
<1>11. CASE Selects(p)
  <2>1. PICK R \in SUBSET ReadySources(p) :
          /\ read_fds' = [read_fds EXCEPT ![p] = R]
          /\ typed' = IF "stdin" \in R THEN typed + 1 ELSE typed
    BY <1>11 DEF Selects
  <2>2. R \in SUBSET {"stdin", "se", "scii"} /\ ("stdin" \in R => typed < MaxCommands)
    BY DEF ReadySources, Types
  <2>3. typed' \in 0 .. MaxCommands /\ typed <= typed'
    <3>1. \A n \in Nat : \A k \in 0 .. n :
            /\ k <= k /\ k <= k + 1
            /\ k < n => k + 1 \in 0 .. n
      OBVIOUS
    <3> QED
      BY <1>2, <2>1, <2>2, <3>1
  <2>4. UNCHANGED <<se_client_id, scii_client_id>>
    BY <1>11 DEF Selects
  <2> QED
    BY <1>3, <1>4, <2>1, <2>2, <2>3, <2>4 DEF Own
<1> QED
  BY <1>7, <1>8, <1>9, <1>10, <1>11
     DEF ClientStep, EndOfInput, Kill, DisplayInfoSE, DisplayInfoSCII, QueryCondition, InvalidCommand

\* The status after a step is one of those in the program.
LEMMA FailsIsStatus ==
  ASSUME NEW p, Fails(p)
  PROVE  \E s \in Statuses : status' = [status EXCEPT ![p] = s]
  BY DEF Fails, Statuses

\* What the steps of client p send, and what they leave of its budget.
Sends(p, ns, nc) ==
  /\ \E NS, NC : Does(p, NS, ns, NC, nc)
  /\ ns + nc + Typing(p)' + 2 * typed <= Typing(p) + 2 * typed'
  /\ \E s \in Statuses : status' = status \/ status' = [status EXCEPT ![p] = s]

\* A source that is gone through was there, and no other comes.
LEMMA GoesThroughLess ==
  ASSUME SysInv, NEW p \in Client, NEW f, GoesThrough(p, f), UNCHANGED typed
  PROVE  Typing(p)' + 2 * typed <= Typing(p) + 2 * typed'
<1>1. read_fds'[p] = read_fds[p] \ {f}
  BY DEF GoesThrough, SysInv, ClientTypes
<1>2. Typing(p)' \in {0, 2} /\ Typing(p) \in {0, 2} /\ (Typing(p)' = 2 => Typing(p) = 2)
  BY <1>1 DEF Typing
<1>3. \A n \in Nat : \A x, y \in {0, 2} : (x = 2 => y = 2) => x + 2 * n <= y + 2 * n
  OBVIOUS
<1> QED
  BY <1>2, <1>3, LoadsAreCounted

\* Every step of a client sends what the commands typed allow.
LEMMA StepSends ==
  ASSUME SysInv, NEW p \in Client, Selects(p) \/ ClientStep(p)
  PROVE  \E ns, nc \in Int : Sends(p, ns, nc)
<1>1. /\ typed \in Nat /\ Typing(p) \in {0, 2} /\ Typing(p)' \in {0, 2}
      /\ 0 \in Int /\ 1 \in Int /\ -1 \in Int
  BY LoadsAreCounted DEF Typing
<1>2. ASSUME NEW ns \in Int, NEW nc \in Int, ns + nc <= 0, UNCHANGED typed,
             Typing(p)' + 2 * typed <= Typing(p) + 2 * typed'
      PROVE  ns + nc + Typing(p)' + 2 * typed <= Typing(p) + 2 * typed'
  BY <1>1, <1>2
<1>3. ASSUME NEW ns \in Int, NEW nc \in Int, ns + nc <= 2,
             Typing(p) = 2 /\ Typing(p)' = 0 /\ UNCHANGED typed
      PROVE  ns + nc + Typing(p)' + 2 * typed <= Typing(p) + 2 * typed'
  BY <1>1, <1>3
<1>4. {"connected to SE", "running", "success"} \subseteq Statuses
  BY DEF Statuses, Exits
<1>5. 0 + 0 <= 0 /\ -1 + 1 <= 0 /\ 0 + 0 <= 2 /\ 0 + 1 <= 2 /\ 1 + 0 <= 2 /\ 1 + 1 <= 2
  OBVIOUS
<1>6. (UNCHANGED status \/ Fails(p)) =>
        \E s \in Statuses : status' = status \/ status' = [status EXCEPT ![p] = s]
  BY <1>4, FailsIsStatus
<1>7. CASE ConnectSE(p) \/ ConnectSCII(p) \/ SelectFails(p)
  <2>1. Does(p, {}, 0, {}, 0)
    BY <1>7, ConnectSEDoes, ConnectSCIIDoes, EndDoes
  <2>2. \E s \in Statuses : status' = status \/ status' = [status EXCEPT ![p] = s]
    BY <1>4, <1>6, <1>7, ConnectSEDoes, ConnectSCIIDoes, EndDoes
  <2>3. UNCHANGED <<typed, read_fds>>
    BY <1>7 DEF ConnectSE, ConnectSCII, SelectFails
  <2>4. Typing(p)' + 2 * typed <= Typing(p) + 2 * typed'
    BY <1>1, <2>3 DEF Typing
  <2> QED
    BY <1>1, <1>2, <1>5, <2>1, <2>2, <2>3, <2>4 DEF Sends
<1>8. CASE EndOfInput(p) \/ InvalidCommand(p)
  <2>1. Does(p, {}, 0, {}, 0)
    BY <1>8, EndDoes, RestDoes DEF InvalidCommand
  <2>2. \E s \in Statuses : status' = status \/ status' = [status EXCEPT ![p] = s]
    BY <1>6, <1>8, EndDoes DEF InvalidCommand
  <2>3. Typing(p) = 2 /\ Typing(p)' = 0 /\ UNCHANGED typed
    BY <1>8, CommandIsTaken DEF EndOfInput, InvalidCommand
  <2> QED
    BY <1>1, <1>3, <1>5, <2>1, <2>2, <2>3 DEF Sends
<1>9. CASE DisplayInfoSE(p) \/ DisplayInfoSCII(p) \/ QueryCondition(p)
  <2>1. \/ \E N : Does(p, N, 1, {}, 0)
        \/ \E N : Does(p, {}, 0, N, 1)
    BY <1>9, RequestDoes
  <2>2. \E s \in Statuses : status' = status \/ status' = [status EXCEPT ![p] = s]
    BY <1>6, <1>9, RequestDoes DEF GoesOn
  <2>3. Typing(p) = 2 /\ Typing(p)' = 0 /\ UNCHANGED typed
    BY <1>9, CommandIsTaken DEF DisplayInfoSE, DisplayInfoSCII, QueryCondition
  <2> QED
    BY <1>1, <1>3, <1>5, <2>1, <2>2, <2>3 DEF Sends
<1>10. CASE Kill(p)
  <2>1. \E NS, NC : Does(p, NS, 1, NC, 1)
    BY <1>10, KillDoes
  <2>2. \E s \in Statuses : status' = status \/ status' = [status EXCEPT ![p] = s]
    BY <1>6, <1>10, KillDoes DEF GoesOn
  <2>3. Typing(p) = 2 /\ Typing(p)' = 0 /\ UNCHANGED typed
    BY <1>10, CommandIsTaken DEF Kill
  <2> QED
    BY <1>1, <1>3, <1>5, <2>1, <2>2, <2>3 DEF Sends
<1>11. CASE AdmittedBySE(p) \/ RefusedBySE(p) \/ RemovedBySE(p) \/ OtherFromSE(p) \/ NothingFromSE(p)
  <2>1. Does(p, {}, 0, {}, 0)
    BY <1>11, ReadSEDoes, EndDoes, RemovedBySEDoes
  <2>2. \E s \in Statuses : status' = status \/ status' = [status EXCEPT ![p] = s]
    BY <1>4, <1>6, <1>11, ReadSEDoes, EndDoes, RemovedBySEDoes
  <2>3. GoesThrough(p, "se") /\ UNCHANGED typed
    BY <1>11 DEF AdmittedBySE, RefusedBySE, RemovedBySE, OtherFromSE, NothingFromSE, FromSE
  <2>4. Typing(p)' + 2 * typed <= Typing(p) + 2 * typed'
    BY <2>3, GoesThroughLess
  <2> QED
    BY <1>1, <1>2, <1>5, <2>1, <2>2, <2>3, <2>4 DEF Sends
<1>12. CASE AdmittedBySCII(p) \/ RefusedBySCII(p) \/ RemovedBySCII(p) \/ OtherFromSCII(p)
            \/ NothingFromSCII(p)
  <2>1. Does(p, {}, 0, {}, 0)
    BY <1>12, ReadSCIIDoes, EndDoes, RemovedBySCIIDoes
  <2>2. \E s \in Statuses : status' = status \/ status' = [status EXCEPT ![p] = s]
    BY <1>4, <1>6, <1>12, ReadSCIIDoes, EndDoes, RemovedBySCIIDoes
  <2>3. GoesThrough(p, "scii") /\ UNCHANGED typed
    BY <1>12 DEF AdmittedBySCII, RefusedBySCII, RemovedBySCII, OtherFromSCII, NothingFromSCII, FromSCII
  <2>4. Typing(p)' + 2 * typed <= Typing(p) + 2 * typed'
    BY <2>3, GoesThroughLess
  <2> QED
    BY <1>1, <1>2, <1>5, <2>1, <2>2, <2>3, <2>4 DEF Sends
<1>13. CASE StatusFromSE(p)
  <2>1. \/ \E N : Does(p, {}, -1, N, 1) /\ UNCHANGED status
        \/ Does(p, {}, 0, {}, 0) /\ Fails(p)
    BY <1>13, StatusDoes
  <2>2. \E s \in Statuses : status' = status \/ status' = [status EXCEPT ![p] = s]
    BY <1>6, <2>1
  <2>3. GoesThrough(p, "se") /\ UNCHANGED typed
    BY <1>13 DEF StatusFromSE, FromSE
  <2>4. Typing(p)' + 2 * typed <= Typing(p) + 2 * typed'
    BY <2>3, GoesThroughLess
  <2> QED
    BY <1>1, <1>2, <1>5, <2>1, <2>2, <2>3, <2>4 DEF Sends
<1>14. CASE Selects(p)
  <2>1. PICK R \in SUBSET ReadySources(p) :
          /\ read_fds' = [read_fds EXCEPT ![p] = R]
          /\ typed' = IF "stdin" \in R THEN typed + 1 ELSE typed
          /\ UNCHANGED <<se_vars, scii_vars, status>>
    BY <1>14 DEF Selects
  <2>2. read_fds'[p] = R
    BY <2>1 DEF SysInv, ClientTypes
  <2>3. Does(p, {}, 0, {}, 0)
    BY <2>1, RestDoes
  <2>4. \E s \in Statuses : status' = status \/ status' = [status EXCEPT ![p] = s]
    BY <1>6, <2>1
  <2>5. 0 + 0 + Typing(p)' + 2 * typed <= Typing(p) + 2 * typed'
    BY <1>1, <2>1, <2>2 DEF Typing
  <2> QED
    BY <1>1, <2>3, <2>4, <2>5 DEF Sends
<1> QED
  BY <1>7, <1>8, <1>9, <1>10, <1>11, <1>12, <1>13, <1>14 DEF ClientStep

\* A step of a client keeps SysInv, and is a step of either server's environment.
LEMMA ClientStepKeeps ==
  ASSUME SysInv, NEW p \in Client, Selects(p) \/ ClientStep(p)
  PROVE  SysInv' /\ [SE!Next]_(SE!vars) /\ [SCII!Next]_(SCII!vars)
<1>1. PICK ns, nc \in Int : Sends(p, ns, nc)
  BY StepSends
<1>2. PICK NS, NC : Does(p, NS, ns, NC, nc)
  BY <1>1 DEF Sends
<1>3. PICK s \in Statuses : status' = status \/ status' = [status EXCEPT ![p] = s]
  BY <1>1 DEF Sends
<1>4. Own(p)
  BY <1>3, OwnOfStep
<1>5. UNCHANGED <<se_told, scii_told>>
  BY <1>2, DoesNoHarm
<1>6. /\ ClientTypes' /\ \A q \in Client : KnowsItsIds(q)'
      /\ typed' \in Nat /\ typed <= typed'
      /\ \A q \in Client \ {p} : read_fds'[q] = read_fds[q]
  BY <1>4, <1>5, OwnKeeps
<1>7. [SE!Next]_(SE!vars) /\ [SCII!Next]_(SCII!vars) /\ AtSE!XInv' /\ AtSCII!XInv'
  BY <1>2, DoesSteps
<1>8. WithinBudget(p)'
  BY <1>1, <1>2, <1>6, BudgetOfStep DEF Sends
<1>9. ASSUME NEW q \in Client
      PROVE  WithinBudget(q)'
  <2>1. CASE q = p
    BY <1>8, <2>1
  <2>2. CASE q # p
    BY <1>2, <1>6, <2>2, BudgetOfOthers
  <2> QED
    BY <2>1, <2>2
<1> QED
  BY <1>6, <1>7, <1>9 DEF SysInv

-----------------------------------------------------------------------------
(* The steps of the servers. *)

\* A step of SE, which leaves SCII and the clients alone.
LEMMA SEMoves ==
  ASSUME SysInv, SE!ServerStep, UNCHANGED <<scii_vars, client_vars>>
  PROVE  /\ [SE!Next]_(SE!vars) /\ [SCII!Next]_(SCII!vars)
         /\ AtSE!XInv' /\ AtSCII!XInv'
         /\ \A p \in Client : AtSE!ServerMoves(p)
         /\ se_running' # se_running => \E p \in Client : AtSE!Deadly(p)
         /\ \A p \in Client : AtSCII!Load(p)' = AtSCII!Load(p)
<1>1. AtSE!TInv /\ AtSE!XInv /\ AtSCII!XInv
  BY DEF SysInv, AtSE!XInv
<1>2. AtSE!ServerStep
  BY StepsAtSE
<1>3. /\ \A p \in Client : AtSE!ServerMoves(p)
      /\ se_running' # se_running => \E p \in Client : AtSE!Deadly(p)
  BY <1>1, <1>2, AssumptionAtSE, AtSE!ServerStepMoves
<1>4. AtSE!XInv'
  <2>1. [AtSE!Next]_(AtSE!vars)
    BY <1>2 DEF AtSE!Next
  <2> QED
    BY <1>1, <2>1, AssumptionAtSE, AtSE!NextSays
<1>5. UNCHANGED AtSCII!vars
  BY DEF scii_vars, AtSCII!vars, AtSCII!registry, AtSCII!history, AtSCII!sockets
<1>6. AtSCII!XInv'
  <2>1. [AtSCII!Next]_(AtSCII!vars)
    BY <1>5
  <2> QED
    BY <1>1, <2>1, AssumptionAtSCII, AtSCII!NextSays
<1>7. [SE!Next]_(SE!vars)
  BY DEF SE!Next
<1>8. [SCII!Next]_(SCII!vars)
  BY DEF scii_vars, SCII!vars, SCII!registry, SCII!history, SCII!sockets
<1>9. \A p \in Client : AtSCII!Load(p)' = AtSCII!Load(p)
  BY DEF scii_vars, AtSCII!Load, AtSCII!Unanswered, AtSCII!Waiting
<1> QED
  BY <1>3, <1>4, <1>6, <1>7, <1>8, <1>9

\* A step of SCII, which leaves SE and the clients alone.
LEMMA SCIIMoves ==
  ASSUME SysInv, SCII!ServerStep, UNCHANGED <<se_vars, client_vars>>
  PROVE  /\ [SE!Next]_(SE!vars) /\ [SCII!Next]_(SCII!vars)
         /\ AtSE!XInv' /\ AtSCII!XInv'
         /\ \A p \in Client : AtSCII!ServerMoves(p)
         /\ scii_running' # scii_running => \E p \in Client : AtSCII!Deadly(p)
         /\ \A p \in Client : AtSE!Load(p)' = AtSE!Load(p)
<1>1. AtSCII!TInv /\ AtSCII!XInv /\ AtSE!XInv
  BY DEF SysInv, AtSCII!XInv
<1>2. AtSCII!ServerStep
  BY StepsAtSCII
<1>3. /\ \A p \in Client : AtSCII!ServerMoves(p)
      /\ scii_running' # scii_running => \E p \in Client : AtSCII!Deadly(p)
  BY <1>1, <1>2, AssumptionAtSCII, AtSCII!ServerStepMoves
<1>4. AtSCII!XInv'
  <2>1. [AtSCII!Next]_(AtSCII!vars)
    BY <1>2 DEF AtSCII!Next
  <2> QED
    BY <1>1, <2>1, AssumptionAtSCII, AtSCII!NextSays
<1>5. UNCHANGED AtSE!vars
  BY DEF se_vars, AtSE!vars, AtSE!registry, AtSE!history, AtSE!sockets
<1>6. AtSE!XInv'
  <2>1. [AtSE!Next]_(AtSE!vars)
    BY <1>5
  <2> QED
    BY <1>1, <2>1, AssumptionAtSE, AtSE!NextSays
<1>7. [SCII!Next]_(SCII!vars)
  BY DEF SCII!Next
<1>8. [SE!Next]_(SE!vars)
  BY DEF se_vars, SE!vars, SE!registry, SE!history, SE!sockets
<1>9. \A p \in Client : AtSE!Load(p)' = AtSE!Load(p)
  BY DEF se_vars, AtSE!Load, AtSE!Unanswered, AtSE!Waiting
<1> QED
  BY <1>3, <1>4, <1>6, <1>7, <1>8, <1>9

\* The loads are numbers.
NaturalLoads == \A p \in Client : AtSE!Load(p) \in Nat /\ AtSCII!Load(p) \in Nat

\* Which follows from what either server keeps.
LEMMA LoadsAreNatural == AtSE!XInv /\ AtSCII!XInv => NaturalLoads
<1> SUFFICES ASSUME AtSE!XInv, AtSCII!XInv, NEW p \in Client
             PROVE  AtSE!Load(p) \in Nat /\ AtSCII!Load(p) \in Nat
  BY DEF NaturalLoads
<1>1. AtSE!IInv /\ AtSCII!IInv
  BY DEF AtSE!XInv, AtSE!TInv, AtSCII!XInv, AtSCII!TInv
<1>2. AtSE!Load(p) \in Nat
  BY <1>1, AssumptionAtSE, AtSE!LoadCounts
<1>3. AtSCII!Load(p) \in Nat
  BY <1>1, AssumptionAtSCII, AtSCII!LoadCounts
<1> QED
  BY <1>2, <1>3

\* A step of SE keeps SysInv.
LEMMA SEStepKeeps ==
  ASSUME SysInv, SE!ServerStep, UNCHANGED <<scii_vars, client_vars>>
  PROVE  SysInv'
<1>1. AtSE!XInv' /\ AtSCII!XInv'
  BY SEMoves
<1>2. UNCHANGED <<status, se_client_id, scii_client_id, read_fds, typed, scii_told>>
  BY DEF client_vars, scii_vars
<1>3. ASSUME NEW p \in Client
      PROVE  KnowsItsIds(p)' /\ WithinBudget(p)'
  <2>1. AtSE!ServerMoves(p) /\ AtSCII!Load(p)' = AtSCII!Load(p)
    BY SEMoves
  <2>2. AtSE!Load(p)' <= AtSE!Load(p) /\ (se_told'[p] = se_told[p] \/ se_told[p] = NoId)
    BY <2>1, NamesAtSE DEF AtSE!ServerMoves
  <2>3. AtSE!Load(p)' \in Nat
    <3>1. NaturalLoads'
      BY <1>1, LoadsAreNatural, PTL
    <3> QED
      BY <3>1 DEF NaturalLoads
  <2>4. /\ AtSE!Load(p) \in Nat /\ AtSCII!Load(p) \in Nat /\ Typing(p) \in Nat /\ typed \in Nat
        /\ AtSE!Load(p) + AtSCII!Load(p) + Typing(p) <= 2 * typed + 2
        /\ KnowsItsIds(p)
    BY LoadsAreCounted DEF SysInv, WithinBudget
  <2>5. Typing(p)' = Typing(p)
    BY <1>2 DEF Typing
  <2>6. \A a, b, c, d, t \in Nat : a <= b /\ b + c + d <= 2 * t + 2 => a + c + d <= 2 * t + 2
    OBVIOUS
  <2>7. WithinBudget(p)'
    BY <1>2, <2>1, <2>2, <2>3, <2>4, <2>5, <2>6 DEF WithinBudget
  <2>8. KnowsItsIds(p)'
    BY <1>2, <2>2, <2>4 DEF KnowsItsIds
  <2> QED
    BY <2>7, <2>8
<1>4. ClientTypes'
  BY <1>2 DEF SysInv, ClientTypes
<1> QED
  BY <1>1, <1>3, <1>4 DEF SysInv

\* A step of SCII keeps it too.
LEMMA SCIIStepKeeps ==
  ASSUME SysInv, SCII!ServerStep, UNCHANGED <<se_vars, client_vars>>
  PROVE  SysInv'
<1>1. AtSE!XInv' /\ AtSCII!XInv'
  BY SCIIMoves
<1>2. UNCHANGED <<status, se_client_id, scii_client_id, read_fds, typed, se_told>>
  BY DEF client_vars, se_vars
<1>3. ASSUME NEW p \in Client
      PROVE  KnowsItsIds(p)' /\ WithinBudget(p)'
  <2>1. AtSCII!ServerMoves(p) /\ AtSE!Load(p)' = AtSE!Load(p)
    BY SCIIMoves
  <2>2. AtSCII!Load(p)' <= AtSCII!Load(p) /\ (scii_told'[p] = scii_told[p] \/ scii_told[p] = NoId)
    BY <2>1, NamesAtSCII DEF AtSCII!ServerMoves
  <2>3. AtSCII!Load(p)' \in Nat
    <3>1. NaturalLoads'
      BY <1>1, LoadsAreNatural, PTL
    <3> QED
      BY <3>1 DEF NaturalLoads
  <2>4. /\ AtSE!Load(p) \in Nat /\ AtSCII!Load(p) \in Nat /\ Typing(p) \in Nat /\ typed \in Nat
        /\ AtSE!Load(p) + AtSCII!Load(p) + Typing(p) <= 2 * typed + 2
        /\ KnowsItsIds(p)
    BY LoadsAreCounted DEF SysInv, WithinBudget
  <2>5. Typing(p)' = Typing(p)
    BY <1>2 DEF Typing
  <2>6. \A a, b, c, d, t \in Nat : a <= b /\ c + b + d <= 2 * t + 2 => c + a + d <= 2 * t + 2
    OBVIOUS
  <2>7. WithinBudget(p)'
    BY <1>2, <2>1, <2>2, <2>3, <2>4, <2>5, <2>6 DEF WithinBudget
  <2>8. KnowsItsIds(p)'
    BY <1>2, <2>2, <2>4 DEF KnowsItsIds
  <2> QED
    BY <2>7, <2>8
<1>4. ClientTypes'
  BY <1>2 DEF SysInv, ClientTypes
<1> QED
  BY <1>1, <1>3, <1>4 DEF SysInv

\* The first states.
LEMMA SysInit == ASSUME Init PROVE SysInv /\ SE!Init /\ SCII!Init
<1>1. AtSE!Init /\ AtSCII!Init /\ SE!Init /\ SCII!Init
  BY StepsAtSE, StepsAtSCII DEF Init
<1>2. AtSE!XInv
  BY <1>1, AssumptionAtSE, AtSE!InitSays
<1>3. AtSCII!XInv
  BY <1>1, AssumptionAtSCII, AtSCII!InitSays
<1>4. ClientTypes
  BY SystemAssumption DEF Init, ClientTypes, Statuses, NoId
<1>5. ASSUME NEW p \in Client
      PROVE  KnowsItsIds(p) /\ WithinBudget(p)
  <2>1. AtSE!Load(p) \in {0, 1} /\ AtSCII!Load(p) \in {0, 1}
    <3>1. AtSE!Carried(se_conn[p]) = 0 /\ AtSCII!Carried(scii_conn[p]) = 0
      BY <1>1, AssumptionAtSE, AssumptionAtSCII DEF AtSE!Init, AtSCII!Init, AtSE!Idle, AtSCII!Idle,
           AtSE!Carried, AtSCII!Carried, AtSE!Ends, AtSCII!Ends
    <3> QED
      BY <3>1 DEF AtSE!Load, AtSCII!Load
  <2>2. Typing(p) = 0 /\ typed = 0 /\ KnowsItsIds(p)
    BY DEF Init, Typing, KnowsItsIds
  <2> QED
    BY <2>1, <2>2 DEF WithinBudget
<1> QED
  BY <1>1, <1>2, <1>3, <1>4, <1>5 DEF SysInv

\* Every step keeps SysInv, and is a step of SE and of SCII as EnergyServer has them.
LEMMA SysNext ==
  ASSUME SysInv, [Next]_svars
  PROVE  SysInv' /\ [SE!Next]_(SE!vars) /\ [SCII!Next]_(SCII!vars)
<1>1. CASE SE!ServerStep /\ UNCHANGED <<scii_vars, client_vars>>
  BY <1>1, SEMoves, SEStepKeeps
<1>2. CASE SCII!ServerStep /\ UNCHANGED <<se_vars, client_vars>>
  BY <1>2, SCIIMoves, SCIIStepKeeps
<1>3. CASE \E p \in Client : Selects(p) \/ ClientStep(p)
  BY <1>3, ClientStepKeeps
<1>4. CASE UNCHANGED svars
  <2>1. UNCHANGED <<se_vars, scii_vars>> /\ UNCHANGED client_vars
    BY <1>4 DEF svars
  <2>2. [SE!Next]_(SE!vars) /\ [SCII!Next]_(SCII!vars)
    BY <2>1 DEF se_vars, SE!vars, SE!registry, SE!history, SE!sockets,
                scii_vars, SCII!vars, SCII!registry, SCII!history, SCII!sockets
  <2>3. AtSE!XInv' /\ AtSCII!XInv'
    <3>1. AtSE!XInv /\ AtSCII!XInv /\ UNCHANGED AtSE!vars /\ UNCHANGED AtSCII!vars
      BY <2>1 DEF SysInv, se_vars, AtSE!vars, AtSE!registry, AtSE!history, AtSE!sockets,
                  scii_vars, AtSCII!vars, AtSCII!registry, AtSCII!history, AtSCII!sockets
    <3>2. AtSE!XInv'
      BY <3>1, AssumptionAtSE, AtSE!NextSays
    <3>3. AtSCII!XInv'
      BY <3>1, AssumptionAtSCII, AtSCII!NextSays
    <3> QED
      BY <3>2, <3>3
  <2>4. \A p \in Client : AtSE!Load(p)' = AtSE!Load(p) /\ AtSCII!Load(p)' = AtSCII!Load(p)
    BY <2>1 DEF se_vars, AtSE!Load, AtSE!Unanswered, AtSE!Waiting,
                scii_vars, AtSCII!Load, AtSCII!Unanswered, AtSCII!Waiting
  <2>5. UNCHANGED <<status, se_client_id, scii_client_id, read_fds, typed, se_told, scii_told>>
    BY <2>1 DEF client_vars, se_vars, scii_vars
  <2> QED
    BY <2>2, <2>3, <2>4, <2>5 DEF SysInv, ClientTypes, KnowsItsIds, WithinBudget, Typing
<1> QED
  BY <1>1, <1>2, <1>3, <1>4 DEF Next

\* The refinement: whatever the clients do, either server runs as EnergyServer says a
\* server does among clients that keep to the protocol.
THEOREM ServersKept == Spec => ServersKeepSpec
<1>1. Init => SysInv /\ SE!Init /\ SCII!Init
  BY SysInit
<1>2. SysInv /\ [Next]_svars => SysInv' /\ [SE!Next]_(SE!vars) /\ [SCII!Next]_(SCII!vars)
  BY SysNext
<1> QED
  BY <1>1, <1>2, PTL DEF Spec, ServersKeepSpec, SE!Spec, SCII!Spec

-----------------------------------------------------------------------------
(* What clients leave behind at the two servers. *)

\* A client that runs and has closed its socket with a server is out of the loop of that
\* server, which had listed it. And it has heard of its entry in the table, will hear of
\* it, or has none.
SEPlace(p) ==
  /\ ~SEOpen(p) => se_told[p] # NoId /\ AtSE!Unwatched(p)
  /\ se_told[p] # NoId /\ se_client_id[p] = NoId =>
       (SEOpen(p) /\ AtSE!Promised(p)) \/ ~SE!Registered(p)
SCIIPlace(p) ==
  /\ ~SCIIOpen(p) => scii_told[p] # NoId /\ AtSCII!Unwatched(p)
  /\ scii_told[p] # NoId /\ scii_client_id[p] = NoId =>
       (SCIIOpen(p) /\ AtSCII!Promised(p)) \/ ~SCII!Registered(p)

\* The server has listed the client, and has removed it; or at least it does not list a
\* client that had read all it was sent.
SEGone(p) == se_told[p] # NoId /\ ~SE!Registered(p)
SCIIGone(p) == scii_told[p] # NoId /\ ~SCII!Registered(p)
SERemoved(p) == se_conn[p]["client"].end = "fin" => ~SE!Registered(p)
SCIIRemoved(p) == scii_conn[p]["client"].end = "fin" => ~SCII!Registered(p)

Places(p) ==
  /\ status[p] = "start" => se_conn[p]["client"].end = "idle"
  /\ status[p] \in {"start", "connected to SE"} => scii_conn[p]["client"].end = "idle"
  /\ status[p] \in {"connected to SE", "running"} => SEPlace(p)
  /\ status[p] = "running" => SCIIPlace(p)
  /\ status[p] = "success" =>
       (SEGone(p) \/ SCIIGone(p)) /\ SERemoved(p) /\ SCIIRemoved(p)

PlaceInv ==
  /\ SysInv
  /\ ServersDieOfTheGone
  /\ \A p \in Client : Places(p)

\* A step of client p moves nothing in the tables and the loops of the servers.
LEMMA DoesNoRemoval ==
  ASSUME NEW p \in Client, NEW NS, NEW NC, NEW ns, NEW nc, Does(p, NS, ns, NC, nc), NEW q
  PROVE  /\ UNCHANGED <<se_told, se_running, scii_told, scii_running>>
         /\ SE!Registered(q)' <=> SE!Registered(q)
         /\ SCII!Registered(q)' <=> SCII!Registered(q)
         /\ AtSE!Unwatched(q)' <=> AtSE!Unwatched(q)
         /\ AtSCII!Unwatched(q)' <=> AtSCII!Unwatched(q)
<1>1. /\ UNCHANGED <<se_told, se_running, scii_told, scii_running, se_clients, scii_clients>>
      /\ UNCHANGED <<se_active_fd_set, se_fds, scii_active_fd_set, scii_fds>>
  BY DoesNoHarm
<1>2. (SE!Registered(q)' <=> SE!Registered(q)) /\ (SCII!Registered(q)' <=> SCII!Registered(q))
  BY <1>1 DEF SE!Registered, SCII!Registered
<1>3. /\ AtSE!Unwatched(q)' <=> AtSE!Unwatched(q)
      /\ AtSCII!Unwatched(q)' <=> AtSCII!Unwatched(q)
  BY <1>1 DEF AtSE!Unwatched, AtSE!Watched, AtSCII!Unwatched, AtSCII!Watched
<1> QED
  BY <1>1, <1>2, <1>3

\* What keeps the client's place at SE: nothing that it has been told there goes, or it
\* learns its identifier, or had nothing to learn, or is out of the table.
LEMMA SEPlaceKept ==
  ASSUME NEW p \in Client, NEW NS, NEW NC, NEW ns, NEW nc, Does(p, NS, ns, NC, nc),
         \/ SEPlace(p) /\ SEStays(p) /\ se_client_id'[p] = se_client_id[p]
         \/ SEPlace(p) /\ SEOpen(p)' /\ ~AtSE!Promised(p) /\ se_client_id'[p] = se_client_id[p]
         \/ SEOpen(p)' /\ se_client_id'[p] # NoId
         \/ SEOpen(p)' /\ se_told[p] = NoId
         \/ se_told[p] # NoId /\ ~SE!Registered(p) /\ AtSE!Unwatched(p)
  PROVE  SEPlace(p)'
<1>1. /\ UNCHANGED se_told /\ (SE!Registered(p)' <=> SE!Registered(p))
      /\ AtSE!Unwatched(p)' <=> AtSE!Unwatched(p)
  BY DoesNoRemoval
<1>2. /\ SEStays(p) => (SEOpen(p) => SEOpen(p)') /\ (AtSE!Promised(p) => AtSE!Promised(p)')
      /\ SEStays(p) /\ ~SEOpen(p)' => ~SEOpen(p)
  BY DEF SEStays, SEOpen, AtSE!Promised
<1> QED
  BY <1>1, <1>2 DEF SEPlace

\* And what keeps its place at SCII.
LEMMA SCIIPlaceKept ==
  ASSUME NEW p \in Client, NEW NS, NEW NC, NEW ns, NEW nc, Does(p, NS, ns, NC, nc),
         \/ SCIIPlace(p) /\ SCIIStays(p) /\ scii_client_id'[p] = scii_client_id[p]
         \/ SCIIPlace(p) /\ SCIIOpen(p)' /\ ~AtSCII!Promised(p)
            /\ scii_client_id'[p] = scii_client_id[p]
         \/ SCIIOpen(p)' /\ scii_client_id'[p] # NoId
         \/ SCIIOpen(p)' /\ scii_told[p] = NoId
         \/ scii_told[p] # NoId /\ ~SCII!Registered(p) /\ AtSCII!Unwatched(p)
  PROVE  SCIIPlace(p)'
<1>1. /\ UNCHANGED scii_told /\ (SCII!Registered(p)' <=> SCII!Registered(p))
      /\ AtSCII!Unwatched(p)' <=> AtSCII!Unwatched(p)
  BY DoesNoRemoval
<1>2. /\ SCIIStays(p) => (SCIIOpen(p) => SCIIOpen(p)') /\ (AtSCII!Promised(p) => AtSCII!Promised(p)')
      /\ SCIIStays(p) /\ ~SCIIOpen(p)' => ~SCIIOpen(p)
  BY DEF SCIIStays, SCIIOpen, AtSCII!Promised
<1> QED
  BY <1>1, <1>2 DEF SCIIPlace

\* No RES_ADD is under way to a client that reads another message, or nothing.
LEMMA NothingPromised ==
  ASSUME SysInv, NEW p \in Client
  PROVE  /\ HasData(se_conn[p], "client") /\ Incoming(se_conn[p], "client").type # "RES_ADD" =>
              ~AtSE!Promised(p)
         /\ ~HasData(se_conn[p], "client") => ~AtSE!Promised(p)
         /\ HasData(scii_conn[p], "client") /\ Incoming(scii_conn[p], "client").type # "RES_ADD" =>
              ~AtSCII!Promised(p)
         /\ ~HasData(scii_conn[p], "client") => ~AtSCII!Promised(p)
<1>1. AtSE!XInv /\ AtSCII!XInv
  BY DEF SysInv
<1>2. AtSE!HasData(se_conn[p], "client") /\ AtSE!Incoming(se_conn[p], "client").type # "RES_ADD" =>
        ~AtSE!Promised(p)
  BY <1>1, AssumptionAtSE, AtSE!NothingPromised
<1>3. AtSCII!HasData(scii_conn[p], "client") /\ AtSCII!Incoming(scii_conn[p], "client").type # "RES_ADD" =>
        ~AtSCII!Promised(p)
  BY <1>1, AssumptionAtSCII, AtSCII!NothingPromised
<1>4. ~AtSE!HasData(se_conn[p], "client") => ~AtSE!Promised(p)
  BY AssumptionAtSE, AtSE!EmptyPromisesNothing
<1>5. ~AtSCII!HasData(scii_conn[p], "client") => ~AtSCII!Promised(p)
  BY AssumptionAtSCII, AtSCII!EmptyPromisesNothing
<1> QED
  BY <1>2, <1>3, <1>4, <1>5, NamesAtSE, NamesAtSCII

\* The statuses in which Places asks for nothing.
LEMMA FailedHasNoPlace ==
  ASSUME SysInv, NEW p \in Client, Fails(p)
  PROVE  Places(p)'
<1>1. PICK how \in Exits \ {"success"} : status' = [status EXCEPT ![p] = how]
  BY DEF Fails
<1>2. status'[p] = how
  BY <1>1 DEF SysInv, ClientTypes
<1> QED
  BY <1>1, <1>2 DEF Places, Exits

\* The process goes on as it was.
LEMMA GoesOnInPlace ==
  ASSUME NEW p \in Client, NEW NS, NEW NC, NEW ns, NEW nc, Does(p, NS, ns, NC, nc),
         Places(p), status[p] = "running", GoesOn(p), UNCHANGED <<se_client_id, scii_client_id>>
  PROVE  Places(p)'
<1>1. UNCHANGED status /\ SEStays(p) /\ SCIIStays(p)
  BY DEF GoesOn
<1>2. SEPlace(p) => SEPlace(p)'
  BY <1>1, SEPlaceKept
<1>3. SCIIPlace(p) => SCIIPlace(p)'
  BY <1>1, SCIIPlaceKept
<1> QED
  BY <1>1, <1>2, <1>3 DEF Places

\* The steps of a client keep its places.
LEMMA ReadSEInPlace ==
  ASSUME SysInv, NEW p \in Client, Places(p),
         AdmittedBySE(p) \/ OtherFromSE(p) \/ NothingFromSE(p)
  PROVE  Places(p)'
<1>1. /\ Does(p, {}, 0, {}, 0) /\ UNCHANGED status
      /\ SEOpen(p)' /\ SCIIStays(p)
  BY ReadSEDoes
<1>2. status[p] = "running" /\ UNCHANGED scii_client_id
  BY DEF AdmittedBySE, OtherFromSE, NothingFromSE, FromSE, GoesThrough
<1>3. SEPlace(p) /\ SCIIPlace(p)
  BY <1>2 DEF Places
<1>4. SCIIPlace(p)'
  BY <1>1, <1>2, <1>3, SCIIPlaceKept
<1>5. CASE AdmittedBySE(p)
  <2>1. se_client_id'[p] # NoId
    BY <1>5, LearnsItsId DEF AdmittedBySE, SysInv, ClientTypes
  <2>2. SEPlace(p)'
    BY <1>1, <2>1, SEPlaceKept
  <2> QED
    BY <1>1, <1>2, <1>4, <2>2 DEF Places
<1>6. CASE OtherFromSE(p) \/ NothingFromSE(p)
  <2>1. ~AtSE!Promised(p) /\ UNCHANGED se_client_id
    BY <1>6, NothingPromised DEF OtherFromSE, NothingFromSE, FromSE, RequestTypes
  <2>2. SEPlace(p)'
    BY <1>1, <1>3, <2>1, SEPlaceKept
  <2> QED
    BY <1>1, <1>2, <1>4, <2>2 DEF Places
<1> QED
  BY <1>5, <1>6

\* The same of what it reads from SCII.
LEMMA ReadSCIIInPlace ==
  ASSUME SysInv, NEW p \in Client, Places(p),
         AdmittedBySCII(p) \/ OtherFromSCII(p) \/ NothingFromSCII(p)
  PROVE  Places(p)'
<1>1. /\ Does(p, {}, 0, {}, 0) /\ UNCHANGED status
      /\ SCIIOpen(p)' /\ SEStays(p)
  BY ReadSCIIDoes
<1>2. status[p] = "running" /\ UNCHANGED se_client_id
  BY DEF AdmittedBySCII, OtherFromSCII, NothingFromSCII, FromSCII, GoesThrough
<1>3. SEPlace(p) /\ SCIIPlace(p)
  BY <1>2 DEF Places
<1>4. SEPlace(p)'
  BY <1>1, <1>2, <1>3, SEPlaceKept
<1>5. CASE AdmittedBySCII(p)
  <2>1. scii_client_id'[p] # NoId
    BY <1>5, LearnsItsId DEF AdmittedBySCII, SysInv, ClientTypes
  <2>2. SCIIPlace(p)'
    BY <1>1, <2>1, SCIIPlaceKept
  <2> QED
    BY <1>1, <1>2, <1>4, <2>2 DEF Places
<1>6. CASE OtherFromSCII(p) \/ NothingFromSCII(p)
  <2>1. ~AtSCII!Promised(p) /\ UNCHANGED scii_client_id
    BY <1>6, NothingPromised DEF OtherFromSCII, NothingFromSCII, FromSCII, RequestTypes
  <2>2. SCIIPlace(p)'
    BY <1>1, <1>3, <2>1, SCIIPlaceKept
  <2> QED
    BY <1>1, <1>2, <1>4, <2>2 DEF Places
<1> QED
  BY <1>5, <1>6

\* The state of the production is read at SE and answered at SCII.
LEMMA StatusInPlace ==
  ASSUME SysInv, NEW p \in Client, Places(p), StatusFromSE(p)
  PROVE  Places(p)'
<1>1. /\ status[p] = "running" /\ UNCHANGED <<se_client_id, scii_client_id>>
      /\ HasData(se_conn[p], "client") /\ Incoming(se_conn[p], "client").type \in StatusTypes
  BY DEF StatusFromSE, FromSE, GoesThrough
<1>2. ~AtSE!Promised(p) /\ SEPlace(p) /\ SCIIPlace(p)
  BY <1>1, NothingPromised DEF StatusTypes, Places
<1>3. CASE Fails(p)
  BY <1>3, FailedHasNoPlace
<1>4. CASE \E N : Does(p, {}, -1, N, 1) /\ UNCHANGED status /\ SEOpen(p)' /\ SCIIStays(p)
  <2>1. SEPlace(p)'
    BY <1>1, <1>2, <1>4, SEPlaceKept
  <2>2. SCIIPlace(p)'
    BY <1>1, <1>2, <1>4, SCIIPlaceKept
  <2> QED
    BY <1>1, <1>4, <2>1, <2>2 DEF Places
<1> QED
  BY <1>3, <1>4, StatusDoes

\* A process that ends with success, and knows no identifier at SCII, leaves none behind
\* there when it had read all SCII had sent it.
LEMMA LeavesSCII ==
  ASSUME SysInv, NEW p \in Client, NEW how, NEW se, Exit(p, how, se, scii_conn[p]),
         SCIIPlace(p), scii_client_id[p] = NoId, scii_conn'[p]["client"].end = "fin"
  PROVE  ~SCII!Registered(p)
<1>1. scii_told[p] = NoId => ~SCII!Registered(p)
  BY DEF SCII!Registered, SCII!NoId, NoId
<1>2. CASE SCIIOpen(p)
  <2>1. AtSCII!PeerCloses(p, scii_conn[p]) /\ AtSCII!IInv
    BY <1>2, ActionsAtSCII, LoadsAreCounted DEF Exit
  <2>2. ~AtSCII!Promised(p)
    BY <2>1, AssumptionAtSCII, AtSCII!ClosesSilently
  <2> QED
    BY <1>1, <2>2 DEF SCIIPlace
<1>3. CASE ~SCIIOpen(p)
  BY <1>3 DEF SCIIPlace
<1> QED
  BY <1>2, <1>3

\* The same of SE.
LEMMA LeavesSE ==
  ASSUME SysInv, NEW p \in Client, NEW how, NEW scii, Exit(p, how, se_conn[p], scii),
         SEPlace(p), se_client_id[p] = NoId, se_conn'[p]["client"].end = "fin"
  PROVE  ~SE!Registered(p)
<1>1. se_told[p] = NoId => ~SE!Registered(p)
  BY DEF SE!Registered, SE!NoId, NoId
<1>2. CASE SEOpen(p)
  <2>1. AtSE!PeerCloses(p, se_conn[p]) /\ AtSE!IInv
    BY <1>2, ActionsAtSE, LoadsAreCounted DEF Exit
  <2>2. ~AtSE!Promised(p)
    BY <2>1, AssumptionAtSE, AtSE!ClosesSilently
  <2> QED
    BY <1>1, <2>2 DEF SEPlace
<1>3. CASE ~SEOpen(p)
  BY <1>3 DEF SEPlace
<1> QED
  BY <1>2, <1>3

\* OK(01) from SE: it has taken the client out of its table.
LEMMA RemovedBySEInPlace ==
  ASSUME SysInv, NEW p \in Client, Places(p), RemovedBySE(p)
  PROVE  Places(p)'
<1>1. /\ status[p] = "running" /\ SEPlace(p) /\ SCIIPlace(p) /\ UNCHANGED scii_client_id
      /\ HasData(se_conn[p], "client") /\ Incoming(se_conn[p], "client").type = "OK(01)"
  BY DEF RemovedBySE, FromSE, GoesThrough, Places
<1>2. Does(p, {}, 0, {}, 0)
  BY RemovedBySEDoes
<1>3. se_told[p] # NoId /\ ~SE!Registered(p) /\ AtSE!Unwatched(p)
  <2>1. AtSE!XInv /\ AtSE!HasData(se_conn[p], "client")
    BY <1>1, NamesAtSE DEF SysInv
  <2>2. AtSE!Incoming(se_conn[p], "client").type = "OK(01)" =>
          se_told[p] # AtSE!NoId /\ AtSE!Out(p)
    BY <2>1, AssumptionAtSE, AtSE!IncomingSays
  <2> QED
    BY <1>1, <2>2, NamesAtSE, ActionsAtSE DEF AtSE!Out
<1>4. CASE UNCHANGED status /\ SCIIStays(p)
  <2>1. SEPlace(p)'
    BY <1>2, <1>3, SEPlaceKept
  <2>2. SCIIPlace(p)'
    BY <1>1, <1>2, <1>4, SCIIPlaceKept
  <2> QED
    BY <1>1, <1>4, <2>1, <2>2 DEF Places
<1>5. CASE status' = [status EXCEPT ![p] = "success"] /\ scii_client_id[p] = NoId
  <2>1. status'[p] = "success"
    BY <1>5 DEF SysInv, ClientTypes
  <2>2. PICK c : Exit(p, "success", c, scii_conn[p])
    BY <1>5 DEF RemovedBySE
  <2>3. scii_conn'[p]["client"].end = "fin" => ~SCII!Registered(p)
    BY <1>1, <1>5, <2>2, LeavesSCII
  <2>4. /\ UNCHANGED se_told
        /\ SE!Registered(p)' <=> SE!Registered(p)
        /\ SCII!Registered(p)' <=> SCII!Registered(p)
    BY <1>2, DoesNoRemoval
  <2>5. SEGone(p)' /\ SERemoved(p)' /\ SCIIRemoved(p)'
    BY <1>3, <2>3, <2>4 DEF SEGone, SERemoved, SCIIRemoved
  <2> QED
    BY <2>1, <2>5 DEF Places
<1> QED
  BY <1>4, <1>5, RemovedBySEDoes

\* OK(01) from SCII.
LEMMA RemovedBySCIIInPlace ==
  ASSUME SysInv, NEW p \in Client, Places(p), RemovedBySCII(p)
  PROVE  Places(p)'
<1>1. /\ status[p] = "running" /\ SEPlace(p) /\ SCIIPlace(p) /\ UNCHANGED se_client_id
      /\ HasData(scii_conn[p], "client") /\ Incoming(scii_conn[p], "client").type = "OK(01)"
  BY DEF RemovedBySCII, FromSCII, GoesThrough, Places
<1>2. Does(p, {}, 0, {}, 0)
  BY RemovedBySCIIDoes
<1>3. scii_told[p] # NoId /\ ~SCII!Registered(p) /\ AtSCII!Unwatched(p)
  <2>1. AtSCII!XInv /\ AtSCII!HasData(scii_conn[p], "client")
    BY <1>1, NamesAtSCII DEF SysInv
  <2>2. AtSCII!Incoming(scii_conn[p], "client").type = "OK(01)" =>
          scii_told[p] # AtSCII!NoId /\ AtSCII!Out(p)
    BY <2>1, AssumptionAtSCII, AtSCII!IncomingSays
  <2> QED
    BY <1>1, <2>2, NamesAtSCII, ActionsAtSCII DEF AtSCII!Out
<1>4. CASE UNCHANGED status /\ SEStays(p)
  <2>1. SCIIPlace(p)'
    BY <1>2, <1>3, SCIIPlaceKept
  <2>2. SEPlace(p)'
    BY <1>1, <1>2, <1>4, SEPlaceKept
  <2> QED
    BY <1>1, <1>4, <2>1, <2>2 DEF Places
<1>5. CASE status' = [status EXCEPT ![p] = "success"] /\ se_client_id[p] = NoId
  <2>1. status'[p] = "success"
    BY <1>5 DEF SysInv, ClientTypes
  <2>2. PICK c : Exit(p, "success", se_conn[p], c)
    BY <1>5 DEF RemovedBySCII
  <2>3. se_conn'[p]["client"].end = "fin" => ~SE!Registered(p)
    BY <1>1, <1>5, <2>2, LeavesSE
  <2>4. /\ UNCHANGED scii_told
        /\ SE!Registered(p)' <=> SE!Registered(p)
        /\ SCII!Registered(p)' <=> SCII!Registered(p)
    BY <1>2, DoesNoRemoval
  <2>5. SCIIGone(p)' /\ SERemoved(p)' /\ SCIIRemoved(p)'
    BY <1>3, <2>3, <2>4 DEF SCIIGone, SERemoved, SCIIRemoved
  <2> QED
    BY <2>1, <2>5 DEF Places
<1> QED
  BY <1>4, <1>5, RemovedBySCIIDoes

\* connect(): the client is not in the table before the server has told it so.
LEMMA ConnectInPlace ==
  ASSUME SysInv, NEW p \in Client, Places(p), ConnectSE(p) \/ ConnectSCII(p)
  PROVE  Places(p)'
<1>1. status \in [Client -> Statuses]
  BY DEF SysInv, ClientTypes
<1>2. CASE Fails(p)
  BY <1>2, FailedHasNoPlace
<1>3. CASE /\ ConnectSE(p) /\ Does(p, {}, 0, {}, 0)
           /\ status' = [status EXCEPT ![p] = "connected to SE"]
           /\ SEOpen(p)' /\ se_told[p] = NoId
  <2>1. status'[p] = "connected to SE"
    BY <1>1, <1>3
  <2>2. SEPlace(p)'
    BY <1>3, SEPlaceKept
  <2>3. scii_conn'[p]["client"].end = "idle"
    BY <1>3 DEF ConnectSE, scii_vars, Places
  <2> QED
    BY <2>1, <2>2, <2>3 DEF Places
<1>4. CASE /\ ConnectSCII(p) /\ Does(p, {}, 0, {}, 0)
           /\ status' = [status EXCEPT ![p] = "running"] /\ SEStays(p)
           /\ SCIIOpen(p)' /\ scii_told[p] = NoId
  <2>1. status'[p] = "running" /\ UNCHANGED se_client_id /\ SEPlace(p)
    BY <1>1, <1>4 DEF ConnectSCII, Places
  <2>2. SEPlace(p)'
    BY <1>4, <2>1, SEPlaceKept
  <2>3. SCIIPlace(p)'
    BY <1>4, SCIIPlaceKept
  <2> QED
    BY <2>1, <2>2, <2>3 DEF Places
<1> QED
  BY <1>2, <1>3, <1>4, ConnectSEDoes, ConnectSCIIDoes

\* The steps that are a client's own are those of a process that has not ended.
LEMMA StepsBeforeItsEnd ==
  ASSUME NEW p \in Client, Selects(p) \/ ClientStep(p)
  PROVE  status[p] \in {"start", "connected to SE", "running"}
<1>1. CASE ConnectSE(p) \/ ConnectSCII(p) \/ SelectFails(p) \/ Selects(p)
  BY <1>1 DEF ConnectSE, ConnectSCII, SelectFails, Selects
<1>2. CASE \E f : GoesThrough(p, f)
  BY <1>2 DEF GoesThrough
<1> QED
  BY <1>1, <1>2 DEF ClientStep, EndOfInput, Kill, DisplayInfoSE, DisplayInfoSCII, QueryCondition,
     InvalidCommand, Command, AdmittedBySE, RefusedBySE, RemovedBySE, StatusFromSE, OtherFromSE,
     NothingFromSE, FromSE, AdmittedBySCII, RefusedBySCII, RemovedBySCII, OtherFromSCII,
     NothingFromSCII, FromSCII

\* Every step of the client keeps its places.
LEMMA ClientInPlace ==
  ASSUME SysInv, NEW p \in Client, Places(p), Selects(p) \/ ClientStep(p)
  PROVE  Places(p)'
<1>1. CASE ConnectSE(p) \/ ConnectSCII(p)
  BY <1>1, ConnectInPlace
<1>2. CASE SelectFails(p) \/ EndOfInput(p) \/ RefusedBySE(p) \/ RefusedBySCII(p)
  BY <1>2, EndDoes, FailedHasNoPlace
<1>3. CASE Selects(p) \/ InvalidCommand(p)
  <2>1. /\ UNCHANGED <<se_vars, scii_vars, status, se_client_id, scii_client_id>>
        /\ status[p] = "running"
    BY <1>3 DEF Selects, InvalidCommand, Command, GoesThrough
  <2>2. /\ Does(p, {}, 0, {}, 0)
        /\ se_conn'[p] = se_conn[p] /\ scii_conn'[p] = scii_conn[p]
    BY <2>1, RestDoes
  <2>3. GoesOn(p)
    BY <2>1, <2>2 DEF GoesOn, SEStays, SCIIStays
  <2> QED
    BY <2>1, <2>2, <2>3, GoesOnInPlace
<1>4. CASE Kill(p)
  <2>1. UNCHANGED <<se_client_id, scii_client_id>> /\ status[p] = "running"
    BY <1>4 DEF Kill, Command, GoesThrough
  <2>2. /\ Does(p, {RemovalAtSE(p)}, 1, {RemovalAtSCII(p)}, 1)
        /\ GoesOn(p) \/ Fails(p)
    BY <1>4, KillDoes
  <2> QED
    BY <2>1, <2>2, GoesOnInPlace, FailedHasNoPlace
<1>5. CASE DisplayInfoSE(p) \/ DisplayInfoSCII(p) \/ QueryCondition(p)
  <2>1. UNCHANGED <<se_client_id, scii_client_id>> /\ status[p] = "running"
    BY <1>5 DEF DisplayInfoSE, DisplayInfoSCII, QueryCondition, Command, GoesThrough
  <2>2. GoesOn(p) \/ Fails(p)
    BY <1>5, RequestDoes
  <2>3. \E NS, NC, ns, nc : Does(p, NS, ns, NC, nc)
    BY <1>5, RequestDoes
  <2> QED
    BY <2>1, <2>2, <2>3, GoesOnInPlace, FailedHasNoPlace
<1> QED
  BY <1>1, <1>2, <1>3, <1>4, <1>5, ReadSEInPlace, ReadSCIIInPlace, StatusInPlace,
     RemovedBySEInPlace, RemovedBySCIIInPlace DEF ClientStep

\* The other clients are as they were.
LEMMA OthersInPlace ==
  ASSUME SysInv, NEW p \in Client, NEW NS, NEW NC, NEW ns, NEW nc, Does(p, NS, ns, NC, nc), Own(p),
         NEW q \in Client \ {p}
  PROVE  /\ se_conn'[q] = se_conn[q] /\ scii_conn'[q] = scii_conn[q] /\ status'[q] = status[q]
         /\ Places(q) => Places(q)'
<1>1. se_conn'[q] = se_conn[q] /\ scii_conn'[q] = scii_conn[q]
  BY DoesAlone
<1>2. /\ UNCHANGED <<se_told, scii_told>>
      /\ SE!Registered(q)' <=> SE!Registered(q)
      /\ SCII!Registered(q)' <=> SCII!Registered(q)
      /\ AtSE!Unwatched(q)' <=> AtSE!Unwatched(q)
      /\ AtSCII!Unwatched(q)' <=> AtSCII!Unwatched(q)
  BY DoesNoRemoval
<1>3. /\ status'[q] = status[q]
      /\ se_client_id'[q] = se_client_id[q] /\ scii_client_id'[q] = scii_client_id[q]
  BY <1>2, OwnKeeps
<1>4. /\ SEOpen(q)' <=> SEOpen(q)
      /\ SCIIOpen(q)' <=> SCIIOpen(q)
      /\ AtSE!Promised(q)' <=> AtSE!Promised(q)
      /\ AtSCII!Promised(q)' <=> AtSCII!Promised(q)
  BY <1>1 DEF SEOpen, SCIIOpen, AtSE!Promised, AtSCII!Promised
<1>5. Places(q) => Places(q)'
  BY <1>1, <1>2, <1>3, <1>4 DEF Places, SEPlace, SCIIPlace, SEGone, SCIIGone, SERemoved, SCIIRemoved
<1> QED
  BY <1>1, <1>3, <1>5

\* A step of a client that runs keeps the causes that a server had to die.
LEMMA ClientStepInPlace ==
  ASSUME PlaceInv, NEW p \in Client, Selects(p) \/ ClientStep(p)
  PROVE  PlaceInv'
<1>1. SysInv /\ SysInv'
  BY ClientStepKeeps DEF PlaceInv
<1>2. PICK ns \in Int, nc \in Int : Sends(p, ns, nc)
  BY <1>1, StepSends
<1>3. /\ \E NS, NC : Does(p, NS, ns, NC, nc)
      /\ \E s \in Statuses : status' = status \/ status' = [status EXCEPT ![p] = s]
  BY <1>2 DEF Sends
<1>4. PICK NS, NC : Does(p, NS, ns, NC, nc)
  BY <1>3
<1>5. Own(p)
  BY <1>1, <1>3, OwnOfStep
<1>6. UNCHANGED <<se_running, scii_running>>
  BY <1>4, DoesNoHarm
<1>7. Places(p)'
  BY <1>1, ClientInPlace DEF PlaceInv
<1>8. \A q \in Client \ {p} :
        /\ se_conn'[q] = se_conn[q] /\ scii_conn'[q] = scii_conn[q] /\ status'[q] = status[q]
        /\ Places(q)'
  BY <1>1, <1>4, <1>5, OthersInPlace DEF PlaceInv
<1>9. status[p] \notin Exits
  BY StepsBeforeItsEnd DEF Exits
<1>10. ~se_running' => \E q \in Client : GoneUnanswered(q, se_conn[q])'
  BY <1>6, <1>8, <1>9 DEF PlaceInv, ServersDieOfTheGone, GoneUnanswered
<1>11. ~scii_running' => \E q \in Client : GoneUnanswered(q, scii_conn[q])'
  BY <1>6, <1>8, <1>9 DEF PlaceInv, ServersDieOfTheGone, GoneUnanswered
<1>12. ServersDieOfTheGone'
  BY <1>10, <1>11 DEF ServersDieOfTheGone
<1> QED
  BY <1>1, <1>7, <1>8, <1>12 DEF PlaceInv

\* A step of SE keeps the place of every client there.
LEMMA SEKeepsPlace ==
  ASSUME SysInv, SE!ServerStep, UNCHANGED <<scii_vars, client_vars>>, NEW p \in Client
  PROVE  /\ SEPlace(p) => SEPlace(p)'
         /\ SEGone(p) => SEGone(p)'
         /\ SERemoved(p) => SERemoved(p)'
         /\ se_conn[p]["client"].end = "idle" => se_conn'[p]["client"].end = "idle"
         /\ GoneUnanswered(p, se_conn[p]) => GoneUnanswered(p, se_conn[p])'
<1>1. AtSE!ServerMoves(p)
  BY SEMoves
<1>2. AtSE!XInv /\ AtSE!TInv /\ [AtSE!Next]_(AtSE!vars)
  BY StepsAtSE DEF SysInv, AtSE!XInv, AtSE!Next
<1>3. /\ AtSE!IsOpen(se_conn'[p], "client") <=> AtSE!IsOpen(se_conn[p], "client")
      /\ se_told'[p] = se_told[p] \/ se_told[p] = AtSE!NoId
      /\ se_told'[p] # se_told[p] => se_conn'[p]["client"].end # "fin"
      /\ AtSE!EndsOn(se_conn[p], se_conn'[p])
  BY <1>1 DEF AtSE!ServerMoves
<1>4. /\ se_told[p] # AtSE!NoId /\ AtSE!Promised(p) /\ AtSE!IsOpen(se_conn[p], "client") =>
           AtSE!Promised(p)'
      /\ se_told'[p] # se_told[p] /\ AtSE!IsOpen(se_conn[p], "client") => AtSE!Promised(p)'
  BY <1>1, <1>2, AssumptionAtSE, AtSE!ServerPromises
<1>5. se_told[p] # NoId /\ ~SE!Registered(p) => se_told'[p] # NoId /\ ~SE!Registered(p)'
  <2>1. se_told'[p] = se_told[p] /\ se_told[p] # AtSE!NoId /\ ~AtSE!Registered(p) =>
          ~AtSE!Registered(p)'
    BY <1>2, AssumptionAtSE, AtSE!StaysAway
  <2>2. /\ SE!Registered(p) <=> AtSE!Registered(p)
        /\ SE!Registered(p)' <=> AtSE!Registered(p)'
    BY DEF SE!Registered, SE!Slot, SE!NoId, AtSE!Registered, AtSE!Slot, AtSE!NoId
  <2> QED
    BY <1>3, <2>1, <2>2, NamesAtSE
<1>6. SEOpen(p)' <=> SEOpen(p)
  BY <1>3, NamesAtSE DEF SEOpen
<1>7. /\ se_told'[p] = se_told[p] \/ se_told[p] = NoId
      /\ se_told[p] # NoId /\ AtSE!Promised(p) /\ SEOpen(p) => AtSE!Promised(p)'
      /\ se_told'[p] # se_told[p] /\ SEOpen(p) => AtSE!Promised(p)'
  BY <1>3, <1>4, NamesAtSE DEF SEOpen
<1>8. se_told[p] # NoId /\ AtSE!Unwatched(p) => AtSE!Unwatched(p)'
  <2>1. se_told[p] # AtSE!NoId /\ AtSE!Unwatched(p) => AtSE!Unwatched(p)'
    BY <1>2, AssumptionAtSE, AtSE!StaysUnwatched
  <2> QED
    BY <2>1, NamesAtSE
<1>9. UNCHANGED <<status, se_client_id>>
  BY DEF client_vars
<1>10. SEPlace(p) => SEPlace(p)'
  BY <1>5, <1>6, <1>7, <1>8, <1>9 DEF SEPlace
<1>11. \/ se_conn'[p]["client"].end = se_conn[p]["client"].end
       \/ /\ se_conn[p]["client"].end \in {"fin", "rst"}
          /\ se_conn'[p]["client"].end \in {"finrst", "broken"}
  BY <1>3 DEF AtSE!EndsOn
<1>12. SERemoved(p) => SERemoved(p)'
  <2>1. se_told'[p] = NoId => ~SE!Registered(p)'
    BY DEF SE!Registered, SE!NoId, NoId
  <2> QED
    BY <1>3, <1>5, <1>11, <2>1 DEF SERemoved
<1>13. GoneUnanswered(p, se_conn[p]) => GoneUnanswered(p, se_conn[p])'
  BY <1>9, <1>11 DEF GoneUnanswered
<1> QED
  BY <1>5, <1>10, <1>11, <1>12, <1>13 DEF SEGone

\* SE dies of a client that has ended: one that runs has its socket open, or SE does not
\* watch the connection.
LEMMA SEDiesOfTheGone ==
  ASSUME SysInv, NEW p \in Client, Places(p), AtSE!Deadly(p)
  PROVE  GoneUnanswered(p, se_conn[p])
<1>1. /\ ~AtSE!Unwatched(p)
      /\ se_conn[p]["client"].end \in {"finrst", "broken"}
  BY DEF AtSE!Deadly
<1>2. ~SEOpen(p) /\ se_conn[p]["client"].end # "idle"
  BY <1>1 DEF SEOpen, IsOpen
<1>3. status[p] \notin {"start", "connected to SE", "running"}
  BY <1>1, <1>2 DEF Places, SEPlace
<1>4. status[p] \in Statuses
  BY DEF SysInv, ClientTypes
<1> QED
  BY <1>1, <1>3, <1>4 DEF GoneUnanswered, Statuses

\* A step of SE.
LEMMA SEStepInPlace ==
  ASSUME PlaceInv, SE!ServerStep, UNCHANGED <<scii_vars, client_vars>>
  PROVE  PlaceInv'
<1>1. SysInv /\ SysInv'
  BY SEStepKeeps DEF PlaceInv
<1>2. UNCHANGED <<status, scii_client_id, scii_active_fd_set, scii_fds, scii_running, scii_told,
                scii_conn, scii_clients>>
  BY DEF client_vars, scii_vars
<1>3. ASSUME NEW p \in Client
      PROVE  /\ Places(p)'
             /\ GoneUnanswered(p, scii_conn[p]) => GoneUnanswered(p, scii_conn[p])'
  <2>1. /\ SEPlace(p) => SEPlace(p)'
        /\ SEGone(p) => SEGone(p)'
        /\ SERemoved(p) => SERemoved(p)'
        /\ se_conn[p]["client"].end = "idle" => se_conn'[p]["client"].end = "idle"
    BY <1>1, SEKeepsPlace
  <2>2. /\ SCII!Registered(p)' <=> SCII!Registered(p)
        /\ SCIIOpen(p)' <=> SCIIOpen(p)
        /\ AtSCII!Promised(p)' <=> AtSCII!Promised(p)
        /\ AtSCII!Unwatched(p)' <=> AtSCII!Unwatched(p)
    BY <1>2 DEF SCIIOpen, SCII!Registered, AtSCII!Promised, AtSCII!Unwatched, AtSCII!Watched
  <2>3. /\ SCIIPlace(p) => SCIIPlace(p)'
        /\ SCIIGone(p) => SCIIGone(p)'
        /\ SCIIRemoved(p) => SCIIRemoved(p)'
    BY <1>2, <2>2 DEF SCIIPlace, SCIIGone, SCIIRemoved
  <2>4. Places(p)
    BY DEF PlaceInv
  <2>5. Places(p)'
    BY <1>2, <2>1, <2>3, <2>4 DEF Places
  <2> QED
    BY <1>2, <2>5 DEF GoneUnanswered
<1>4. ~se_running' => \E p \in Client : GoneUnanswered(p, se_conn[p])'
  <2>1. \A p \in Client : GoneUnanswered(p, se_conn[p]) => GoneUnanswered(p, se_conn[p])'
    BY <1>1, SEKeepsPlace
  <2>2. CASE ~se_running
    BY <2>1, <2>2 DEF PlaceInv, ServersDieOfTheGone
  <2>3. CASE se_running' # se_running
    <3>1. PICK p \in Client : AtSE!Deadly(p)
      BY <1>1, <2>3, SEMoves
    <3>2. GoneUnanswered(p, se_conn[p])
      BY <1>1, <3>1, SEDiesOfTheGone DEF PlaceInv
    <3> QED
      BY <2>1, <3>2
  <2> QED
    BY <2>2, <2>3
<1>5. ServersDieOfTheGone'
  BY <1>2, <1>3, <1>4 DEF PlaceInv, ServersDieOfTheGone
<1> QED
  BY <1>1, <1>3, <1>5 DEF PlaceInv

\* A step of SCII keeps the place of every client there.
LEMMA SCIIKeepsPlace ==
  ASSUME SysInv, SCII!ServerStep, UNCHANGED <<se_vars, client_vars>>, NEW p \in Client
  PROVE  /\ SCIIPlace(p) => SCIIPlace(p)'
         /\ SCIIGone(p) => SCIIGone(p)'
         /\ SCIIRemoved(p) => SCIIRemoved(p)'
         /\ scii_conn[p]["client"].end = "idle" => scii_conn'[p]["client"].end = "idle"
         /\ GoneUnanswered(p, scii_conn[p]) => GoneUnanswered(p, scii_conn[p])'
<1>1. AtSCII!ServerMoves(p)
  BY SCIIMoves
<1>2. AtSCII!XInv /\ AtSCII!TInv /\ [AtSCII!Next]_(AtSCII!vars)
  BY StepsAtSCII DEF SysInv, AtSCII!XInv, AtSCII!Next
<1>3. /\ AtSCII!IsOpen(scii_conn'[p], "client") <=> AtSCII!IsOpen(scii_conn[p], "client")
      /\ scii_told'[p] = scii_told[p] \/ scii_told[p] = AtSCII!NoId
      /\ scii_told'[p] # scii_told[p] => scii_conn'[p]["client"].end # "fin"
      /\ AtSCII!EndsOn(scii_conn[p], scii_conn'[p])
  BY <1>1 DEF AtSCII!ServerMoves
<1>4. /\ scii_told[p] # AtSCII!NoId /\ AtSCII!Promised(p) /\ AtSCII!IsOpen(scii_conn[p], "client") =>
           AtSCII!Promised(p)'
      /\ scii_told'[p] # scii_told[p] /\ AtSCII!IsOpen(scii_conn[p], "client") => AtSCII!Promised(p)'
  BY <1>1, <1>2, AssumptionAtSCII, AtSCII!ServerPromises
<1>5. scii_told[p] # NoId /\ ~SCII!Registered(p) => scii_told'[p] # NoId /\ ~SCII!Registered(p)'
  <2>1. scii_told'[p] = scii_told[p] /\ scii_told[p] # AtSCII!NoId /\ ~AtSCII!Registered(p) =>
          ~AtSCII!Registered(p)'
    BY <1>2, AssumptionAtSCII, AtSCII!StaysAway
  <2>2. /\ SCII!Registered(p) <=> AtSCII!Registered(p)
        /\ SCII!Registered(p)' <=> AtSCII!Registered(p)'
    BY DEF SCII!Registered, SCII!Slot, SCII!NoId, AtSCII!Registered, AtSCII!Slot, AtSCII!NoId
  <2> QED
    BY <1>3, <2>1, <2>2, NamesAtSCII
<1>6. SCIIOpen(p)' <=> SCIIOpen(p)
  BY <1>3, NamesAtSCII DEF SCIIOpen
<1>7. /\ scii_told'[p] = scii_told[p] \/ scii_told[p] = NoId
      /\ scii_told[p] # NoId /\ AtSCII!Promised(p) /\ SCIIOpen(p) => AtSCII!Promised(p)'
      /\ scii_told'[p] # scii_told[p] /\ SCIIOpen(p) => AtSCII!Promised(p)'
  BY <1>3, <1>4, NamesAtSCII DEF SCIIOpen
<1>8. scii_told[p] # NoId /\ AtSCII!Unwatched(p) => AtSCII!Unwatched(p)'
  <2>1. scii_told[p] # AtSCII!NoId /\ AtSCII!Unwatched(p) => AtSCII!Unwatched(p)'
    BY <1>2, AssumptionAtSCII, AtSCII!StaysUnwatched
  <2> QED
    BY <2>1, NamesAtSCII
<1>9. UNCHANGED <<status, scii_client_id>>
  BY DEF client_vars
<1>10. SCIIPlace(p) => SCIIPlace(p)'
  BY <1>5, <1>6, <1>7, <1>8, <1>9 DEF SCIIPlace
<1>11. \/ scii_conn'[p]["client"].end = scii_conn[p]["client"].end
       \/ /\ scii_conn[p]["client"].end \in {"fin", "rst"}
          /\ scii_conn'[p]["client"].end \in {"finrst", "broken"}
  BY <1>3 DEF AtSCII!EndsOn
<1>12. SCIIRemoved(p) => SCIIRemoved(p)'
  <2>1. scii_told'[p] = NoId => ~SCII!Registered(p)'
    BY DEF SCII!Registered, SCII!NoId, NoId
  <2> QED
    BY <1>3, <1>5, <1>11, <2>1 DEF SCIIRemoved
<1>13. GoneUnanswered(p, scii_conn[p]) => GoneUnanswered(p, scii_conn[p])'
  BY <1>9, <1>11 DEF GoneUnanswered
<1> QED
  BY <1>5, <1>10, <1>11, <1>12, <1>13 DEF SCIIGone

\* SCII dies of a client that has ended: one that runs has its socket open, or SCII does not
\* watch the connection.
LEMMA SCIIDiesOfTheGone ==
  ASSUME SysInv, NEW p \in Client, Places(p), AtSCII!Deadly(p)
  PROVE  GoneUnanswered(p, scii_conn[p])
<1>1. /\ ~AtSCII!Unwatched(p)
      /\ scii_conn[p]["client"].end \in {"finrst", "broken"}
  BY DEF AtSCII!Deadly
<1>2. ~SCIIOpen(p) /\ scii_conn[p]["client"].end # "idle"
  BY <1>1 DEF SCIIOpen, IsOpen
<1>3. status[p] \notin {"start", "connected to SE", "running"}
  BY <1>1, <1>2 DEF Places, SCIIPlace
<1>4. status[p] \in Statuses
  BY DEF SysInv, ClientTypes
<1> QED
  BY <1>1, <1>3, <1>4 DEF GoneUnanswered, Statuses

\* A step of SCII.
LEMMA SCIIStepInPlace ==
  ASSUME PlaceInv, SCII!ServerStep, UNCHANGED <<se_vars, client_vars>>
  PROVE  PlaceInv'
<1>1. SysInv /\ SysInv'
  BY SCIIStepKeeps DEF PlaceInv
<1>2. UNCHANGED <<status, se_client_id, se_active_fd_set, se_fds, se_running, se_told,
                se_conn, se_clients>>
  BY DEF client_vars, se_vars
<1>3. ASSUME NEW p \in Client
      PROVE  /\ Places(p)'
             /\ GoneUnanswered(p, se_conn[p]) => GoneUnanswered(p, se_conn[p])'
  <2>1. /\ SCIIPlace(p) => SCIIPlace(p)'
        /\ SCIIGone(p) => SCIIGone(p)'
        /\ SCIIRemoved(p) => SCIIRemoved(p)'
        /\ scii_conn[p]["client"].end = "idle" => scii_conn'[p]["client"].end = "idle"
    BY <1>1, SCIIKeepsPlace
  <2>2. /\ SE!Registered(p)' <=> SE!Registered(p)
        /\ SEOpen(p)' <=> SEOpen(p)
        /\ AtSE!Promised(p)' <=> AtSE!Promised(p)
        /\ AtSE!Unwatched(p)' <=> AtSE!Unwatched(p)
    BY <1>2 DEF SEOpen, SE!Registered, AtSE!Promised, AtSE!Unwatched, AtSE!Watched
  <2>3. /\ SEPlace(p) => SEPlace(p)'
        /\ SEGone(p) => SEGone(p)'
        /\ SERemoved(p) => SERemoved(p)'
    BY <1>2, <2>2 DEF SEPlace, SEGone, SERemoved
  <2>4. Places(p)
    BY DEF PlaceInv
  <2>5. Places(p)'
    BY <1>2, <2>1, <2>3, <2>4 DEF Places
  <2> QED
    BY <1>2, <2>5 DEF GoneUnanswered
<1>4. ~scii_running' => \E p \in Client : GoneUnanswered(p, scii_conn[p])'
  <2>1. \A p \in Client : GoneUnanswered(p, scii_conn[p]) => GoneUnanswered(p, scii_conn[p])'
    BY <1>1, SCIIKeepsPlace
  <2>2. CASE ~scii_running
    BY <2>1, <2>2 DEF PlaceInv, ServersDieOfTheGone
  <2>3. CASE scii_running' # scii_running
    <3>1. PICK p \in Client : AtSCII!Deadly(p)
      BY <1>1, <2>3, SCIIMoves
    <3>2. GoneUnanswered(p, scii_conn[p])
      BY <1>1, <3>1, SCIIDiesOfTheGone DEF PlaceInv
    <3> QED
      BY <2>1, <3>2
  <2> QED
    BY <2>2, <2>3
<1>5. ServersDieOfTheGone'
  BY <1>2, <1>3, <1>4 DEF PlaceInv, ServersDieOfTheGone
<1> QED
  BY <1>1, <1>3, <1>5 DEF PlaceInv

\* The first states.
LEMMA PlaceInit == Init => PlaceInv
<1> SUFFICES ASSUME Init PROVE PlaceInv
  OBVIOUS
<1>1. SysInv /\ SE!Init /\ SCII!Init
  BY SysInit
<1>2. se_running /\ scii_running
  BY <1>1 DEF SE!Init, SCII!Init
<1>3. ASSUME NEW p \in Client
      PROVE  Places(p)
  <2>1. se_conn[p]["client"].end = "idle" /\ scii_conn[p]["client"].end = "idle"
    BY <1>1 DEF SE!Init, SE!Idle, SE!Ends, SCII!Init, SCII!Idle, SCII!Ends
  <2>2. status[p] = "start"
    BY DEF Init
  <2> QED
    BY <2>1, <2>2 DEF Places
<1> QED
  BY <1>1, <1>2, <1>3 DEF PlaceInv, ServersDieOfTheGone

\* Every step.
LEMMA PlaceNext == PlaceInv /\ [Next]_svars => PlaceInv'
<1> SUFFICES ASSUME PlaceInv, [Next]_svars PROVE PlaceInv'
  OBVIOUS
<1>1. CASE SE!ServerStep /\ UNCHANGED <<scii_vars, client_vars>>
  BY <1>1, SEStepInPlace
<1>2. CASE SCII!ServerStep /\ UNCHANGED <<se_vars, client_vars>>
  BY <1>2, SCIIStepInPlace
<1>3. CASE \E p \in Client : Selects(p) \/ ClientStep(p)
  BY <1>3, ClientStepInPlace
<1>4. CASE UNCHANGED svars
  <2>1. SysInv'
    BY SysNext DEF PlaceInv
  <2>2. /\ UNCHANGED <<se_conn, se_told, se_running, se_clients, se_active_fd_set, se_fds>>
        /\ UNCHANGED <<scii_conn, scii_told, scii_running, scii_clients, scii_active_fd_set, scii_fds>>
        /\ UNCHANGED <<status, se_client_id, scii_client_id>>
    BY <1>4 DEF svars, se_vars, scii_vars, client_vars
  <2>3. ASSUME NEW p \in Client
        PROVE  Places(p)'
    <3>1. /\ SE!Registered(p)' <=> SE!Registered(p)
          /\ SCII!Registered(p)' <=> SCII!Registered(p)
      BY <2>2 DEF SE!Registered, SCII!Registered
    <3>2. /\ AtSE!Promised(p)' <=> AtSE!Promised(p)
          /\ AtSCII!Promised(p)' <=> AtSCII!Promised(p)
          /\ AtSE!Unwatched(p)' <=> AtSE!Unwatched(p)
          /\ AtSCII!Unwatched(p)' <=> AtSCII!Unwatched(p)
      BY <2>2 DEF AtSE!Promised, AtSE!Unwatched, AtSE!Watched,
                  AtSCII!Promised, AtSCII!Unwatched, AtSCII!Watched
    <3>3. Places(p)
      BY DEF PlaceInv
    <3> QED
      BY <2>2, <3>1, <3>2, <3>3 DEF Places, SEPlace, SCIIPlace, SEOpen, SCIIOpen,
         SEGone, SCIIGone, SERemoved, SCIIRemoved
  <2>4. ServersDieOfTheGone'
    BY <2>2 DEF PlaceInv, ServersDieOfTheGone, GoneUnanswered
  <2> QED
    BY <2>1, <2>3, <2>4 DEF PlaceInv
<1> QED
  BY <1>1, <1>2, <1>3, <1>4 DEF Next

\* A server dies of SIGPIPE only after answers to a client that has ended: whatever a
\* client that runs has sent, and whichever of its sockets it has closed, no server dies
\* of it.
THEOREM OnlyTheGoneKill == Spec => []ServersDieOfTheGone
<1>1. PlaceInv => ServersDieOfTheGone
  BY DEF PlaceInv
<1> QED
  BY <1>1, PlaceInit, PlaceNext, PTL DEF Spec

\* A client that has ended with EXIT_SUCCESS is not in the tables of both servers, and in
\* neither if it had read all the server had sent it: the kill of a hasty user between the
\* two RES_ADD leaves it in one table at most.
THEOREM SuccessRemoves == Spec => []SuccessMeansRemoved
<1>1. PlaceInv => SuccessMeansRemoved
  BY DEF PlaceInv, Places, SuccessMeansRemoved, SEGone, SCIIGone, SERemoved, SCIIRemoved
<1> QED
  BY <1>1, PlaceInit, PlaceNext, PTL DEF Spec

-----------------------------------------------------------------------------
(* Actions and the states of the production they answer. *)

\* The reports of the production that SE has sent, and the requests of the clients that
\* make SCII act, while they are under way.
Reports == AtSE!Number("server", AtSE!StatusTypes)
Orders == AtSCII!Number("client", AtSCII!Turns)

\* Every action of SCII, done or asked for, has a report of its own, read by the client
\* that asked or still under way.
Balance == Reports + Orders + scii_history_index <= se_history_index

\* A step of a client that gives SE, or SCII, no more of them.
SEQuiet == AtSE!NoMore(AtSE!StatusTypes)
SCIIQuiet == AtSCII!NoMore(AtSCII!Turns)

\* They are natural numbers.
Weights ==
  /\ Reports \in Nat /\ Orders \in Nat
  /\ se_history_index \in Nat /\ scii_history_index \in Nat

LEMMA WeightsAreNatural == SysInv => Weights
<1> SUFFICES ASSUME SysInv PROVE Weights
  OBVIOUS
<1>1. AtSE!TypeOK /\ AtSCII!TypeOK
  BY DEF SysInv, AtSE!XInv, AtSE!TInv, AtSE!IInv, AtSCII!XInv, AtSCII!TInv, AtSCII!IInv
<1>2. HISTORY_SIZE \in Nat
  BY SystemAssumption
<1>3. Reports \in Nat
  <2>1. se_conn \in [Client -> AtSE!Connections(AtSE!Messages)] /\ "server" \in AtSE!Ends
    BY <1>1, AssumptionAtSE, AtSE!ServerEnd DEF AtSE!TypeOK
  <2> QED
    BY <2>1, AssumptionAtSE, AtSE!PlacesAreFinite DEF Reports, AtSE!Number
<1>4. Orders \in Nat
  <2>1. scii_conn \in [Client -> AtSCII!Connections(AtSCII!Messages)] /\ "client" \in AtSCII!Ends
    BY <1>1, AssumptionAtSCII, AtSCII!ClientEnd DEF AtSCII!TypeOK
  <2> QED
    BY <2>1, AssumptionAtSCII, AtSCII!PlacesAreFinite DEF Orders, AtSCII!Number
<1>5. se_history_index \in Nat /\ scii_history_index \in Nat
  BY <1>1, <1>2 DEF AtSE!TypeOK, AtSCII!TypeOK
<1> QED
  BY <1>3, <1>4, <1>5 DEF Weights

\* Nothing happens at SE, or at SCII.
LEMMA RestIsQuiet ==
  ASSUME SysInv
  PROVE  /\ UNCHANGED se_vars => SEQuiet
         /\ UNCHANGED scii_vars => SCIIQuiet
<1>1. /\ AtSE!Number("server", AtSE!StatusTypes) \in Nat
      /\ AtSE!Number("client", AtSE!StatusTypes) \in Nat
      /\ AtSCII!Number("server", AtSCII!Turns) \in Nat
      /\ AtSCII!Number("client", AtSCII!Turns) \in Nat
  <2>1. AtSE!TypeOK /\ AtSCII!TypeOK
    BY DEF SysInv, AtSE!XInv, AtSE!TInv, AtSE!IInv, AtSCII!XInv, AtSCII!TInv, AtSCII!IInv
  <2>2. /\ se_conn \in [Client -> AtSE!Connections(AtSE!Messages)]
        /\ "server" \in AtSE!Ends /\ "client" \in AtSE!Ends
    BY <2>1, AssumptionAtSE, AtSE!ServerEnd, AtSE!ClientEnd DEF AtSE!TypeOK
  <2>3. /\ scii_conn \in [Client -> AtSCII!Connections(AtSCII!Messages)]
        /\ "server" \in AtSCII!Ends /\ "client" \in AtSCII!Ends
    BY <2>1, AssumptionAtSCII, AtSCII!ServerEnd, AtSCII!ClientEnd DEF AtSCII!TypeOK
  <2>4. /\ AtSE!Number("server", AtSE!StatusTypes) \in Nat
        /\ AtSE!Number("client", AtSE!StatusTypes) \in Nat
    BY <2>2, AssumptionAtSE, AtSE!PlacesAreFinite DEF AtSE!Number
  <2>5. /\ AtSCII!Number("server", AtSCII!Turns) \in Nat
        /\ AtSCII!Number("client", AtSCII!Turns) \in Nat
    BY <2>3, AssumptionAtSCII, AtSCII!PlacesAreFinite DEF AtSCII!Number
  <2> QED
    BY <2>4, <2>5
<1>2. ASSUME UNCHANGED se_vars PROVE SEQuiet
  <2>1. se_conn' = se_conn /\ UNCHANGED AtSE!history
    BY <1>2 DEF se_vars, AtSE!history
  <2> QED
    BY <1>1, <2>1 DEF SEQuiet, AtSE!NoMore, AtSE!Number
<1>3. ASSUME UNCHANGED scii_vars PROVE SCIIQuiet
  <2>1. scii_conn' = scii_conn /\ UNCHANGED AtSCII!history
    BY <1>3 DEF scii_vars, AtSCII!history
  <2> QED
    BY <1>1, <2>1 DEF SCIIQuiet, AtSCII!NoMore, AtSCII!Number
<1> QED
  BY <1>2, <1>3

\* connect(), recv() and close().
LEMMA ReadingIsQuiet ==
  ASSUME SysInv, NEW p \in Client
  PROVE  /\ SE!PeerConnect(p) \/ SE!PeerReceive(p) => SEQuiet
         /\ SCII!PeerConnect(p) \/ SCII!PeerReceive(p) => SCIIQuiet
         /\ \A c \in {se_conn[p]} \union Received(se_conn[p], "client") :
              SE!PeerCloses(p, c) => SEQuiet
         /\ \A c \in {scii_conn[p]} \union Received(scii_conn[p], "client") :
              SCII!PeerCloses(p, c) => SCIIQuiet
<1>1. AtSE!IInv /\ AtSCII!IInv
  BY LoadsAreCounted
<1>2. ASSUME SE!PeerConnect(p) \/ SE!PeerReceive(p) PROVE SEQuiet
  <2>1. AtSE!PeerConnect(p) \/ AtSE!PeerReceive(p)
    BY <1>2, ActionsAtSE
  <2> QED
    BY <1>1, <2>1, AssumptionAtSE, AtSE!ReadingNumbers DEF SEQuiet
<1>3. ASSUME SCII!PeerConnect(p) \/ SCII!PeerReceive(p) PROVE SCIIQuiet
  <2>1. AtSCII!PeerConnect(p) \/ AtSCII!PeerReceive(p)
    BY <1>3, ActionsAtSCII
  <2> QED
    BY <1>1, <2>1, AssumptionAtSCII, AtSCII!ReadingNumbers DEF SCIIQuiet
<1>4. ASSUME NEW c \in {se_conn[p]} \union Received(se_conn[p], "client"), SE!PeerCloses(p, c)
      PROVE  SEQuiet
  <2>1. AtSE!PeerCloses(p, c) /\ c \in {se_conn[p]} \union AtSE!Received(se_conn[p], "client")
    BY <1>4, ActionsAtSE, NamesAtSE
  <2> QED
    BY <1>1, <2>1, AssumptionAtSE, AtSE!ClosingNumbers DEF SEQuiet
<1>5. ASSUME NEW c \in {scii_conn[p]} \union Received(scii_conn[p], "client"), SCII!PeerCloses(p, c)
      PROVE  SCIIQuiet
  <2>1. AtSCII!PeerCloses(p, c) /\ c \in {scii_conn[p]} \union AtSCII!Received(scii_conn[p], "client")
    BY <1>5, ActionsAtSCII, NamesAtSCII
  <2> QED
    BY <1>1, <2>1, AssumptionAtSCII, AtSCII!ClosingNumbers DEF SCIIQuiet
<1> QED
  BY <1>2, <1>3, <1>4, <1>5

\* send() of a request that is not an action.
LEMMA SendingIsQuiet ==
  ASSUME SysInv, NEW p \in Client, NEW m,
         m.type \notin AtSE!StatusTypes, m.type \notin AtSCII!Turns
  PROVE  /\ m \in AtSE!Messages /\ SE!PeerSends(p, m) => SEQuiet
         /\ m \in AtSCII!Messages /\ SCII!PeerSends(p, m) => SCIIQuiet
         /\ m \in AtSE!Messages =>
              \A c \in Sent(se_conn[p], "client", m) : SE!PeerCloses(p, c) => SEQuiet
<1>1. AtSE!IInv /\ AtSCII!IInv
  BY LoadsAreCounted
<1>2. ASSUME m \in AtSE!Messages, SE!PeerSends(p, m) PROVE SEQuiet
  <2>1. AtSE!PeerSends(p, m)
    BY <1>2, ActionsAtSE
  <2> QED
    BY <1>1, <1>2, <2>1, AssumptionAtSE, AtSE!SendingNumbers DEF SEQuiet
<1>3. ASSUME m \in AtSCII!Messages, SCII!PeerSends(p, m) PROVE SCIIQuiet
  <2>1. AtSCII!PeerSends(p, m)
    BY <1>3, ActionsAtSCII
  <2> QED
    BY <1>1, <1>3, <2>1, AssumptionAtSCII, AtSCII!SendingNumbers DEF SCIIQuiet
<1>4. ASSUME m \in AtSE!Messages, NEW c \in Sent(se_conn[p], "client", m), SE!PeerCloses(p, c)
      PROVE  SEQuiet
  <2>1. AtSE!PeerCloses(p, c) /\ c \in AtSE!Sent(se_conn[p], "client", m)
    BY <1>4, ActionsAtSE, NamesAtSE
  <2> QED
    BY <1>1, <1>4, <2>1, AssumptionAtSE, AtSE!ClosingNumbers DEF SEQuiet
<1> QED
  BY <1>2, <1>3, <1>4

\* The process ends.
LEMMA ExitIsQuiet ==
  ASSUME SysInv, NEW p \in Client, NEW how,
         NEW se \in {se_conn[p]} \union Received(se_conn[p], "client"),
         NEW scii \in {scii_conn[p]} \union Received(scii_conn[p], "client"),
         Exit(p, how, se, scii)
  PROVE  SEQuiet /\ SCIIQuiet
<1>1. SE!PeerCloses(p, se) \/ UNCHANGED se_vars
  BY DEF Exit
<1>2. SCII!PeerCloses(p, scii) \/ UNCHANGED scii_vars
  BY DEF Exit
<1> QED
  BY <1>1, <1>2, ReadingIsQuiet, RestIsQuiet

\* What the commands send, and the advice of a client.
LEMMA CommandMessages ==
  /\ \A t \in {"REQ_INFOSE", "REQ_INFOSCII", "REQ_STATUS"} :
       /\ Msg(t, <<>>) \in AtSE!Messages /\ Msg(t, <<>>) \in AtSCII!Messages
       /\ Msg(t, <<>>).type \notin AtSE!StatusTypes /\ Msg(t, <<>>).type \notin AtSCII!Turns
  /\ \A id \in Int :
       /\ REQ_REM(id) \in AtSE!Messages /\ REQ_REM(id) \in AtSCII!Messages
       /\ REQ_REM(id).type \notin AtSE!StatusTypes /\ REQ_REM(id).type \notin AtSCII!Turns
  /\ \A t \in StatusTypes : Advice(t) \in AtSCII!Messages
<1>1. ASSUME NEW t \in {"REQ_INFOSE", "REQ_INFOSCII", "REQ_STATUS"}
      PROVE  /\ Msg(t, <<>>) \in AtSE!Messages /\ Msg(t, <<>>) \in AtSCII!Messages
             /\ Msg(t, <<>>).type \notin AtSE!StatusTypes /\ Msg(t, <<>>).type \notin AtSCII!Turns
  BY DEF Msg, AtSE!Messages, AtSCII!Messages, AtSE!RequestTypes, AtSCII!RequestTypes,
         AtSE!StatusTypes, AtSCII!Turns
<1>2. ASSUME NEW id \in Int
      PROVE  /\ REQ_REM(id) \in AtSE!Messages /\ REQ_REM(id) \in AtSCII!Messages
             /\ REQ_REM(id).type \notin AtSE!StatusTypes /\ REQ_REM(id).type \notin AtSCII!Turns
  <2>1. <<id>> \in Seq(Int)
    OBVIOUS
  <2> QED
    BY <2>1 DEF REQ_REM, Msg, AtSE!Messages, AtSCII!Messages, AtSE!StatusTypes, AtSCII!Turns
<1>3. ASSUME NEW t \in StatusTypes
      PROVE  Advice(t) \in AtSCII!Messages
  BY DEF StatusTypes, Advice, Msg, AtSCII!Messages, AtSCII!RequestTypes
<1> QED
  BY <1>1, <1>2, <1>3

\* A command asks SCII for no action.
LEMMA CommandIsQuiet ==
  ASSUME SysInv, NEW p \in Client,
         \/ EndOfInput(p) \/ Kill(p) \/ DisplayInfoSE(p) \/ DisplayInfoSCII(p)
         \/ QueryCondition(p) \/ InvalidCommand(p)
  PROVE  SEQuiet /\ SCIIQuiet
<1>1. ASSUME NEW how, Exit(p, how, se_conn[p], scii_conn[p])
      PROVE  SEQuiet /\ SCIIQuiet
  <2>1. /\ se_conn[p] \in {se_conn[p]} \union Received(se_conn[p], "client")
        /\ scii_conn[p] \in {scii_conn[p]} \union Received(scii_conn[p], "client")
    OBVIOUS
  <2> QED
    BY <1>1, <2>1, ExitIsQuiet
<1>2. ASSUME NEW m, m.type \notin AtSE!StatusTypes, m.type \notin AtSCII!Turns,
             \/ m \in AtSE!Messages /\ SendSE(p, m)
             \/ m \in AtSCII!Messages /\ SendSCII(p, m)
      PROVE  SEQuiet /\ SCIIQuiet
  <2>1. CASE Exit(p, "sigpipe", se_conn[p], scii_conn[p])
    BY <1>1, <2>1
  <2>2. CASE m \in AtSE!Messages /\ SE!PeerSends(p, m) /\ UNCHANGED <<scii_vars, status>>
    BY <1>2, <2>2, SendingIsQuiet, RestIsQuiet
  <2>3. CASE m \in AtSCII!Messages /\ SCII!PeerSends(p, m) /\ UNCHANGED <<se_vars, status>>
    BY <1>2, <2>3, SendingIsQuiet, RestIsQuiet
  <2> QED
    BY <1>2, <2>1, <2>2, <2>3 DEF SendSE, SendSCII
<1>3. CASE EndOfInput(p)
  BY <1>1, <1>3 DEF EndOfInput
<1>4. CASE InvalidCommand(p)
  BY <1>4, RestIsQuiet DEF InvalidCommand
<1>5. CASE DisplayInfoSE(p) \/ DisplayInfoSCII(p) \/ QueryCondition(p)
  <2>1. PICK t \in {"REQ_INFOSE", "REQ_INFOSCII", "REQ_STATUS"} :
          SendSE(p, Msg(t, <<>>)) \/ SendSCII(p, Msg(t, <<>>))
    BY <1>5 DEF DisplayInfoSE, DisplayInfoSCII, QueryCondition
  <2> DEFINE m == Msg(t, <<>>)
  <2>2. /\ m \in AtSE!Messages /\ m \in AtSCII!Messages
        /\ m.type \notin AtSE!StatusTypes /\ m.type \notin AtSCII!Turns
    BY CommandMessages
  <2> HIDE DEF m
  <2>3. SendSE(p, m) \/ SendSCII(p, m)
    BY <2>1 DEF m
  <2> QED
    BY <1>2, <2>2, <2>3
<1>6. CASE Kill(p)
  <2>1. se_client_id[p] \in Int /\ scii_client_id[p] \in Int
    BY DEF SysInv, ClientTypes
  <2> DEFINE m == RemovalAtSE(p)
             n == RemovalAtSCII(p)
  <2>2. /\ m \in AtSE!Messages /\ n \in AtSCII!Messages
        /\ m.type \notin AtSE!StatusTypes /\ m.type \notin AtSCII!Turns
        /\ n.type \notin AtSE!StatusTypes /\ n.type \notin AtSCII!Turns
    BY <2>1, CommandMessages DEF RemovalAtSE, RemovalAtSCII
  <2> HIDE DEF m, n
  <2>3. \/ UNCHANGED <<se_vars, scii_vars>>
        \/ SendSE(p, m) \/ SendSCII(p, n)
        \/ SE!PeerSends(p, m) /\ SCII!PeerSends(p, n)
        \/ Exit(p, "sigpipe", se_conn[p], scii_conn[p])
        \/ /\ \E c \in Sent(se_conn[p], "client", m) : SE!PeerCloses(p, c)
           /\ SCII!PeerCloses(p, scii_conn[p])
    BY <1>6 DEF Kill, m, n
  <2>4. CASE UNCHANGED <<se_vars, scii_vars>>
    BY <2>4, RestIsQuiet
  <2>5. CASE SendSE(p, m) \/ SendSCII(p, n)
    BY <1>2, <2>2, <2>5
  <2>6. CASE SE!PeerSends(p, m) /\ SCII!PeerSends(p, n)
    BY <2>2, <2>6, SendingIsQuiet
  <2>7. CASE Exit(p, "sigpipe", se_conn[p], scii_conn[p])
    BY <1>1, <2>7
  <2>8. CASE /\ \E c \in Sent(se_conn[p], "client", m) : SE!PeerCloses(p, c)
             /\ SCII!PeerCloses(p, scii_conn[p])
    <3>1. SEQuiet
      BY <2>2, <2>8, SendingIsQuiet
    <3>2. SCIIQuiet
      BY <2>8, ReadingIsQuiet
    <3> QED
      BY <3>1, <3>2
  <2> QED
    BY <2>3, <2>4, <2>5, <2>6, <2>7, <2>8
<1> QED
  BY <1>3, <1>4, <1>5, <1>6

\* Nor does any other step of a client, but that in which it reads a report.
LEMMA OthersAreQuiet ==
  ASSUME SysInv, NEW p \in Client,
         \/ ConnectSE(p) \/ ConnectSCII(p) \/ Selects(p) \/ SelectFails(p)
         \/ AdmittedBySE(p) \/ RefusedBySE(p) \/ RemovedBySE(p)
         \/ OtherFromSE(p) \/ NothingFromSE(p)
         \/ AdmittedBySCII(p) \/ RefusedBySCII(p) \/ RemovedBySCII(p)
         \/ OtherFromSCII(p) \/ NothingFromSCII(p)
  PROVE  SEQuiet /\ SCIIQuiet
<1>1. ASSUME NEW how, NEW se \in {se_conn[p]} \union Received(se_conn[p], "client"),
             NEW scii \in {scii_conn[p]} \union Received(scii_conn[p], "client"),
             Exit(p, how, se, scii)
      PROVE  SEQuiet /\ SCIIQuiet
  BY <1>1, ExitIsQuiet
<1>2. CASE ConnectSE(p)
  BY <1>2, ReadingIsQuiet, RestIsQuiet DEF ConnectSE
<1>3. CASE ConnectSCII(p)
  BY <1>1, <1>3, ReadingIsQuiet, RestIsQuiet DEF ConnectSCII
<1>4. CASE Selects(p)
  BY <1>4, RestIsQuiet DEF Selects
<1>5. CASE SelectFails(p)
  BY <1>1, <1>5 DEF SelectFails
<1>6. CASE AdmittedBySE(p) \/ OtherFromSE(p) \/ NothingFromSE(p)
  BY <1>6, ReadingIsQuiet, RestIsQuiet DEF AdmittedBySE, OtherFromSE, NothingFromSE
<1>7. CASE AdmittedBySCII(p) \/ OtherFromSCII(p) \/ NothingFromSCII(p)
  BY <1>7, ReadingIsQuiet, RestIsQuiet DEF AdmittedBySCII, OtherFromSCII, NothingFromSCII
<1>8. CASE RefusedBySE(p) \/ RefusedBySCII(p)
  BY <1>1, <1>8 DEF RefusedBySE, RefusedBySCII
<1>9. CASE RemovedBySE(p)
  <2>1. PICK c \in Received(se_conn[p], "client") :
          \/ Exit(p, "success", c, scii_conn[p])
          \/ SE!PeerCloses(p, c) /\ UNCHANGED <<scii_vars, status>>
    BY <1>9 DEF RemovedBySE
  <2> QED
    BY <1>1, <2>1, ReadingIsQuiet, RestIsQuiet
<1>10. CASE RemovedBySCII(p)
  <2>1. PICK c \in Received(scii_conn[p], "client") :
          \/ Exit(p, "success", se_conn[p], c)
          \/ SCII!PeerCloses(p, c) /\ UNCHANGED <<se_vars, status>>
    BY <1>10 DEF RemovedBySCII
  <2> QED
    BY <1>1, <2>1, ReadingIsQuiet, RestIsQuiet
<1> QED
  BY <1>2, <1>3, <1>4, <1>5, <1>6, <1>7, <1>8, <1>9, <1>10

\* A report is read, and SCII is asked for an action.
LEMMA StatusIsOneForOne ==
  ASSUME SysInv, NEW p \in Client, StatusFromSE(p)
  PROVE  \/ SEQuiet /\ SCIIQuiet
         \/ /\ Reports' + 1 <= Reports /\ Orders' <= Orders + 1
            /\ UNCHANGED <<se_history_index, scii_history_index>>
<1> DEFINE m == Advice(Incoming(se_conn[p], "client").type)
<1>1. /\ AtSE!IInv /\ AtSCII!IInv
      /\ HasData(se_conn[p], "client") /\ Incoming(se_conn[p], "client").type \in StatusTypes
  BY LoadsAreCounted DEF StatusFromSE, FromSE
<1>2. m \in AtSCII!Messages
  BY <1>1, CommandMessages
<1>3. \/ SE!PeerReceive(p) /\ SCII!PeerSends(p, m)
      \/ \E c \in Received(se_conn[p], "client") : Exit(p, "sigpipe", c, scii_conn[p])
  BY DEF StatusFromSE
<1> HIDE DEF m
<1>4. CASE SE!PeerReceive(p) /\ SCII!PeerSends(p, m)
  <2>1. AtSE!PeerReceive(p) /\ AtSCII!PeerSends(p, m)
    BY <1>4, ActionsAtSE, ActionsAtSCII
  <2>2. /\ AtSE!HasData(se_conn[p], "client")
        /\ AtSE!Incoming(se_conn[p], "client").type \in AtSE!StatusTypes
    BY <1>1, NamesAtSE
  <2>3. /\ AtSE!Number("server", AtSE!StatusTypes)'
             + AtSE!One(AtSE!Incoming(se_conn[p], "client").type, AtSE!StatusTypes)
             <= AtSE!Number("server", AtSE!StatusTypes)
        /\ AtSE!NoMore(AtSE!StatusTypes)
    BY <1>1, <2>1, <2>2, AssumptionAtSE, AtSE!ReadingNumbers
  <2>4. /\ AtSCII!Number("client", AtSCII!Turns)' <= AtSCII!Number("client", AtSCII!Turns) + 1
        /\ UNCHANGED AtSCII!history
    BY <1>1, <1>2, <2>1, AssumptionAtSCII, AtSCII!SendingNumbers
  <2>5. AtSE!One(AtSE!Incoming(se_conn[p], "client").type, AtSE!StatusTypes) = 1
    BY <2>2 DEF AtSE!One
  <2>6. UNCHANGED <<se_history_index, scii_history_index>>
    BY <2>3, <2>4 DEF AtSE!NoMore, AtSE!history, AtSCII!history
  <2> QED
    BY <2>3, <2>4, <2>5, <2>6 DEF Reports, Orders
<1>5. CASE \E c \in Received(se_conn[p], "client") : Exit(p, "sigpipe", c, scii_conn[p])
  BY <1>5, ExitIsQuiet
<1> QED
  BY <1>3, <1>4, <1>5

\* The balance holds at first.
LEMMA BalanceInit == ASSUME Init PROVE Balance
<1>1. SysInv /\ SE!Init /\ SCII!Init
  BY SysInit
<1>2. se_history_index = 1 /\ scii_history_index = 1
  BY <1>1 DEF SE!Init, SCII!Init
<1>3. Reports = 0
  <2>1. AtSE!Init /\ "server" \in AtSE!Ends
    BY <1>1, StepsAtSE, AssumptionAtSE, AtSE!ServerEnd
  <2> QED
    BY <2>1, AssumptionAtSE, AtSE!NoneAtFirst DEF Reports
<1>4. Orders = 0
  <2>1. AtSCII!Init /\ "client" \in AtSCII!Ends
    BY <1>1, StepsAtSCII, AssumptionAtSCII, AtSCII!ClientEnd
  <2> QED
    BY <2>1, AssumptionAtSCII, AtSCII!NoneAtFirst DEF Orders
<1> QED
  BY <1>2, <1>3, <1>4 DEF Balance

\* The numbers of the next state.
LEMMA WeightsOfNext ==
  ASSUME Weights'
  PROVE  /\ Reports' \in Nat /\ Orders' \in Nat
         /\ se_history_index' \in Nat /\ scii_history_index' \in Nat
  BY DEF Weights

\* The balance of the next state.
LEMMA BalanceOfNext ==
  ASSUME Reports' + Orders' + scii_history_index' <= se_history_index'
  PROVE  Balance'
  BY DEF Balance

\* Every step keeps it, as long as the history of SE has room.
LEMMA BalanceNext ==
  ASSUME SysInv, SysInv', Balance, [Next]_svars, se_history_index < HISTORY_SIZE
  PROVE  Balance'
<1>1. /\ Reports \in Nat /\ Orders \in Nat
      /\ se_history_index \in Nat /\ scii_history_index \in Nat
  BY WeightsAreNatural DEF Weights
<1>7. /\ Reports' \in Nat /\ Orders' \in Nat
      /\ se_history_index' \in Nat /\ scii_history_index' \in Nat
  <2>1. Weights'
    BY WeightsAreNatural, PTL
  <2> QED
    BY <2>1, WeightsOfNext
<1>8. Reports + Orders + scii_history_index <= se_history_index
  BY DEF Balance
<1>3. CASE SEQuiet /\ SCIIQuiet
  <2>1. /\ Reports' <= Reports /\ Orders' <= Orders
        /\ se_history_index' = se_history_index /\ scii_history_index' = scii_history_index
    BY <1>3 DEF SEQuiet, SCIIQuiet, AtSE!NoMore, AtSCII!NoMore, AtSE!history, AtSCII!history,
                Reports, Orders
  <2>7. \A r, o, h, k, s, q \in Nat :
          r + o + h <= k /\ s <= r /\ q <= o => s + q + h <= k
    OBVIOUS
  <2>8. Reports' + Orders' + scii_history_index <= se_history_index
    BY <1>1, <1>7, <1>8, <2>1, <2>7
  <2>9. Reports' + Orders' + scii_history_index' <= se_history_index'
    BY <2>1, <2>8
  <2> QED
    BY <2>9, BalanceOfNext
<1>4. CASE SE!ServerStep /\ UNCHANGED <<scii_vars, client_vars>>
  <2>1. AtSE!ServerStep /\ AtSE!XInv
    BY <1>4, StepsAtSE DEF SysInv
  <2>2. AtSE!Number("server", AtSE!StatusTypes)' + se_history_index
          <= AtSE!Number("server", AtSE!StatusTypes) + se_history_index'
    BY <2>1, AssumptionAtSE, AtSE!ServerStepNumbers
  <2>3. Orders' = Orders /\ scii_history_index' = scii_history_index
    BY <1>4 DEF scii_vars, Orders, AtSCII!Number
  <2>4. Reports' + se_history_index <= Reports + se_history_index'
    BY <2>2 DEF Reports
  <2>8. \A r, o, h, k, s, q, i, j \in Nat :
          r + o + h <= k /\ s + k <= r + j /\ q = o /\ i = h => s + q + i <= j
    OBVIOUS
  <2>9. Reports' + Orders' + scii_history_index' <= se_history_index'
    BY <1>1, <1>7, <1>8, <2>3, <2>4, <2>8
  <2> QED
    BY <2>9, BalanceOfNext
<1>5. CASE SCII!ServerStep /\ UNCHANGED <<se_vars, client_vars>>
  <2>1. AtSCII!ServerStep /\ AtSCII!XInv
    BY <1>5, StepsAtSCII DEF SysInv
  <2>2. HISTORY_SIZE \in Nat /\ scii_history_index < HISTORY_SIZE
    <3>1. \A r, o, h, k, n \in Nat : r + o + h <= k /\ k < n => h < n
      OBVIOUS
    <3>2. HISTORY_SIZE \in Nat
      BY SystemAssumption
    <3> QED
      BY <1>1, <1>8, <3>1, <3>2
  <2>3. AtSCII!Number("client", AtSCII!Turns)' + scii_history_index'
          <= AtSCII!Number("client", AtSCII!Turns) + scii_history_index
    BY <2>1, <2>2, AssumptionAtSCII, AtSCII!ServerStepNumbers
  <2>4. Reports' = Reports /\ se_history_index' = se_history_index
    BY <1>5 DEF se_vars, Reports, AtSE!Number
  <2>5. Orders' + scii_history_index' <= Orders + scii_history_index
    BY <2>3 DEF Orders
  <2>8. \A r, o, h, k, s, q, i, j \in Nat :
          r + o + h <= k /\ s = r /\ q + i <= o + h /\ j = k => s + q + i <= j
    OBVIOUS
  <2>9. Reports' + Orders' + scii_history_index' <= se_history_index'
    BY <1>1, <1>7, <1>8, <2>4, <2>5, <2>8
  <2> QED
    BY <2>9, BalanceOfNext
<1>6. CASE UNCHANGED svars
  BY <1>3, <1>6, RestIsQuiet DEF svars
<1>9. CASE \E p \in Client : Selects(p) \/ ClientStep(p)
  <2>1. PICK p \in Client : Selects(p) \/ ClientStep(p)
    BY <1>9
  <2>2. CASE StatusFromSE(p)
    <3>1. \/ SEQuiet /\ SCIIQuiet
          \/ /\ Reports' + 1 <= Reports /\ Orders' <= Orders + 1
             /\ UNCHANGED <<se_history_index, scii_history_index>>
      BY <2>2, StatusIsOneForOne
    <3>2. CASE /\ Reports' + 1 <= Reports /\ Orders' <= Orders + 1
               /\ UNCHANGED <<se_history_index, scii_history_index>>
      <4>1. \A r, o, h, k, s, q, i, j \in Nat :
              r + o + h <= k /\ s + 1 <= r /\ q <= o + 1 /\ i = h /\ j = k => s + q + i <= j
        OBVIOUS
      <4>2. Reports' + Orders' + scii_history_index' <= se_history_index'
        BY <1>1, <1>7, <1>8, <3>2, <4>1
      <4> QED
        BY <4>2, BalanceOfNext
    <3> QED
      BY <1>3, <3>1, <3>2
  <2>3. CASE ~StatusFromSE(p)
    BY <1>3, <2>1, <2>3, CommandIsQuiet, OthersAreQuiet DEF ClientStep
  <2> QED
    BY <2>2, <2>3
<1> QED
  BY <1>4, <1>5, <1>6, <1>9 DEF Next

\* As long as the history of SE has room, SCII acts at most once for each state of the
\* production that SE gave, however many clients there are and whatever is typed.
THEOREM ActionsHaveStatuses ==
  Spec /\ [](se_history_index < HISTORY_SIZE) => []EveryActionHasItsStatus
<1>1. Init => SysInv /\ Balance
  BY SysInit, BalanceInit
<1>2. SysInv /\ [Next]_svars => SysInv'
  BY SysNext
<1>3. SysInv /\ SysInv' /\ Balance /\ [Next]_svars /\ se_history_index < HISTORY_SIZE => Balance'
  BY BalanceNext
<1>4. SysInv /\ Balance => EveryActionHasItsStatus
  <2>1. \A r, o, h, k \in Nat : r + o + h <= k => h <= k
    OBVIOUS
  <2> QED
    BY <2>1, WeightsAreNatural DEF Weights, Balance, EveryActionHasItsStatus
<1> QED
  BY <1>1, <1>2, <1>3, <1>4, PTL DEF Spec

-----------------------------------------------------------------------------
(* What SCII reports in the system. *)

\* What is shown of a server among any clients holds of SCII among those of client.c: its
\* reports are sound, whoever asks, and those to the only client that was ever admitted
\* tell one history as long as there is room for it.
THEOREM ReportsOfSCII ==
  Spec => /\ []SCII!EveryReportIsSound
          /\ [](scii_history_index < HISTORY_SIZE) => []ReportsTellOneHistory
<1>1. Spec => AtSCII!Spec
  <2>1. SCII!Init => AtSCII!Init
    BY StepsAtSCII
  <2>2. [SCII!Next]_(SCII!vars) => [AtSCII!Next]_(AtSCII!vars)
    BY StepsAtSCII DEF SCII!Next, AtSCII!Next, SCII!vars, AtSCII!vars, SCII!registry, AtSCII!registry,
       SCII!history, AtSCII!history, SCII!sockets, AtSCII!sockets
  <2> QED
    BY <2>1, <2>2, ServersKept, PTL DEF ServersKeepSpec, SCII!Spec, AtSCII!Spec
<1>2. AtSCII!Spec =>
        /\ []AtSCII!EveryReportIsSound
        /\ [](scii_history_index < HISTORY_SIZE) => []AtSCII!ReportsTellOneHistory
  BY AtSCII!ReportsHold, AssumptionAtSCII
<1>3. AtSCII!EveryReportIsSound => SCII!EveryReportIsSound
  BY DEF AtSCII!EveryReportIsSound, SCII!EveryReportIsSound, AtSCII!Reports, SCII!Reports,
         AtSCII!SoundReport, SCII!SoundReport, AtSCII!Before, SCII!Before, AtSCII!After, SCII!After
<1>4. AtSCII!ReportsTellOneHistory => ReportsTellOneHistory
  BY <1>3 DEF AtSCII!ReportsTellOneHistory, SCII!ReportsTellOneHistory, ReportsTellOneHistory,
         AtSCII!OneHistory, SCII!OneHistory, AtSCII!Alone, SCII!Alone, AtSCII!IsFirst, SCII!IsFirst,
         AtSCII!NoId, SCII!NoId, AtSCII!Reports, SCII!Reports, AtSCII!Before, SCII!Before,
         AtSCII!After, SCII!After
<1> QED
  BY <1>1, <1>2, <1>3, <1>4, PTL
=============================================================================
