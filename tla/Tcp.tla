-------------------------------- MODULE Tcp --------------------------------
(***************************************************************************)
(* A TCP connection between a client and a server, as the sockets API of   *)
(* the two processes shows it (the kernel, so external to the repository). *)
(* A connection is a record with one field per end; the field of an end    *)
(* holds what that end has sent and the other has not read yet, and how    *)
(* its stream stands:                                                      *)
(*   "idle"    connect() has not been called                               *)
(*   "open"    the socket is open                                          *)
(*   "fin"     the socket was closed after reading all that had arrived:   *)
(*             the other end reads end-of-file after the data              *)
(*   "rst"     it was closed with unread bytes: the other end gets a reset *)
(*   "finrst"  it was closed, and its kernel has answered (or is about to  *)
(*             answer) bytes that came too late with a reset               *)
(*   "broken"  the other end has been told of the reset                    *)
(* A message is sent by one send(); a recv() returns the bytes of one or   *)
(* more whole messages: TCP keeps order and not message boundaries.        *)
(* (Messages here are some tens of bytes, the buffer is of 500, and every  *)
(* send() is one segment, so that no message arrives in two parts.)        *)
(***************************************************************************)
EXTENDS Integers, Sequences

Ends == {"client", "server"}

Peer(e) == IF e = "client" THEN "server" ELSE "client"

StreamStates == {"idle", "open", "fin", "rst", "finrst", "broken"}

\* All the connections that carry messages of the set M.
Connections(M) == [Ends -> [data : Seq(M), end : StreamStates]]

Idle == [e \in Ends |-> [data |-> <<>>, end |-> "idle"]]

Established == [e \in Ends |-> [data |-> <<>>, end |-> "open"]]

IsOpen(c, e) == c[e].end = "open"

\* The connection c with other bytes of end e under way, or its stream changed.
SetData(c, e, s) == [c EXCEPT ![e].data = s]
SetEnd(c, e, x) == [c EXCEPT ![e].end = x]

-----------------------------------------------------------------------------
(* What end e can find out with select() and recv(). *)

HasData(c, e) == c[Peer(e)].data # <<>>

Readable(c, e) == HasData(c, e) \/ ~IsOpen(c, Peer(e))

\* recv() would return 0.
AtEof(c, e) == ~HasData(c, e) /\ c[Peer(e)].end \in {"fin", "finrst", "broken"}

\* recv() would return -1 with ECONNRESET.
AtReset(c, e) == ~HasData(c, e) /\ c[Peer(e)].end = "rst"

\* The first message of the bytes that recv() returns.
Incoming(c, e) == Head(c[Peer(e)].data)

\* The connections recv() may leave: it returned the first k messages that
\* were under way, k at least 1, as many as had arrived.
Received(c, e) ==
  LET s == c[Peer(e)].data
  IN  {SetData(c, Peer(e), SubSeq(s, k + 1, Len(s))) : k \in 1 .. Len(s)}

\* recv() or send() has returned the pending error, which clears it.
ErrorReturned(c, e) == SetEnd(c, Peer(e), "broken")

-----------------------------------------------------------------------------
(* What end e does. *)

\* The connections that send(m) may leave when it does not raise SIGPIPE. Bytes
\* for a closed socket are lost, and its kernel answers them with a reset; a
\* send() that meets a pending reset fails and clears it.
Sent(c, e, m) ==
  CASE IsOpen(c, Peer(e))           -> {SetData(c, e, Append(c[e].data, m))}
    [] c[Peer(e)].end = "fin"       -> {SetEnd(c, Peer(e), "finrst")}
    [] c[Peer(e)].end = "rst"       -> {c, ErrorReturned(c, e)}
    [] c[Peer(e)].end = "finrst"    -> {c}
    [] OTHER                        -> {}

\* send() raises SIGPIPE: the reset has arrived and no error is pending.
RaisesSigPipe(c, e) == c[Peer(e)].end \in {"finrst", "broken"}

\* The connection after close(), with the unread bytes met as `how` says: "rst"
\* when they had arrived, "finrst" when they arrived later.
Closed(c, e, how) ==
  SetEnd(SetData(c, Peer(e), <<>>), e, IF HasData(c, e) THEN how ELSE "fin")

\* The connections close() may leave. A reset at once (unread bytes) discards
\* what the end had sent and the network had not carried yet.
Closings(c, e) ==
  {Closed(c, e, "finrst")} \union
  IF HasData(c, e)
    THEN {SetData(Closed(c, e, "rst"), e, SubSeq(c[e].data, 1, k)) :
             k \in 0 .. Len(c[e].data)}
    ELSE {}

\* The connection when end e, a server, stops listening before accept() has
\* returned it: it is reset whether or not bytes have arrived.
Aborted(c, e) == SetEnd(SetData(c, Peer(e), <<>>), e, "rst")
=============================================================================
