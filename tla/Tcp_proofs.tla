----------------------------- MODULE Tcp_proofs -----------------------------
(***************************************************************************)
(* What the operators of Tcp preserve: each leaves a connection with both  *)
(* ends, and touches no field of an end but those its comment names; and   *)
(* which messages, and how many, are under way in what it leaves.          *)
(***************************************************************************)
EXTENDS Tcp, TLAPS

\* An end and its peer are the two ends.
LEMMA PeerIsOther ==
  ASSUME NEW e \in Ends
  PROVE  Peer(e) \in Ends /\ Peer(e) # e /\ Ends = {e, Peer(e)} /\ Peer(Peer(e)) = e
BY DEF Ends, Peer

\* Replacing what one end has sent leaves a connection, and its other fields alone.
LEMMA SetDataIsConnection ==
  ASSUME NEW M, NEW c \in Connections(M), NEW e \in Ends, NEW s \in Seq(M)
  PROVE  /\ SetData(c, e, s) \in Connections(M)
         /\ SetData(c, e, s)[Peer(e)] = c[Peer(e)]
         /\ SetData(c, e, s)[e].data = s
         /\ SetData(c, e, s)[e].end = c[e].end
BY PeerIsOther DEF Connections, SetData

\* The same for the stream of one end.
LEMMA SetEndIsConnection ==
  ASSUME NEW M, NEW c \in Connections(M), NEW e \in Ends, NEW x \in StreamStates
  PROVE  /\ SetEnd(c, e, x) \in Connections(M)
         /\ SetEnd(c, e, x)[Peer(e)] = c[Peer(e)]
         /\ SetEnd(c, e, x)[e].data = c[e].data
         /\ SetEnd(c, e, x)[e].end = x
BY PeerIsOther DEF Connections, SetEnd

\* recv() leaves a connection, and shortens what the peer has sent, only.
LEMMA ReceivedIsConnection ==
  ASSUME NEW M, NEW c \in Connections(M), NEW e \in Ends, NEW d \in Received(c, e)
  PROVE  /\ d \in Connections(M)
         /\ d[e] = c[e]
         /\ d[Peer(e)].end = c[Peer(e)].end
         /\ \E k \in 1 .. Len(c[Peer(e)].data) :
              d[Peer(e)].data = SubSeq(c[Peer(e)].data, k + 1, Len(c[Peer(e)].data))
<1> DEFINE p == Peer(e)
           s == c[p].data
<1>1. PICK k \in 1 .. Len(s) : d = SetData(c, p, SubSeq(s, k + 1, Len(s)))
  BY DEF Received
<1>2. p \in Ends /\ Peer(p) = e
  BY PeerIsOther
<1> HIDE DEF p
<1>3. s \in Seq(M)
  BY <1>2 DEF Connections
<1> DEFINE t == SubSeq(s, k + 1, Len(s))
<1>4. t \in Seq(M)
  BY <1>3
<1>5. d = SetData(c, p, t)
  BY <1>1
<1> HIDE DEF t
<1>6. /\ d \in Connections(M) /\ d[Peer(p)] = c[Peer(p)]
      /\ d[p].data = t /\ d[p].end = c[p].end
  BY <1>2, <1>4, <1>5, SetDataIsConnection
<1> QED
  BY <1>2, <1>6 DEF t, p

\* send() leaves a connection: it appends the message, or has no effect on what
\* either end has sent and changes how the stream of a closed peer stands.
LEMMA SentIsConnection ==
  ASSUME NEW M, NEW c \in Connections(M), NEW e \in Ends, NEW m \in M,
         NEW d \in Sent(c, e, m)
  PROVE  /\ d \in Connections(M)
         /\ d[Peer(e)].data = c[Peer(e)].data
         /\ d[e].end = c[e].end
         /\ d[e].data \in {c[e].data, Append(c[e].data, m)}
         /\ IsOpen(d, Peer(e)) <=> IsOpen(c, Peer(e))
         /\ c[Peer(e)].end # "idle"
         /\ d[Peer(e)].end \notin {"idle", "fin"}
         /\ \/ d[Peer(e)].end = c[Peer(e)].end
            \/ c[Peer(e)].end \in {"fin", "rst"} /\ d[Peer(e)].end \in {"finrst", "broken"}
<1> DEFINE p == Peer(e)
<1>0. p \in Ends /\ Peer(p) = e /\ p # e
  BY PeerIsOther
<1>1. CASE IsOpen(c, p)
  <2> DEFINE t == Append(c[e].data, m)
  <2>1. d = SetData(c, e, t)
    BY <1>1 DEF Sent, IsOpen
  <2>2. t \in Seq(M)
    BY DEF Connections
  <2> HIDE DEF t
  <2>3. /\ d \in Connections(M) /\ d[Peer(e)] = c[Peer(e)]
        /\ d[e].data = t /\ d[e].end = c[e].end
    BY <2>1, <2>2, SetDataIsConnection
  <2> QED
    BY <1>1, <2>3 DEF IsOpen, t
<1>2. CASE ~IsOpen(c, p)
  <2>1. \/ d = c /\ c[p].end \in {"rst", "finrst"}
        \/ d = SetEnd(c, p, "finrst") /\ c[p].end = "fin"
        \/ d = SetEnd(c, p, "broken") /\ c[p].end = "rst"
    BY <1>2 DEF Sent, ErrorReturned
  <2> HIDE DEF p
  <2>2. CASE d = c /\ c[p].end \in {"rst", "finrst"}
    BY <2>2 DEF p
  <2>3. ASSUME NEW x \in {"finrst", "broken"}, d = SetEnd(c, p, x),
               c[p].end \in {"fin", "rst"}
        PROVE  /\ d \in Connections(M) /\ d[e] = c[e]
               /\ d[p].data = c[p].data /\ d[p].end = x
    <3>1. x \in StreamStates
      BY DEF StreamStates
    <3> QED
      BY <1>0, <2>3, <3>1, SetEndIsConnection
  <2> QED
    BY <1>2, <2>1, <2>2, <2>3 DEF IsOpen, p
<1> QED
  BY <1>1, <1>2

\* close() leaves a connection whose end is not open, and takes nothing from the
\* messages the end had sent.
LEMMA ClosedIsConnection ==
  ASSUME NEW M, NEW c \in Connections(M), NEW e \in Ends, NEW how \in {"rst", "finrst"}
  PROVE  /\ Closed(c, e, how) \in Connections(M)
         /\ Closed(c, e, how)[e].data = c[e].data
         /\ Closed(c, e, how)[e].end \in {"fin", "rst", "finrst"}
         /\ Closed(c, e, how)[Peer(e)].data = <<>>
         /\ Closed(c, e, how)[Peer(e)].end = c[Peer(e)].end
<1> DEFINE p == Peer(e)
           x == IF HasData(c, e) THEN how ELSE "fin"
           none == <<>>
           b == SetData(c, p, none)
<1>1. x \in StreamStates /\ x \in {"fin", "rst", "finrst"} /\ none \in Seq(M)
  BY DEF StreamStates
<1>2. p \in Ends /\ Peer(p) = e /\ p # e
  BY PeerIsOther
<1>3. Closed(c, e, how) = SetEnd(b, e, x)
  BY DEF Closed
<1> HIDE DEF x, p, none
<1>4. b \in Connections(M) /\ b[Peer(p)] = c[Peer(p)] /\ b[p].data = none
                           /\ b[p].end = c[p].end
  BY <1>1, <1>2, SetDataIsConnection
<1> HIDE DEF b
<1>5. /\ SetEnd(b, e, x) \in Connections(M)
      /\ SetEnd(b, e, x)[Peer(e)] = b[Peer(e)]
      /\ SetEnd(b, e, x)[e].data = b[e].data
      /\ SetEnd(b, e, x)[e].end = x
  BY <1>1, <1>4, SetEndIsConnection
<1> QED
  BY <1>1, <1>2, <1>3, <1>4, <1>5 DEF p, none

\* What close() may leave is a connection whose end is not open; of what the end
\* had sent, a tail may be lost.
LEMMA ClosingsIsConnection ==
  ASSUME NEW M, NEW c \in Connections(M), NEW e \in Ends, NEW d \in Closings(c, e)
  PROVE  /\ d \in Connections(M)
         /\ d[e].end \in {"fin", "rst", "finrst"}
         /\ \E k \in 0 .. Len(c[e].data) : d[e].data = SubSeq(c[e].data, 1, k)
         /\ d[Peer(e)].data = <<>>
         /\ d[Peer(e)].end = c[Peer(e)].end
<1> DEFINE s == c[e].data
           b == Closed(c, e, "rst")
<1>1. s \in Seq(M) /\ s = SubSeq(s, 1, Len(s)) /\ Len(s) \in 0 .. Len(s)
  BY DEF Connections
<1>2. /\ b \in Connections(M) /\ b[e].data = s
      /\ b[e].end \in {"fin", "rst", "finrst"}
      /\ b[Peer(e)].data = <<>> /\ b[Peer(e)].end = c[Peer(e)].end
  BY ClosedIsConnection
<1>3. \/ d = Closed(c, e, "finrst")
      \/ \E k \in 0 .. Len(s) : d = SetData(b, e, SubSeq(s, 1, k))
  BY DEF Closings
<1> HIDE DEF b
<1>4. CASE d = Closed(c, e, "finrst")
  <2>1. /\ d \in Connections(M) /\ d[e].data = s
        /\ d[e].end \in {"fin", "rst", "finrst"}
        /\ d[Peer(e)].data = <<>> /\ d[Peer(e)].end = c[Peer(e)].end
    BY <1>4, ClosedIsConnection
  <2> QED
    BY <1>1, <2>1
<1>5. CASE \E k \in 0 .. Len(s) : d = SetData(b, e, SubSeq(s, 1, k))
  <2>1. PICK k \in 0 .. Len(s) : d = SetData(b, e, SubSeq(s, 1, k))
    BY <1>5
  <2> DEFINE t == SubSeq(s, 1, k)
  <2>2. t \in Seq(M) /\ d = SetData(b, e, t)
    BY <1>1, <2>1
  <2> HIDE DEF t
  <2>3. /\ d \in Connections(M) /\ d[Peer(e)] = b[Peer(e)]
        /\ d[e].data = t /\ d[e].end = b[e].end
    BY <1>2, <2>2, SetDataIsConnection
  <2> QED
    BY <1>2, <2>3 DEF t
<1> QED
  BY <1>3, <1>4, <1>5

-----------------------------------------------------------------------------
(* The messages a connection carries. *)

\* How many messages are under way in a connection.
Carried(c) == Len(c["client"].data) + Len(c["server"].data)

\* All the messages of sequence s are in N or in sequence r.
From(s, r, N) ==
  \A k \in 1 .. Len(s) : s[k] \in N \/ \E l \in 1 .. Len(r) : s[k] = r[l]

\* d carries no message but those of c, and some of N from end e.
Carries(c, d, e, N) ==
  /\ From(d[e].data, c[e].data, N)
  /\ From(d[Peer(e)].data, c[Peer(e)].data, {})

\* The numbers of messages are numbers.
LEMMA CarriedIsNat ==
  ASSUME NEW M, NEW c \in Connections(M), NEW e \in Ends
  PROVE  /\ c[e].data \in Seq(M) /\ Len(c[e].data) \in Nat
         /\ Carried(c) \in Nat
         /\ Carried(c) = Len(c[e].data) + Len(c[Peer(e)].data)
<1>1. \A x \in Ends : c[x].data \in Seq(M) /\ Len(c[x].data) \in Nat
  BY DEF Connections
<1>2. "client" \in Ends /\ "server" \in Ends
  BY DEF Ends
<1>3. Len(c["client"].data) \in Nat /\ Len(c["server"].data) \in Nat
  BY <1>1, <1>2
<1>4. \A a, b \in Nat : a + b \in Nat /\ a + b = b + a
  OBVIOUS
<1>5. Carried(c) \in Nat
  BY <1>3, <1>4 DEF Carried
<1>6. (e = "client" /\ Peer(e) = "server") \/ (e = "server" /\ Peer(e) = "client")
  BY DEF Ends, Peer
<1>7. Carried(c) = Len(c[e].data) + Len(c[Peer(e)].data)
  BY <1>3, <1>4, <1>6 DEF Carried
<1> QED
  BY <1>1, <1>5, <1>7

\* A sequence, a part at the end and one at the beginning of it, and a longer one.
LEMMA FromPart ==
  ASSUME NEW M, NEW s \in Seq(M), NEW m, NEW N
  PROVE  /\ From(s, s, N)
         /\ From(Append(s, m), s, {m}) /\ Len(Append(s, m)) = Len(s) + 1
         /\ From(s, Append(s, m), N)
         /\ \A k \in 1 .. Len(s) :
              /\ From(SubSeq(s, k + 1, Len(s)), s, N)
              /\ Len(SubSeq(s, k + 1, Len(s))) = Len(s) - k
         /\ \A k \in 0 .. Len(s) :
              From(SubSeq(s, 1, k), s, N) /\ Len(SubSeq(s, 1, k)) = k
<1> DEFINE n == Len(s)
<1>1. n \in Nat
  OBVIOUS
<1>2. From(s, s, N)
  BY DEF From
<1>3. /\ From(Append(s, m), s, {m}) /\ Len(Append(s, m)) = Len(s) + 1
      /\ From(s, Append(s, m), N)
  <2>1. /\ Len(Append(s, m)) = n + 1
        /\ \A k \in 1 .. n + 1 : k \in 1 .. n \/ k = n + 1
        /\ \A k \in 1 .. n : Append(s, m)[k] = s[k]
        /\ Append(s, m)[n + 1] = m
    OBVIOUS
  <2> QED
    BY <2>1 DEF From
<1>4. ASSUME NEW k \in 1 .. n
      PROVE  From(SubSeq(s, k + 1, n), s, N) /\ Len(SubSeq(s, k + 1, n)) = n - k
  <2>1. Len(SubSeq(s, k + 1, n)) = n - k
    BY <1>1
  <2>2. ASSUME NEW x \in 1 .. n - k
        PROVE  x + k \in 1 .. n /\ SubSeq(s, k + 1, n)[x] = s[x + k]
    BY <1>1
  <2> QED
    BY <2>1, <2>2 DEF From
<1>5. ASSUME NEW k \in 0 .. n
      PROVE  From(SubSeq(s, 1, k), s, N) /\ Len(SubSeq(s, 1, k)) = k
  <2>1. Len(SubSeq(s, 1, k)) = k
    BY <1>1
  <2>2. ASSUME NEW x \in 1 .. k
        PROVE  x \in 1 .. n /\ SubSeq(s, 1, k)[x] = s[x]
    BY <1>1
  <2> QED
    BY <2>1, <2>2 DEF From
<1> QED
  BY <1>2, <1>3, <1>4, <1>5

\* send() to a peer that has not closed its socket.
LEMMA SentToOpen ==
  ASSUME NEW M, NEW c \in Connections(M), NEW e \in Ends, NEW m \in M, NEW d \in Sent(c, e, m),
         IsOpen(c, Peer(e))
  PROVE  d[Peer(e)] = c[Peer(e)] /\ d[e].data = Append(c[e].data, m)
<1> DEFINE s == c[e].data
           t == Append(s, m)
<1>1. Sent(c, e, m) = {SetData(c, e, t)}
  BY DEF Sent, IsOpen
<1>2. t \in Seq(M) /\ d = SetData(c, e, t)
  <2>1. s \in Seq(M)
    BY CarriedIsNat
  <2> QED
    BY <1>1, <2>1
<1> HIDE DEF s, t
<1>3. SetData(c, e, t)[Peer(e)] = c[Peer(e)] /\ SetData(c, e, t)[e].data = t
  BY <1>2, SetDataIsConnection
<1> QED
  BY <1>2, <1>3 DEF s, t

\* send() in any case: one message more at most.
LEMMA SentCarries ==
  ASSUME NEW M, NEW c \in Connections(M), NEW e \in Ends, NEW m \in M, NEW d \in Sent(c, e, m)
  PROVE  /\ d \in Connections(M) /\ Carries(c, d, e, {m})
         /\ d[Peer(e)].data = c[Peer(e)].data
         /\ Carried(d) <= Carried(c) + 1
<1> DEFINE s == c[e].data
           r == c[Peer(e)].data
<1>1. /\ d \in Connections(M) /\ d[Peer(e)].data = r
      /\ d[e].data \in {s, Append(s, m)}
  BY SentIsConnection
<1>2. Peer(e) \in Ends /\ s \in Seq(M) /\ r \in Seq(M) /\ Len(s) \in Nat /\ Len(r) \in Nat
  BY CarriedIsNat, PeerIsOther
<1>3. Carried(d) = Len(d[e].data) + Len(d[Peer(e)].data) /\ Carried(c) = Len(s) + Len(r)
  BY <1>1, CarriedIsNat
<1> HIDE DEF s, r
<1>4. /\ From(s, s, {m}) /\ From(r, r, {})
      /\ From(Append(s, m), s, {m}) /\ Len(Append(s, m)) = Len(s) + 1
  BY <1>2, FromPart
<1>5. From(d[e].data, s, {m}) /\ From(d[Peer(e)].data, r, {})
  BY <1>1, <1>4
<1>6. Carries(c, d, e, {m})
  BY <1>5 DEF Carries, s, r
<1>7. Len(d[e].data) \in {Len(s), Len(s) + 1} /\ Len(d[Peer(e)].data) = Len(r)
  BY <1>1, <1>4
<1>8. Carried(d) <= Carried(c) + 1
  BY <1>2, <1>3, <1>7
<1> QED
  BY <1>1, <1>6, <1>8 DEF r

\* recv(): it takes one message at least.
LEMMA ReceivedCarries ==
  ASSUME NEW M, NEW c \in Connections(M), NEW e \in Ends, NEW d \in Received(c, e)
  PROVE  /\ d \in Connections(M) /\ \A x \in Ends : Carries(c, d, x, {})
         /\ d[e] = c[e] /\ d[Peer(e)].end = c[Peer(e)].end
         /\ Len(d[Peer(e)].data) < Len(c[Peer(e)].data)
         /\ Carried(d) <= Carried(c) - 1
<1> DEFINE s == c[e].data
           r == c[Peer(e)].data
<1>1. /\ d \in Connections(M) /\ d[e] = c[e] /\ d[Peer(e)].end = c[Peer(e)].end
      /\ \E k \in 1 .. Len(r) : d[Peer(e)].data = SubSeq(r, k + 1, Len(r))
  BY ReceivedIsConnection
<1>2. PICK k \in 1 .. Len(r) : d[Peer(e)].data = SubSeq(r, k + 1, Len(r))
  BY <1>1
<1>3. /\ Peer(e) \in Ends /\ Peer(Peer(e)) = e /\ Ends = {e, Peer(e)}
      /\ s \in Seq(M) /\ r \in Seq(M) /\ Len(s) \in Nat /\ Len(r) \in Nat
  BY CarriedIsNat, PeerIsOther
<1>4. Carried(d) = Len(d[e].data) + Len(d[Peer(e)].data) /\ Carried(c) = Len(s) + Len(r)
  BY <1>1, CarriedIsNat
<1> HIDE DEF s, r
<1>5. /\ From(s, s, {}) /\ From(SubSeq(r, k + 1, Len(r)), r, {})
      /\ Len(SubSeq(r, k + 1, Len(r))) = Len(r) - k
  BY <1>3, FromPart
<1>6. From(d[e].data, s, {}) /\ From(d[Peer(e)].data, r, {})
  BY <1>1, <1>2, <1>5 DEF s
<1>7. Carries(c, d, e, {}) /\ Carries(c, d, Peer(e), {})
  BY <1>3, <1>6 DEF Carries, s, r
<1>8. Len(d[e].data) = Len(s) /\ Len(d[Peer(e)].data) = Len(r) - k /\ k \in 1 .. Len(r)
  BY <1>1, <1>2, <1>5 DEF s
<1>9. Carried(d) <= Carried(c) - 1 /\ Len(d[Peer(e)].data) < Len(r)
  BY <1>3, <1>4, <1>8
<1> QED
  BY <1>1, <1>3, <1>7, <1>9 DEF r

\* close(), and what the kernel does when the process ends.
LEMMA ClosingCarries ==
  ASSUME NEW M, NEW c \in Connections(M), NEW e \in Ends,
         NEW d \in Closings(c, e) \union {Closed(c, e, how) : how \in {"rst", "finrst"}}
  PROVE  /\ d \in Connections(M) /\ \A x \in Ends : Carries(c, d, x, {})
         /\ d[Peer(e)].data = <<>> /\ d[Peer(e)].end = c[Peer(e)].end
         /\ d[e].end # "open" /\ (c[Peer(e)].data = <<>> <=> d[e].end = "fin")
         /\ Carried(d) <= Carried(c)
<1> DEFINE s == c[e].data
           r == c[Peer(e)].data
<1>1. /\ Peer(e) \in Ends /\ Peer(Peer(e)) = e /\ Ends = {e, Peer(e)}
      /\ s \in Seq(M) /\ r \in Seq(M) /\ Len(s) \in Nat /\ Len(r) \in Nat
  BY CarriedIsNat, PeerIsOther
<1>2. /\ d \in Connections(M)
      /\ d[Peer(e)].data = <<>> /\ d[Peer(e)].end = c[Peer(e)].end
      /\ d[e].end # "open"
      /\ \E k \in 0 .. Len(s) : d[e].data = SubSeq(s, 1, k)
  <2>1. CASE d \in Closings(c, e)
    BY <2>1, ClosingsIsConnection
  <2>2. CASE \E how \in {"rst", "finrst"} : d = Closed(c, e, how)
    <3>1. /\ d \in Connections(M) /\ d[e].data = s /\ d[e].end # "open"
          /\ d[Peer(e)].data = <<>> /\ d[Peer(e)].end = c[Peer(e)].end
      BY <2>2, ClosedIsConnection
    <3>2. s = SubSeq(s, 1, Len(s)) /\ Len(s) \in 0 .. Len(s)
      BY <1>1
    <3> QED
      BY <3>1, <3>2
  <2> QED
    BY <2>1, <2>2
<1>3. r = <<>> <=> d[e].end = "fin"
  <2> DEFINE none == <<>>
             b == SetData(c, Peer(e), none)
             x(how) == IF HasData(c, e) THEN how ELSE "fin"
  <2>1. r = <<>> <=> ~HasData(c, e)
    BY DEF HasData
  <2>2. none \in Seq(M) /\ \A how \in {"rst", "finrst"} : x(how) \in StreamStates
    BY DEF StreamStates
  <2>3. \A how : Closed(c, e, how) = SetEnd(b, e, x(how))
    BY DEF Closed
  <2> HIDE DEF none, x
  <2>4. b \in Connections(M)
    BY <1>1, <2>2, SetDataIsConnection
  <2> HIDE DEF b
  <2>5. ASSUME NEW how \in {"rst", "finrst"}
        PROVE  Closed(c, e, how) \in Connections(M) /\ Closed(c, e, how)[e].end = x(how)
    BY <2>2, <2>3, <2>4, SetEndIsConnection
  <2>6. \E how \in {"rst", "finrst"} : d[e].end = x(how)
    <3>1. CASE \E how \in {"rst", "finrst"} : d = Closed(c, e, how)
      BY <2>5, <3>1
    <3>2. CASE \E k \in 0 .. Len(s) : d = SetData(Closed(c, e, "rst"), e, SubSeq(s, 1, k))
      <4>1. PICK k \in 0 .. Len(s) : d = SetData(Closed(c, e, "rst"), e, SubSeq(s, 1, k))
        BY <3>2
      <4> DEFINE t == SubSeq(s, 1, k)
                 f == Closed(c, e, "rst")
      <4>2. t \in Seq(M) /\ d = SetData(f, e, t)
        BY <1>1, <4>1
      <4>3. f \in Connections(M) /\ f[e].end = x("rst")
        BY <2>5
      <4> HIDE DEF t, f
      <4> QED
        BY <4>2, <4>3, SetDataIsConnection
    <3> QED
      BY <3>1, <3>2 DEF Closings
  <2> QED
    BY <2>1, <2>6 DEF x
<1>4. Carried(d) = Len(d[e].data) + Len(d[Peer(e)].data) /\ Carried(c) = Len(s) + Len(r)
  BY <1>2, CarriedIsNat
<1> HIDE DEF s, r
<1>5. PICK k \in 0 .. Len(s) : d[e].data = SubSeq(s, 1, k)
  BY <1>2
<1>6. From(SubSeq(s, 1, k), s, {}) /\ Len(SubSeq(s, 1, k)) = k
  BY <1>1, FromPart
<1>7. Len(d[Peer(e)].data) = 0 /\ From(d[Peer(e)].data, r, {})
  BY <1>2 DEF From
<1>8. From(d[e].data, s, {})
  BY <1>5, <1>6
<1>9. Carries(c, d, e, {}) /\ Carries(c, d, Peer(e), {})
  BY <1>1, <1>7, <1>8 DEF Carries, s, r
<1>10. Carried(d) <= Carried(c)
  <2>1. Len(d[e].data) = k /\ k \in 0 .. Len(s)
    BY <1>5, <1>6
  <2> QED
    BY <1>1, <1>4, <1>7, <2>1
<1> QED
  BY <1>1, <1>2, <1>3, <1>9, <1>10 DEF r

\* One step after the other.
LEMMA CarriesOn ==
  ASSUME NEW b, NEW c, NEW d, NEW e, NEW N, NEW O, Carries(b, c, e, N), Carries(c, d, e, O)
  PROVE  Carries(b, d, e, N \union O)
<1>1. ASSUME NEW r, NEW s, NEW t, NEW A, NEW B, From(s, r, A), From(t, s, B)
      PROVE  From(t, r, A \union B)
  BY <1>1 DEF From
<1>2. From(d[Peer(e)].data, b[Peer(e)].data, {} \union {})
  BY <1>1 DEF Carries
<1>3. {} \union {} = {}
  OBVIOUS
<1>4. From(d[e].data, b[e].data, N \union O)
  BY <1>1 DEF Carries
<1> QED
  BY <1>2, <1>3, <1>4 DEF Carries
=============================================================================
