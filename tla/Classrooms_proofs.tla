-------------------------- MODULE Classrooms_proofs --------------------------
(***************************************************************************)
(* Proofs about Classrooms, for any clients, rooms and lines typed. The    *)
(* invariant is inductive as it stands: a request on its way has passed    *)
(* the checks of its client (TypeOK), so that what the server writes       *)
(* unchecked leaves every entry in a phase of its own (EntriesKeepPhase),  *)
(* and the phases are those of the abstract rooms.                         *)
(***************************************************************************)
EXTENDS Classrooms, Tcp_proofs

IInv == TypeOK /\ EntriesKeepPhase

-----------------------------------------------------------------------------
(* Entries. *)

\* The fields of an entry built from sensors.
LEMMA ClassroomFields ==
  ASSUME NEW id, NEW d
  PROVE  /\ Classroom(id, d).roomID = id
         /\ Classroom(id, d).temperature = d.temperature
         /\ Classroom(id, d).humidity = d.humidity
         /\ Classroom(id, d).fans = d.fans
BY DEF Classroom

\* An entry built from sensors is one, with these sensors.
LEMMA ClassroomIsEntry ==
  ASSUME NEW id \in Int, NEW d \in Sensors
  PROVE  Classroom(id, d) \in Entries /\ SensorsOf(Classroom(id, d)) = d
BY DEF Classroom, Entries, Sensors, SensorsOf

\* The same value everywhere is a line of sensors.
LEMMA AllSensorsIsSensors ==
  ASSUME NEW v \in Int
  PROVE  /\ AllSensors(v) \in Sensors
         /\ AllSensors(v).temperature = v /\ AllSensors(v).humidity = v
         /\ AllSensors(v).fans = [k \in FanPos |-> [id |-> k, state |-> v]]
BY DEF AllSensors, Sensors, FanPos

\* Readings in their ranges are sensors, and look neither switched off nor unused.
LEMMA InRangeFacts ==
  ASSUME NEW d \in InRange
  PROVE  /\ d \in Sensors /\ d.temperature >= 0 /\ d.humidity >= 0
         /\ \A k \in FanPos : d.fans[k].id = k
BY DEF InRange, Sensors, FanPos

\* An entry is its room id and its sensors.
LEMMA EntryIsClassroom ==
  ASSUME NEW x \in Entries
  PROVE  SensorsOf(x) \in Sensors /\ x = Classroom(x.roomID, SensorsOf(x))
         /\ SensorsOf(x).temperature = x.temperature
         /\ SensorsOf(x).humidity = x.humidity /\ SensorsOf(x).fans = x.fans
BY DEF Classroom, Entries, Sensors, SensorsOf

\* What each phase says of an entry: its room id, and whether it looks off.
LEMMA PhaseFacts ==
  ASSUME NEW r \in RoomId, NEW x \in Entries, InPhase(r, x)
  PROVE  /\ x.roomID \in {r, NoRoom} /\ r # NoRoom
         /\ x.roomID = NoRoom <=> x = AbsentEntry
         /\ x.roomID = r /\ AllOff(x) <=> x = OffEntry(r)
         /\ x.roomID = r /\ ~AllOff(x) <=> OnEntry(r, x)
<1>1. r \in Int /\ r >= 0 /\ NoRoom = -999 /\ NoRoom \in Int /\ r # NoRoom
  BY ClassroomsAssumption DEF RoomId, NoRoom
<1>2. AbsentEntry.roomID = NoRoom /\ OffEntry(r).roomID = r
  BY ClassroomFields DEF AbsentEntry, OffEntry
<1>3. AllOff(OffEntry(r))
  <2>1. /\ OffEntry(r).temperature = -1 /\ OffEntry(r).humidity = -1
        /\ OffEntry(r).fans = [k \in FanPos |-> [id |-> k, state |-> -1]]
    BY ClassroomFields, AllSensorsIsSensors DEF OffEntry
  <2> QED
    BY <2>1 DEF AllOff
<1>4. ASSUME OnEntry(r, x) PROVE x.roomID = r /\ ~AllOff(x)
  <2>1. x.temperature >= 0
    BY <1>4, EntryIsClassroom, InRangeFacts DEF OnEntry
  <2> QED
    BY <1>4, <2>1 DEF OnEntry, AllOff
<1> QED
  BY <1>1, <1>2, <1>3, <1>4 DEF InPhase

\* The three phases are entries.
LEMMA PhasesAreEntries ==
  ASSUME NEW r \in RoomId
  PROVE  /\ AbsentEntry \in Entries /\ OffEntry(r) \in Entries
         /\ \A d \in InRange : Classroom(r, d) \in Entries /\ OnEntry(r, Classroom(r, d))
<1>1. r \in Int /\ NoRoom \in Int
  BY ClassroomsAssumption DEF RoomId, NoRoom
<1>2. AbsentEntry \in Entries /\ OffEntry(r) \in Entries
  <2>1. AllSensors(-999) \in Sensors /\ AllSensors(-1) \in Sensors
    BY DEF AllSensors, Sensors, FanPos
  <2> QED
    BY <1>1, <2>1, ClassroomIsEntry DEF AbsentEntry, OffEntry
<1>3. ASSUME NEW d \in InRange
      PROVE  Classroom(r, d) \in Entries /\ OnEntry(r, Classroom(r, d))
  BY <1>1, InRangeFacts, ClassroomIsEntry, ClassroomFields DEF OnEntry
<1> QED
  BY <1>2, <1>3

-----------------------------------------------------------------------------
(* Connections that carry requests one way and replies the other. *)

\* The two ends, each with its peer.
LEMMA ServerEnd == "server" \in Ends /\ Peer("server") = "client"
BY DEF Ends, Peer

\* The same for the end of the client.
LEMMA ClientEnd == "client" \in Ends /\ Peer("client") = "server"
BY DEF Ends, Peer

\* A connection with requests one way and replies the other is a link.
LEMMA LinkIs ==
  ASSUME NEW d
  PROVE  d \in Links <=> /\ d \in Connections(Messages)
                         /\ d["client"].data \in Seq(Requests)
                         /\ d["server"].data \in Seq(Replies)
BY DEF Links

\* A part of a sequence has elements of the same kind.
LEMMA PartOfSeq ==
  ASSUME NEW S, NEW s \in Seq(S)
  PROVE  /\ \A k \in 1 .. Len(s) : SubSeq(s, k + 1, Len(s)) \in Seq(S)
         /\ \A k \in 0 .. Len(s) : SubSeq(s, 1, k) \in Seq(S)
         /\ s # <<>> => Head(s) \in S
OBVIOUS

\* What recv() leaves carries the same, and what it returns is of its direction.
LEMMA ReceivedIsLink ==
  ASSUME NEW c \in Links
  PROVE  /\ \A d \in Received(c, "server") \union Received(c, "client") : d \in Links
         /\ HasData(c, "server") => Incoming(c, "server") \in Requests
         /\ HasData(c, "client") => Incoming(c, "client") \in Replies
<1>1. c \in Connections(Messages)
      /\ c["client"].data \in Seq(Requests) /\ c["server"].data \in Seq(Replies)
  BY LinkIs
<1>2. ASSUME NEW d \in Received(c, "server") PROVE d \in Links
  <2>1. /\ d \in Connections(Messages) /\ d["server"] = c["server"]
        /\ \E k \in 1 .. Len(c[Peer("server")].data) :
             d[Peer("server")].data
               = SubSeq(c[Peer("server")].data, k + 1, Len(c[Peer("server")].data))
    <3>1. "server" \in Ends
      BY DEF Ends
    <3> QED
      BY <1>1, <3>1, ReceivedIsConnection
  <2>2. Peer("server") = "client"
    BY DEF Peer
  <2>3. \E k \in 1 .. Len(c["client"].data) :
          d["client"].data = SubSeq(c["client"].data, k + 1, Len(c["client"].data))
    BY <2>1, <2>2
  <2>4. d["client"].data \in Seq(Requests)
    BY <1>1, <2>3, PartOfSeq
  <2> QED
    BY <1>1, <2>1, <2>4, LinkIs
<1>3. ASSUME NEW d \in Received(c, "client") PROVE d \in Links
  <2>1. /\ d \in Connections(Messages) /\ d["client"] = c["client"]
        /\ \E k \in 1 .. Len(c[Peer("client")].data) :
             d[Peer("client")].data
               = SubSeq(c[Peer("client")].data, k + 1, Len(c[Peer("client")].data))
    <3>1. "client" \in Ends
      BY DEF Ends
    <3> QED
      BY <1>1, <3>1, ReceivedIsConnection
  <2>2. Peer("client") = "server"
    BY DEF Peer
  <2>3. \E k \in 1 .. Len(c["server"].data) :
          d["server"].data = SubSeq(c["server"].data, k + 1, Len(c["server"].data))
    BY <2>1, <2>2
  <2>4. d["server"].data \in Seq(Replies)
    BY <1>1, <2>3, PartOfSeq
  <2> QED
    BY <1>1, <2>1, <2>4, LinkIs
<1>4. /\ HasData(c, "server") => Incoming(c, "server") \in Requests
      /\ HasData(c, "client") => Incoming(c, "client") \in Replies
  <2>1. HasData(c, "server") => Incoming(c, "server") \in Requests
    BY <1>1, ServerEnd, PartOfSeq DEF HasData, Incoming
  <2>2. HasData(c, "client") => Incoming(c, "client") \in Replies
    BY <1>1, ClientEnd, PartOfSeq DEF HasData, Incoming
  <2> QED
    BY <2>1, <2>2
<1> QED
  BY <1>2, <1>3, <1>4

\* send() of a message of the end's direction.
LEMMA AnswerIsLink ==
  ASSUME NEW c \in Links, NEW m \in Replies, NEW d \in Sent(c, "server", m)
  PROVE  d \in Links
<1>1. c \in Connections(Messages) /\ m \in Messages
      /\ c["client"].data \in Seq(Requests) /\ c["server"].data \in Seq(Replies)
  BY LinkIs DEF Messages
<1>2. /\ d \in Connections(Messages) /\ d["client"].data = c["client"].data
      /\ d["server"].data \in {c["server"].data, Append(c["server"].data, m)}
  BY <1>1, ServerEnd, SentIsConnection
<1>3. Append(c["server"].data, m) \in Seq(Replies)
  BY <1>1
<1>4. d["server"].data \in Seq(Replies)
  BY <1>1, <1>2, <1>3
<1> QED
  BY <1>1, <1>2, <1>4, LinkIs

\* The same for a request, which has passed the checks of its client.
LEMMA RequestIsLink ==
  ASSUME NEW c \in Links, NEW m \in Requests, NEW d \in Sent(c, "client", m)
  PROVE  d \in Links
<1>1. c \in Connections(Messages) /\ m \in Messages
      /\ c["client"].data \in Seq(Requests) /\ c["server"].data \in Seq(Replies)
  BY LinkIs DEF Messages
<1>2. /\ d \in Connections(Messages) /\ d["server"].data = c["server"].data
      /\ d["client"].data \in {c["client"].data, Append(c["client"].data, m)}
  BY <1>1, ClientEnd, SentIsConnection
<1>3. Append(c["client"].data, m) \in Seq(Requests)
  BY <1>1
<1>4. d["client"].data \in Seq(Requests)
  BY <1>1, <1>2, <1>3
<1> QED
  BY <1>1, <1>2, <1>4, LinkIs

\* close() in the client.
LEMMA ClosingsIsLink ==
  ASSUME NEW c \in Links, NEW d \in Closings(c, "client")
  PROVE  d \in Links
<1>1. c \in Connections(Messages) /\ c["client"].data \in Seq(Requests)
  BY LinkIs
<1>2. /\ d \in Connections(Messages) /\ d["server"].data = <<>>
      /\ \E k \in 0 .. Len(c["client"].data) : d["client"].data = SubSeq(c["client"].data, 1, k)
  BY <1>1, ClientEnd, ClosingsIsConnection
<1>3. d["client"].data \in Seq(Requests) /\ <<>> \in Seq(Replies)
  BY <1>1, <1>2, PartOfSeq
<1> QED
  BY <1>2, <1>3, LinkIs

\* The same for close() in the server, whose answers stay on their way.
LEMMA ClosedIsLink ==
  ASSUME NEW c \in Links
  PROVE  Closed(c, "server", "rst") \in Links
<1> DEFINE d == Closed(c, "server", "rst")
<1>1. c \in Connections(Messages) /\ c["server"].data \in Seq(Replies)
  BY LinkIs
<1>2. "rst" \in {"rst", "finrst"}
  OBVIOUS
<1>3. d \in Connections(Messages) /\ d["server"].data = c["server"].data
      /\ d[Peer("server")].data = <<>>
  BY <1>1, <1>2, ServerEnd, ClosedIsConnection
<1>4. d[Peer("server")].data = d["client"].data /\ <<>> \in Seq(Requests)
  BY ServerEnd
<1> HIDE DEF d
<1>5. d["client"].data \in Seq(Requests)
  BY <1>3, <1>4
<1>6. d \in Links
  BY <1>1, <1>3, <1>5, LinkIs
<1> QED
  BY <1>6 DEF d

\* The stream of an end changes.
LEMMA SetEndIsLink ==
  ASSUME NEW c \in Links, NEW e \in Ends, NEW x \in StreamStates
  PROVE  SetEnd(c, e, x) \in Links
<1>1. /\ SetEnd(c, e, x) \in Connections(Messages)
      /\ SetEnd(c, e, x)[Peer(e)] = c[Peer(e)] /\ SetEnd(c, e, x)[e].data = c[e].data
  BY SetEndIsConnection DEF Links
<1> QED
  BY <1>1 DEF Links, Ends, Peer

\* The server's kernel resets a connection nobody accepted.
LEMMA AbortedIsLink ==
  ASSUME NEW c \in Links
  PROVE  Aborted(c, "server") \in Links
<1> DEFINE none == <<>>
           b == SetData(c, "client", none)
<1>1. c \in Connections(Messages) /\ none \in Seq(Messages) /\ none \in Seq(Requests)
      /\ c["server"].data \in Seq(Replies) /\ "rst" \in StreamStates
  BY DEF Links, StreamStates
<1>2. Aborted(c, "server") = SetEnd(b, "server", "rst")
  BY ServerEnd DEF Aborted
<1> HIDE DEF none
<1>3. b \in Connections(Messages) /\ b["server"] = c["server"] /\ b["client"].data = none
  BY <1>1, ClientEnd, SetDataIsConnection
<1>4. b \in Links
  BY <1>1, <1>3 DEF Links
<1> HIDE DEF b
<1> QED
  BY <1>1, <1>2, <1>4, ServerEnd, SetEndIsLink

-----------------------------------------------------------------------------
(* What the handlers do to the table and to the connection. *)

\* Writing an entry in a phase of its room keeps the table, and maps to the step
\* of the abstract room.
LEMMA SetRoomKeepsPhases ==
  ASSUME IInv, NEW r \in RoomId, NEW x \in Entries, InPhase(r, x), SetRoom(r, x)
  PROVE  /\ classrooms' \in [RoomId -> Entries] /\ EntriesKeepPhase'
         /\ Abstract!Become(r, PhaseOf(x))
<1>1. classrooms \in [RoomId -> Entries]
  BY DEF IInv, TypeOK
<1>2. classrooms' = [classrooms EXCEPT ![r] = x]
  BY DEF SetRoom
<1>3. classrooms' \in [RoomId -> Entries] /\ EntriesKeepPhase'
  BY <1>1, <1>2 DEF IInv, EntriesKeepPhase
<1>4. [i \in RoomId |-> PhaseOf(classrooms'[i])]
        = [[i \in RoomId |-> PhaseOf(classrooms[i])] EXCEPT ![r] = PhaseOf(x)]
  BY <1>1, <1>2
<1> QED
  BY <1>3, <1>4 DEF Abstract!Become

\* A room of the table is created exactly when its own entry is in use.
LEMMA CreatedIsOwnEntry ==
  ASSUME IInv, NEW r \in RoomId
  PROVE  /\ classrooms[r] \in Entries /\ InPhase(r, classrooms[r])
         /\ checkRoomCreated(r) <=> classrooms[r].roomID = r
<1>1. \A i \in RoomId : classrooms[i] \in Entries /\ InPhase(i, classrooms[i])
  BY DEF IInv, TypeOK, EntriesKeepPhase
<1>2. \A i \in RoomId : classrooms[i].roomID \in {i, NoRoom} /\ i # NoRoom
  BY <1>1, PhaseFacts
<1> QED
  BY <1>1, <1>2 DEF checkRoomCreated

\* A request that the server reads names a room of the table, and readings that
\* are in their ranges.
LEMMA RequestedIsChecked ==
  ASSUME IInv, NEW t \in {"CAD_REQ", "DES_REQ", "INI_REQ", "ALT_REQ"}, Requested(t)
  PROVE  /\ RoomAsked \in RoomId
         /\ t \in {"INI_REQ", "ALT_REQ"} => DataAsked \in InRange
<1>1. newsockfd \in Client /\ Link \in Links
  BY DEF IInv, TypeOK, Requested, Link
<1>2. Incoming(Link, "server") \in Requests /\ Incoming(Link, "server").type = t
  BY <1>1, ReceivedIsLink DEF Requested
<1> QED
  BY <1>2 DEF Requests, RoomAsked, DataAsked

\* A reply carries entries as they are printed.
LEMMA RepliesAreReplies ==
  ASSUME IInv
  PROVE  /\ \A t \in Codes : Code(t) \in Replies
         /\ \A t \in Codes, S \in SUBSET RoomId : Reply(t, Contents(classrooms, S)) \in Replies
         /\ Garbled \in Replies /\ Nothing \in Replies
<1>1. Blank \in Printouts
  BY DEF Blank, Printouts, NoRoom, FanPos
<1>2. ASSUME NEW x \in Entries PROVE Printed(x) \in Printouts
  BY DEF Printed, Printouts, Entries, FanPos
<1>3. \A r \in RoomId : classrooms[r] \in Entries
  BY DEF IInv, TypeOK
<1>4. \A S \in SUBSET RoomId : Contents(classrooms, S) \in [RoomId -> Printouts]
  BY <1>1, <1>2, <1>3 DEF Contents
<1>5. \A t \in Codes : Code(t) \in Replies
  BY <1>1 DEF Code, Reply, NoData, Replies
<1>6. \A t \in Codes, S \in SUBSET RoomId : Reply(t, Contents(classrooms, S)) \in Replies
  BY <1>4 DEF Reply, Replies
<1> QED
  BY <1>5, <1>6 DEF Garbled, Nothing, Codes

\* An answer leaves everything but the connection alone, and keeps its type.
LEMMA RespondKeepsTypes ==
  ASSUME IInv, NEW t, Requested(t), NEW m \in Replies, Respond(m)
  PROVE  /\ conn' \in [Client -> Links]
         /\ UNCHANGED <<server, newsockfd, backlog, pc, sent, shown>>
<1>1. newsockfd \in Client /\ Link \in Links /\ "server" \in Ends
      /\ conn \in [Client -> Links]
  BY DEF IInv, TypeOK, Requested, Link, Ends
<1>2. PICK c \in Received(Link, "server") :
        \E d \in Sent(c, "server", m) : conn' = [conn EXCEPT ![newsockfd] = d]
  BY DEF Respond
<1>3. c \in Links
  BY <1>1, ReceivedIsLink
<1>4. \A d \in Sent(c, "server", m) : d \in Links
  BY <1>3, AnswerIsLink
<1> QED
  BY <1>1, <1>2, <1>4 DEF Respond, clientVars

\* A code is answered and the table stays.
LEMMA RefuseKeeps ==
  ASSUME IInv, NEW t, Requested(t), NEW k \in Codes, Refuse(k)
  PROVE  IInv' /\ UNCHANGED classrooms
<1>1. Respond(Code(k)) /\ UNCHANGED classrooms
  BY DEF Refuse
<1>2. Code(k) \in Replies
  BY RepliesAreReplies
<1> QED
  BY <1>1, <1>2, RespondKeepsTypes DEF IInv, TypeOK, EntriesKeepPhase

\* A listing is answered, well formed or not, and the table stays.
LEMMA ShowKeeps ==
  ASSUME IInv, NEW t, Requested(t), NEW k \in Codes, NEW S \in SUBSET RoomId, Show(k, S)
  PROVE  IInv' /\ UNCHANGED classrooms
<1>1. PICK m \in Replies : Respond(m)
  BY RepliesAreReplies DEF Show
<1> QED
  BY <1>1, RespondKeepsTypes DEF Show, IInv, TypeOK, EntriesKeepPhase

-----------------------------------------------------------------------------
(* The handlers keep the invariant, and each is a step of the abstract     *)
(* rooms or leaves the table alone.                                        *)

AbstractStep == Abstract!RoomsNext \/ UNCHANGED classrooms

\* The phases as the abstract specification writes them.
LEMMA AbstractPhases ==
  ASSUME NEW r \in RoomId
  PROVE  /\ PhaseOf(AbsentEntry) = Abstract!Absent
         /\ PhaseOf(OffEntry(r)) = Abstract!Off
         /\ \A x \in Entries : OnEntry(r, x) => PhaseOf(x) = Abstract!Phase("on", SensorsOf(x))
<1>1. r \in Int /\ r # NoRoom /\ AllSensors(-1) \in Sensors
  BY ClassroomsAssumption DEF RoomId, NoRoom, AllSensors, Sensors, FanPos
<1>2. PhaseOf(AbsentEntry) = Abstract!Absent
  BY ClassroomFields DEF PhaseOf, AbsentEntry, Abstract!Absent, Abstract!Phase
<1>3. PhaseOf(OffEntry(r)) = Abstract!Off
  <2>1. OffEntry(r) \in Entries
    BY PhasesAreEntries
  <2>2. OffEntry(r).roomID = r /\ AllOff(OffEntry(r))
    BY <2>1, PhaseFacts DEF InPhase
  <2>3. SensorsOf(OffEntry(r)) = AllSensors(-1)
    BY <1>1, ClassroomIsEntry DEF OffEntry
  <2> QED
    BY <1>1, <2>2, <2>3 DEF PhaseOf, Abstract!Off, Abstract!Phase
<1>4. ASSUME NEW x \in Entries, OnEntry(r, x)
      PROVE  PhaseOf(x) = Abstract!Phase("on", SensorsOf(x))
  <2>1. x.roomID = r /\ ~AllOff(x)
    BY <1>4, PhaseFacts DEF InPhase
  <2> QED
    BY <1>1, <2>1 DEF PhaseOf, Abstract!Phase
<1> QED
  BY <1>2, <1>3, <1>4

\* An entry written with an answer keeps the invariant, when it is in a phase of
\* its room.
LEMMA WriteKeeps ==
  ASSUME IInv, NEW t, Requested(t), NEW r \in RoomId, NEW x \in Entries, InPhase(r, x),
         SetRoom(r, x), NEW k \in Codes, Respond(Code(k))
  PROVE  IInv' /\ Abstract!Become(r, PhaseOf(x))
<1>1. Code(k) \in Replies
  BY RepliesAreReplies
<1> QED
  BY <1>1, SetRoomKeepsPhases, RespondKeepsTypes DEF IInv, TypeOK

\* The request of the abstract rooms is the one that the server reads.
LEMMA AsksIs ==
  ASSUME NEW t, Requested(t)
  PROVE  Abstract!Asks(t, RoomAsked) /\ PendingRequest.data = DataAsked
BY DEF Requested, Abstract!Asks, PendingRequest, RoomAsked, DataAsked

\* createRoomIfNotExists() is Create.
LEMMA CreateStep == ASSUME IInv, createRoomIfNotExists PROVE IInv' /\ AbstractStep
<1> DEFINE r == RoomAsked
<1>1. Requested("CAD_REQ") /\ r \in RoomId
  BY RequestedIsChecked DEF createRoomIfNotExists
<1>2. CASE checkRoomCreated(r)
  BY <1>1, <1>2, RefuseKeeps DEF createRoomIfNotExists, AbstractStep, Codes
<1>3. CASE ~checkRoomCreated(r)
  <2>1. SetRoom(r, OffEntry(r)) /\ Respond(Code("OK_01"))
    BY <1>3 DEF createRoomIfNotExists, OffEntry
  <2>2. classrooms[r] = AbsentEntry
    BY <1>1, <1>3, CreatedIsOwnEntry, PhaseFacts
  <2>3. OffEntry(r) \in Entries /\ InPhase(r, OffEntry(r)) /\ "OK_01" \in Codes
    BY <1>1, PhasesAreEntries DEF InPhase, Codes
  <2>4. IInv' /\ Abstract!Become(r, PhaseOf(OffEntry(r)))
    BY <1>1, <2>1, <2>3, WriteKeeps
  <2>5. Abstract!Create(r)
    BY <1>1, <2>2, <2>4, AbstractPhases, AsksIs DEF Abstract!Create
  <2> QED
    BY <1>1, <2>4, <2>5 DEF AbstractStep, Abstract!RoomsNext
<1> QED
  BY <1>2, <1>3

\* The readings of an init where the sensors are off, or of an update where they
\* are on.
LEMMA InstallStep ==
  ASSUME IInv, NEW t, Requested(t),
         \/ t = "INI_REQ" /\ SensorsOff(RoomAsked)
         \/ t = "ALT_REQ" /\ SensorsOn(RoomAsked),
         Install(RoomAsked, DataAsked), NEW k \in Codes, Respond(Code(k))
  PROVE  IInv' /\ AbstractStep
<1> DEFINE r == RoomAsked
           d == DataAsked
           x == Classroom(r, d)
<1>1. r \in RoomId /\ d \in InRange /\ PendingRequest.data = d /\ Abstract!Asks(t, r)
  BY RequestedIsChecked, AsksIs
<1>2. classrooms[r] \in Entries /\ InPhase(r, classrooms[r]) /\ classrooms[r].roomID = r
  BY <1>1, CreatedIsOwnEntry DEF SensorsOff, SensorsOn
<1>3. x \in Entries /\ InPhase(r, x) /\ OnEntry(r, x) /\ SensorsOf(x) = d
  <2> HIDE DEF r, d
  <2>1. r \in Int /\ d \in Sensors
    BY <1>1, InRangeFacts, ClassroomsAssumption DEF RoomId
  <2>2. SensorsOf(x) = d
    BY <2>1, ClassroomIsEntry
  <2>3. x \in Entries /\ OnEntry(r, x)
    BY <1>1, PhasesAreEntries
  <2> QED
    BY <2>2, <2>3 DEF InPhase
<1>4. SetRoom(r, x)
  BY <1>2 DEF Install
<1>5. IInv' /\ Abstract!Become(r, PhaseOf(x))
  BY <1>1, <1>3, <1>4, WriteKeeps
<1>6. PhaseOf(x) = Abstract!Phase("on", d)
  BY <1>1, <1>3, AbstractPhases
<1>7. Abstract!Read(r)
  BY <1>1, <1>5, <1>6 DEF Abstract!Read
<1>8. CASE t = "INI_REQ" /\ SensorsOff(r)
  <2>1. classrooms[r] = OffEntry(r)
    BY <1>1, <1>2, <1>8, PhaseFacts DEF SensorsOff
  <2> QED
    BY <1>1, <1>5, <1>7, <1>8, <2>1, AbstractPhases
    DEF AbstractStep, Abstract!RoomsNext, Abstract!TurnOn
<1>9. CASE t = "ALT_REQ" /\ SensorsOn(r)
  <2>1. OnEntry(r, classrooms[r])
    BY <1>1, <1>2, <1>9, PhaseFacts DEF SensorsOn
  <2> QED
    BY <1>1, <1>2, <1>5, <1>7, <1>9, <2>1, AbstractPhases
    DEF AbstractStep, Abstract!RoomsNext, Abstract!Update, Abstract!Phase
<1> QED
  BY <1>8, <1>9

\* turnOnSensorsValues() is TurnOn.
LEMMA TurnOnStep == ASSUME IInv, turnOnSensorsValues PROVE IInv' /\ AbstractStep
<1>1. Requested("INI_REQ")
  BY DEF turnOnSensorsValues
<1>2. /\ "ERROR_03" \in Codes /\ "ERROR_05" \in Codes /\ "OK_02" \in Codes
  BY DEF Codes
<1> QED
  BY <1>1, <1>2, RefuseKeeps, InstallStep DEF turnOnSensorsValues, AbstractStep

\* updateSensorsValues() is Update.
LEMMA UpdateStep == ASSUME IInv, updateSensorsValues PROVE IInv' /\ AbstractStep
<1>1. Requested("ALT_REQ")
  BY DEF updateSensorsValues
<1>2. /\ "ERROR_03" \in Codes /\ "ERROR_06" \in Codes /\ "OK_04" \in Codes
  BY DEF Codes
<1> QED
  BY <1>1, <1>2, RefuseKeeps, InstallStep DEF updateSensorsValues, AbstractStep

\* The fans of a room that is on are in their places, so that what
\* shutdownSensorsOfClassroom() leaves of its entry is that of a new room.
LEMMA ClearedIsOff ==
  ASSUME IInv, NEW r \in RoomId, SensorsOn(r), Install(r, Cleared(r))
  PROVE  SetRoom(r, OffEntry(r))
<1>1. /\ classrooms[r] \in Entries /\ InPhase(r, classrooms[r])
      /\ classrooms[r].roomID = r /\ OnEntry(r, classrooms[r])
  BY CreatedIsOwnEntry, PhaseFacts DEF SensorsOn
<1>2. \A k \in FanPos : classrooms[r].fans[k].id = k
  BY <1>1, EntryIsClassroom, InRangeFacts DEF OnEntry
<1>3. Cleared(r) = AllSensors(-1)
  BY <1>2 DEF Cleared, AllSensors
<1> QED
  BY <1>1, <1>3 DEF Install, OffEntry

\* shutdownSensorsOfClassroom() is Shutdown.
LEMMA ShutdownStep == ASSUME IInv, shutdownSensorsOfClassroom PROVE IInv' /\ AbstractStep
<1> DEFINE r == RoomAsked
<1>1. Requested("DES_REQ") /\ r \in RoomId
  BY RequestedIsChecked DEF shutdownSensorsOfClassroom
<1>2. "ERROR_03" \in Codes /\ "ERROR_06" \in Codes /\ "OK_03" \in Codes
  BY DEF Codes
<1>3. CASE Refuse("ERROR_03") \/ Refuse("ERROR_06")
  BY <1>1, <1>2, <1>3, RefuseKeeps DEF AbstractStep
<1>4. CASE SensorsOn(r) /\ Install(r, Cleared(r)) /\ Respond(Code("OK_03"))
  <2>1. /\ classrooms[r] \in Entries /\ InPhase(r, classrooms[r])
        /\ classrooms[r].roomID = r /\ OnEntry(r, classrooms[r])
    BY <1>1, <1>4, CreatedIsOwnEntry, PhaseFacts DEF SensorsOn
  <2>2. SetRoom(r, OffEntry(r))
    BY <1>1, <1>4, ClearedIsOff
  <2>3. OffEntry(r) \in Entries /\ InPhase(r, OffEntry(r))
    BY <1>1, PhasesAreEntries DEF InPhase
  <2>4. IInv' /\ Abstract!Become(r, PhaseOf(OffEntry(r)))
    BY <1>1, <1>2, <1>4, <2>2, <2>3, WriteKeeps
  <2>5. PhaseOf(classrooms[r]).phase = "on"
    BY <1>1, <2>1, AbstractPhases DEF Abstract!Phase
  <2>6. Abstract!Shutdown(r)
    BY <1>1, <2>4, <2>5, AbstractPhases, AsksIs DEF Abstract!Shutdown
  <2> QED
    BY <1>1, <2>4, <2>6 DEF AbstractStep, Abstract!RoomsNext
<1>5. \/ Missing(r) /\ Refuse("ERROR_03")
      \/ SensorsOff(r) /\ Refuse("ERROR_06")
      \/ SensorsOn(r) /\ Install(r, Cleared(r)) /\ Respond(Code("OK_03"))
  BY DEF shutdownSensorsOfClassroom
<1> QED
  BY <1>3, <1>4, <1>5

\* The end of the server's process leaves the table as it was.
LEMMA ServerEndsKeeps ==
  ASSUME IInv, server = "serving", NEW how \in {"exited", "crashed"},
         NEW c \in Links, ServerEnds(how, c)
  PROVE  IInv' /\ UNCHANGED classrooms
<1>2. Closed(c, "server", "rst") \in Links
  BY ClosedIsLink
<1>3. \A p \in Client : Aborted(conn[p], "server") \in Links
  BY AbortedIsLink DEF IInv, TypeOK
<1>4. conn' \in [Client -> Links]
  BY <1>2, <1>3 DEF ServerEnds, IInv, TypeOK
<1>5. server' = how /\ backlog' = <<>> /\ UNCHANGED <<classrooms, newsockfd, pc, sent, shown>>
  BY DEF ServerEnds, clientVars
<1> QED
  BY <1>4, <1>5 DEF IInv, TypeOK, EntriesKeepPhase

\* printClassroom() leaves the table alone, also when it reads outside it.
LEMMA PrintOneStep == ASSUME IInv, printClassroom PROVE IInv' /\ UNCHANGED classrooms
<1>1. Requested("SAL_REQ") /\ server = "serving" /\ Link \in Links
  BY DEF printClassroom, Requested, IInv, TypeOK, Link
<1>2. {"ERROR_03", "ERROR_06", "SAL_RES"} \subseteq Codes
  BY DEF Codes
<1>3. \/ Refuse("ERROR_03") \/ Refuse("ERROR_06")
      \/ RoomAsked \in RoomId /\ Show("SAL_RES", {RoomAsked})
      \/ Show("SAL_RES", {})
      \/ \E c \in Received(Link, "server") : ServerEnds("crashed", c)
  BY DEF printClassroom, SensorsOn
<1>4. CASE Refuse("ERROR_03") \/ Refuse("ERROR_06")
  BY <1>1, <1>2, <1>4, RefuseKeeps
<1>5. CASE \/ RoomAsked \in RoomId /\ Show("SAL_RES", {RoomAsked})
           \/ Show("SAL_RES", {})
  BY <1>1, <1>2, <1>5, ShowKeeps
<1>6. CASE \E c \in Received(Link, "server") : ServerEnds("crashed", c)
  <2>1. PICK c \in Received(Link, "server") : ServerEnds("crashed", c)
    BY <1>6
  <2>2. c \in Links
    BY <1>1, ReceivedIsLink
  <2> QED
    BY <1>1, <2>1, <2>2, ServerEndsKeeps
<1> QED
  BY <1>3, <1>4, <1>5, <1>6

\* printClassrooms() leaves the table alone.
LEMMA PrintAllStep == ASSUME IInv, printClassrooms PROVE IInv' /\ UNCHANGED classrooms
<1>1. Requested("INF_REQ") /\ "ERROR_03" \in Codes /\ "INF_RES" \in Codes
  BY DEF printClassrooms, Codes
<1>2. CreatedRooms \in SUBSET RoomId
  BY DEF CreatedRooms
<1>3. Refuse("ERROR_03") \/ Show("INF_RES", CreatedRooms)
  BY DEF printClassrooms
<1> QED
  BY <1>1, <1>2, <1>3, RefuseKeeps, ShowKeeps

\* accept().
LEMMA AcceptStep == ASSUME IInv, Accept PROVE IInv' /\ UNCHANGED classrooms
<1>1. Head(backlog) \in Client /\ Tail(backlog) \in Seq(Client)
  BY DEF IInv, TypeOK, Accept
<1> QED
  BY <1>1, ClassroomsAssumption DEF IInv, TypeOK, EntriesKeepPhase, Accept, clientVars

\* recv() of end-of-file or of a reset, which ends the server.
LEMMA ClientGoneStep ==
  ASSUME IInv, ClientGone \/ ClientReset PROVE IInv' /\ UNCHANGED classrooms
<1>1. server = "serving" /\ Link \in Links /\ "server" \in Ends
  BY DEF ClientGone, ClientReset, IInv, TypeOK, Link, Ends
<1>2. ErrorReturned(Link, "server") \in Links
  <2>1. "broken" \in StreamStates /\ Peer("server") \in Ends
    BY DEF StreamStates, Peer, Ends
  <2> QED
    BY <1>1, <2>1, SetEndIsLink DEF ErrorReturned
<1> QED
  BY <1>1, <1>2, ServerEndsKeeps DEF ClientGone, ClientReset

\* Every step of the server.
LEMMA ServerStepKeeps == ASSUME IInv, ServerStep PROVE IInv' /\ AbstractStep
BY CreateStep, TurnOnStep, UpdateStep, ShutdownStep, PrintOneStep, PrintAllStep,
   AcceptStep, ClientGoneStep DEF ServerStep, executeCommand, AbstractStep

-----------------------------------------------------------------------------
(* The clients leave the table alone, and let through what they checked. *)

\* A client's step on its own connection keeps the invariant, with its request.
LEMMA ClientKeeps ==
  ASSUME IInv, NEW c \in Client, NEW d \in Links,
         conn' = [conn EXCEPT ![c] = d] \/ UNCHANGED conn,
         NEW x \in {"started", "prompt", "waiting", "ended"}, pc' = [pc EXCEPT ![c] = x],
         NEW q \in Requests \union {NoRequest}, sent' = [sent EXCEPT ![c] = q],
         NEW m \in Replies, shown' = [shown EXCEPT ![c] = m],
         UNCHANGED <<classrooms, server, newsockfd>>, backlog' \in Seq(Client)
  PROVE  IInv'
BY DEF IInv, TypeOK, EntriesKeepPhase

\* The process of a client ends.
LEMMA EndWithKeeps ==
  ASSUME IInv, NEW c \in Client, NEW d \in Links, EndWith(c, d)
  PROVE  IInv' /\ UNCHANGED classrooms
<1>1. \A x \in Closings(d, "client") : x \in Links
  BY ClosingsIsLink
<1>2. Nothing \in Replies
  BY RepliesAreReplies
<1>3. /\ UNCHANGED <<classrooms, server, newsockfd, backlog>> /\ backlog \in Seq(Client)
      /\ conn \in [Client -> Links]
  BY DEF EndWith, serverVars, IInv, TypeOK
<1>4. PICK x \in Links : conn' = [conn EXCEPT ![c] = x] \/ UNCHANGED conn
  BY <1>1, <1>3 DEF EndWith
<1> QED
  BY <1>2, <1>3, <1>4, ClientKeeps DEF EndWith

\* send() of a request that has passed the checks.
LEMMA AskKeeps ==
  ASSUME IInv, NEW c \in Client, NEW q \in Requests, Ask(c, q)
  PROVE  IInv' /\ UNCHANGED classrooms
<1>1. /\ conn[c] \in Links /\ backlog \in Seq(Client) /\ Nothing \in Replies
  BY RepliesAreReplies DEF IInv, TypeOK
<1>2. CASE End(c)
  BY <1>1, <1>2, EndWithKeeps DEF End
<1>3. CASE ~End(c)
  <2>1. PICK d \in Sent(conn[c], "client", q) :
          \/ EndWith(c, d)
          \/ /\ pc' = [pc EXCEPT ![c] = "waiting"]
             /\ conn' = [conn EXCEPT ![c] = d]
             /\ sent' = [sent EXCEPT ![c] = q]
             /\ shown' = [shown EXCEPT ![c] = Nothing]
             /\ UNCHANGED <<serverVars, backlog>>
    BY <1>3 DEF Ask
  <2>2. d \in Links
    BY <1>1, RequestIsLink
  <2> QED
    BY <1>1, <2>1, <2>2, EndWithKeeps, ClientKeeps DEF serverVars
<1> QED
  BY <1>2, <1>3

\* A line that becomes no request.
LEMMA SkipKeeps ==
  ASSUME IInv, NEW c \in Client, NEW m \in Replies, Skip(c, m)
  PROVE  IInv' /\ UNCHANGED classrooms
BY DEF Skip, serverVars, IInv, TypeOK, EntriesKeepPhase

\* A line is typed at the prompt; the checks of the client make it a request that
\* the server can use, or none.
LEMMA LineIs ==
  ASSUME NEW c \in Client, Line(c)
  PROVE  /\ pc[c] = "prompt"
         /\ \/ \E q \in Requests : Ask(c, q)
            \/ \E m \in {Nothing, Code("ERROR_01"), Code("ERROR_04")} : Skip(c, m)
<1>1. ASSUME NEW t \in {"CAD_REQ", "DES_REQ"}, NEW r \in Int, checkInputRegisterRoom(r)
      PROVE  Request(t, r, AllSensors(-1)) \in Requests
  BY <1>1, ClassroomsAssumption DEF checkInputRegisterRoom, Request, Requests, RoomId
<1>2. ASSUME NEW t \in {"INI_REQ", "ALT_REQ"}, NEW r \in Int, checkInputRegisterRoom(r),
             NEW d \in Sensors, checkSensorsInputs(d)
      PROVE  Request(t, r, d) \in Requests
  <2>1. r \in RoomId
    BY <1>2, ClassroomsAssumption DEF checkInputRegisterRoom, RoomId
  <2>2. d \in InRange
    BY <1>2 DEF checkSensorsInputs, checkFanData, InRange, Sensors, FanPos
  <2> QED
    BY <2>1, <2>2 DEF Request, Requests
<1>3. ASSUME NEW t \in {"SAL_REQ", "INF_REQ"}, NEW r \in Int
      PROVE  Request(t, r, AllSensors(-1)) \in Requests
  BY DEF Request, Requests
<1>4. \A r \in RoomWords[c] : r \in Int
  BY ClassroomsAssumption
<1>5. \A d \in Readings[c] : d \in Sensors
  BY ClassroomsAssumption
<1>6. ASSUME NEW t \in {"CAD_REQ", "DES_REQ"}, RoomLine(c, t)
      PROVE  (\E q \in Requests : Ask(c, q)) \/ Skip(c, Code("ERROR_01"))
  BY <1>1, <1>4, <1>6 DEF RoomLine
<1>7. ASSUME NEW t \in {"INI_REQ", "ALT_REQ"}, SensorsLine(c, t)
      PROVE  \/ \E q \in Requests : Ask(c, q)
             \/ Skip(c, Code("ERROR_01")) \/ Skip(c, Code("ERROR_04"))
  BY <1>2, <1>4, <1>5, <1>7 DEF SensorsLine
<1>8. CASE LoadInfo(c) \/ LoadRooms(c)
  BY <1>3, <1>4, <1>8 DEF LoadInfo, LoadRooms, NoRoom
<1> QED
  BY <1>6, <1>7, <1>8 DEF Line, Unknown, RoomLine, SensorsLine

\* What a line does leaves the table alone and keeps the invariant.
LEMMA LineStep ==
  ASSUME IInv, NEW c \in Client, Line(c) PROVE IInv' /\ UNCHANGED classrooms
BY LineIs, AskKeeps, SkipKeeps, RepliesAreReplies DEF Codes

\* connect().
LEMMA ConnectStep ==
  ASSUME IInv, NEW c \in Client, Connect(c) PROVE IInv' /\ UNCHANGED classrooms
<1>1. Established \in Links
  <2>1. /\ Established \in Connections(Messages)
        /\ Established["client"].data = <<>> /\ Established["server"].data = <<>>
    BY DEF Established, Connections, StreamStates, Ends
  <2>2. <<>> \in Seq(Requests) /\ <<>> \in Seq(Replies)
    OBVIOUS
  <2>3. Established["client"].data \in Seq(Requests) /\ Established["server"].data \in Seq(Replies)
    BY <2>1, <2>2
  <2> QED
    BY <2>1, <2>3, LinkIs
<1>2. Append(backlog, c) \in Seq(Client) /\ backlog \in Seq(Client)
  BY DEF IInv, TypeOK
<1>3. UNCHANGED <<classrooms, server, newsockfd, sent, shown>>
  BY DEF Connect, serverVars
<1>4. /\ conn' \in [Client -> Links] /\ backlog' \in Seq(Client)
      /\ pc' \in [Client -> {"started", "prompt", "waiting", "ended"}]
  BY <1>1, <1>2 DEF Connect, IInv, TypeOK
<1> QED
  BY <1>3, <1>4 DEF IInv, TypeOK, EntriesKeepPhase

\* recv() in the client: an answer, or the end.
LEMMA ReceiveStep ==
  ASSUME IInv, NEW c \in Client, Receive(c) \/ Quit(c) \/ Interrupt(c)
  PROVE  IInv' /\ UNCHANGED classrooms
<1>1. /\ conn[c] \in Links /\ "client" \in Ends
      /\ conn \in [Client -> Links]
  BY DEF IInv, TypeOK, Ends
<1>2. CASE End(c)
  BY <1>1, <1>2, EndWithKeeps DEF End
<1>3. CASE Answered(c)
  <2>1. PICK m : /\ m \in Translated(Incoming(conn[c], "client"))
                 /\ shown' = [shown EXCEPT ![c] = m]
    BY <1>3 DEF Answered
  <2>2. /\ Incoming(conn[c], "client") \in Replies
        /\ \A d \in Received(conn[c], "client") : d \in Links
    BY <1>1, <1>3, ReceivedIsLink DEF Answered
  <2>3. m \in Replies
    BY <2>1, <2>2, RepliesAreReplies DEF Translated
  <2>4. /\ conn' \in [Client -> Links]
        /\ UNCHANGED <<classrooms, server, newsockfd, backlog, sent>>
    BY <1>1, <1>3, <2>2 DEF Answered, serverVars
  <2> QED
    BY <1>3, <2>1, <2>3, <2>4 DEF Answered, IInv, TypeOK, EntriesKeepPhase
<1> QED
  BY <1>2, <1>3 DEF Receive, ServerGone, ServerReset, Quit, Interrupt

\* Every step of a client.
LEMMA ClientStepKeeps ==
  ASSUME IInv, NEW c \in Client, ClientStep(c) PROVE IInv' /\ UNCHANGED classrooms
BY LineStep, ConnectStep, ReceiveStep DEF ClientStep

-----------------------------------------------------------------------------
(* The theorems. *)

\* The invariant holds when the server has set up its table.
LEMMA InitIInv == ASSUME Init PROVE IInv
<1>1. Idle \in Links
  <2>1. Idle \in Connections(Messages) /\ Idle["client"].data = <<>> /\ Idle["server"].data = <<>>
    BY DEF Idle, Connections, StreamStates, Ends
  <2>2. <<>> \in Seq(Requests) /\ <<>> \in Seq(Replies)
    OBVIOUS
  <2> QED
    BY <2>1, <2>2, LinkIs
<1>2. \A r \in RoomId : AbsentEntry \in Entries /\ classrooms[r] = AbsentEntry
  BY PhasesAreEntries DEF Init, initializeClassrooms, AbsentEntry
<1>3. Nothing \in [type : Codes, data : [RoomId -> Printouts]]
  BY DEF Nothing, Code, Reply, NoData, Blank, Printouts, Codes, NoRoom, FanPos
<1> QED
  BY <1>1, <1>2, <1>3, ClassroomsAssumption
  DEF Init, initializeClassrooms, IInv, TypeOK, EntriesKeepPhase, InPhase, AbsentEntry, Replies

\* Every step keeps it, and is a step of the abstract rooms or leaves the table.
LEMMA NextIInv == ASSUME IInv, [Next]_vars PROVE IInv' /\ AbstractStep
<1>1. CASE ServerStep
  BY <1>1, ServerStepKeeps
<1>2. CASE \E c \in Client : ClientStep(c)
  BY <1>2, ClientStepKeeps DEF AbstractStep
<1>3. CASE UNCHANGED vars
  <2>1. UNCHANGED <<classrooms, server, newsockfd, backlog, conn, pc, sent, shown>>
    BY <1>3 DEF vars, serverVars, clientVars
  <2> QED
    BY <2>1 DEF IInv, TypeOK, EntriesKeepPhase, AbstractStep
<1> QED
  BY <1>1, <1>2, <1>3 DEF Next

\* The invariant holds in every state of the program.
THEOREM InvariantHolds == Spec => []IInv
<1>1. IInv /\ [Next]_vars => IInv'
  BY NextIInv
<1> QED
  BY <1>1, InitIInv, PTL DEF Spec

\* Every request on its way has passed the checks of its client, so that what the
\* server takes from it as an index or as a value is one.
THEOREM TypesHold == Spec => []TypeOK
<1>1. IInv => TypeOK
  BY DEF IInv
<1> QED
  BY <1>1, InvariantHolds, PTL

\* Every entry of the table is in one phase of its room's life, in all its fields.
THEOREM PhasesHold == Spec => []EntriesKeepPhase
<1>1. IInv => EntriesKeepPhase
  BY DEF IInv
<1> QED
  BY <1>1, InvariantHolds, PTL

\* The table of the server implements the abstract rooms, for any number of
\* clients and rooms and whatever the users type.
THEOREM RoomsImplemented == Spec => KeepsRooms
<1>1. Init => Abstract!RoomsInit
  <2>1. ASSUME Init, NEW r \in RoomId PROVE PhaseOf(classrooms[r]) = Abstract!Absent
    BY <2>1, AbstractPhases DEF Init, initializeClassrooms, AbsentEntry
  <2> QED
    BY <2>1 DEF Abstract!RoomsInit
<1>2. IInv /\ [Next]_vars =>
        [Abstract!RoomsNext]_([r \in RoomId |-> PhaseOf(classrooms[r])])
  BY NextIInv DEF AbstractStep
<1> QED
  BY <1>1, <1>2, InvariantHolds, PTL DEF Spec, KeepsRooms, Abstract!RoomsSpec
=============================================================================
