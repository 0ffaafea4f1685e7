----------------------------- MODULE Classrooms -----------------------------
(***************************************************************************)
(* The program of TP1-2024/tp1-cod: a server that holds a table of         *)
(* classrooms, and the clients of its users, over the functions of         *)
(* common.c. The server accepts one client, answers its requests one at a  *)
(* time and ends with it; whoever else connects stays in the queue of      *)
(* accept(). The client checks what its user types, sends at most one      *)
(* request and waits for the answer; the server checks none of it again.   *)
(***************************************************************************)
EXTENDS Tcp, FiniteSets

CONSTANTS
  Client,     \* the client processes; each is started at most once
  NoClient,
  MAX_ROOMS,
  RoomWords,  \* per client, what atoi() makes of the words its user types where
              \* a room goes
  Readings    \* and of the six words typed where the sensors go

MAXPENDING == 5

RoomId == 0 .. MAX_ROOMS - 1
FanPos == 1 .. 4

\* The roomID of an entry no room uses.
NoRoom == -999

\* A line of sensor values: getNthCommand(), atoi() and getFanData() of it.
Sensors == [temperature : Int, humidity : Int, fans : [FanPos -> [id : Int, state : Int]]]

ASSUME ClassroomsAssumption ==
  /\ NoClient \notin Client
  /\ MAX_ROOMS \in Nat
  /\ RoomWords \in [Client -> SUBSET Int]
  /\ Readings \in [Client -> SUBSET Sensors]
  /\ IsFiniteSet(Client) /\ Cardinality(Client) <= MAXPENDING + 1

\* The sensors of an entry, all with value v.
AllSensors(v) ==
  [temperature |-> v, humidity |-> v, fans |-> [k \in FanPos |-> [id |-> k, state |-> v]]]

\* Entry r with room id and sensors d.
Classroom(id, d) ==
  [roomID |-> id, temperature |-> d.temperature, humidity |-> d.humidity, fans |-> d.fans]

VARIABLES
  classrooms,
  server,      \* "listening", "serving", "exited" or "crashed"
  newsockfd,   \* the client behind it, NoClient until accept() returns
  backlog,     \* kernel: the connections accept() has not returned
  conn,        \* kernel: the connection of each client; Idle if none was made
  pc,          \* what each client is doing
  sent,        \* while it runs: the request its user's last line became, if any
  shown        \* and what it has printed since

clientVars == <<pc, sent, shown>>
serverVars == <<classrooms, server, newsockfd>>
vars == <<serverVars, backlog, conn, clientVars>>

-----------------------------------------------------------------------------
(* Messages. A reply carries what it prints of each room, Blank if nothing. *)

Request(t, r, d) == [type |-> t, room |-> r, data |-> d]

Blank == [roomID |-> NoRoom, temperature |-> NoRoom, humidity |-> NoRoom,
          fans |-> [k \in FanPos |-> <<>>]]
NoData == [r \in RoomId |-> Blank]
Reply(t, d) == [type |-> t, data |-> d]
Code(t) == Reply(t, NoData)

NoRequest == Request("none", NoRoom, AllSensors(-1))
Nothing == Code("nothing")

\* The text of memory that was never written, or is no longer the function's.
Garbled == Code("garbled")

\* createClassroomStringData(): the identifiers of the fans are printed only
\* while the sensors are on.
Printed(c) ==
  [roomID |-> c.roomID, temperature |-> c.temperature, humidity |-> c.humidity,
   fans |-> [k \in FanPos |-> IF c.temperature = -1 THEN <<c.fans[k].state>>
                              ELSE <<c.fans[k].id, c.fans[k].state>>]]

\* What is printed of the rooms S of table t.
Contents(t, S) == [r \in RoomId |-> IF r \in S THEN Printed(t[r]) ELSE Blank]

-----------------------------------------------------------------------------
(* The checks of the client, the only ones before the server's table. *)

checkInputRegisterRoom_OneMore(r) == r >= 0 /\ r <= MAX_ROOMS
checkInputRegisterRoom(r) == r >= 0 /\ r < MAX_ROOMS

checkFanData_AnyFan(k, fan) == fan.state \in 0 .. 2
checkFanData(k, fan) == fan.id = k /\ fan.state \in 0 .. 2

checkSensorsInputs(d) ==
  /\ d.temperature \in 0 .. 40
  /\ d.humidity \in 0 .. 100
  /\ \A k \in FanPos : checkFanData(k, d.fans[k])

-----------------------------------------------------------------------------
(* main() of the server. *)

initializeClassrooms == [r \in RoomId |-> Classroom(NoRoom, AllSensors(-999))]

Init ==
  /\ classrooms = initializeClassrooms
  /\ server = "listening"
  /\ newsockfd = NoClient
  /\ backlog = <<>>
  /\ conn = [c \in Client |-> Idle]
  /\ pc = [c \in Client |-> "started"]
  /\ sent = [c \in Client |-> NoRequest]
  /\ shown = [c \in Client |-> Nothing]

-----------------------------------------------------------------------------
(* The clients. *)

\* A connection succeeds while the server listens; the result of a failed one, a
\* descriptor of -1, is not checked.
Connect(c) ==
  /\ pc[c] = "started"
  /\ pc' = [pc EXCEPT ![c] = "prompt"]
  /\ IF server \in {"listening", "serving"}
       THEN /\ conn' = [conn EXCEPT ![c] = Established]
            /\ backlog' = Append(backlog, c)
       ELSE UNCHANGED <<conn, backlog>>
  /\ UNCHANGED <<serverVars, sent, shown>>

\* The process ends, with d left of its connection; its socket is closed, if it
\* has one.
EndWith(c, d) ==
  /\ pc' = [pc EXCEPT ![c] = "ended"]
  /\ sent' = [sent EXCEPT ![c] = NoRequest]
  /\ shown' = [shown EXCEPT ![c] = Nothing]
  /\ IF d = Idle THEN UNCHANGED conn
     ELSE conn' \in {[conn EXCEPT ![c] = x] : x \in Closings(d, "client")}
  /\ UNCHANGED <<serverVars, backlog>>

End(c) == EndWith(c, conn[c])

\* The client leaves its loop: the first word is no command, nothing follows it,
\* or the input is at its end (checkCommand()). Or it crashes: a later word is
\* missing, and atoi(), strcmp() or strlen() gets NULL.
Quit(c) == pc[c] = "prompt" /\ End(c)

\* The user kills the process while it waits for an answer.
Interrupt(c) == pc[c] = "waiting" /\ End(c)

\* The line becomes no request; the reason is printed, if there is one.
Skip(c, m) ==
  /\ sent' = [sent EXCEPT ![c] = NoRequest]
  /\ shown' = [shown EXCEPT ![c] = m]
  /\ UNCHANGED <<serverVars, backlog, conn, pc>>

\* send() of the request. It fails without a connection, or when the reset of one
\* that the server never accepted has arrived: then error() ends the process.
Ask(c, q) ==
  \/ conn[c] = Idle /\ End(c)
  \/ \E d \in Sent(conn[c], "client", q) :
       IF d["server"].end = "broken" THEN EndWith(c, d)
       ELSE /\ pc' = [pc EXCEPT ![c] = "waiting"]
            /\ conn' = [conn EXCEPT ![c] = d]
            /\ sent' = [sent EXCEPT ![c] = q]
            /\ shown' = [shown EXCEPT ![c] = Nothing]
            /\ UNCHANGED <<serverVars, backlog>>

\* "register" and "shutdown".
RoomLine(c, t) ==
  /\ pc[c] = "prompt"
  /\ \E r \in RoomWords[c] :
       IF checkInputRegisterRoom(r) THEN Ask(c, Request(t, r, AllSensors(-1)))
       ELSE Skip(c, Code("ERROR_01"))

\* "init" and "update", with the values on the line or in a file.
SensorsLine(c, t) ==
  /\ pc[c] = "prompt"
  /\ \E r \in RoomWords[c], d \in Readings[c] :
       CASE ~checkInputRegisterRoom(r) -> Skip(c, Code("ERROR_01"))
         [] checkInputRegisterRoom(r) /\ ~checkSensorsInputs(d) -> Skip(c, Code("ERROR_04"))
         [] OTHER -> Ask(c, Request(t, r, d))

\* "load info": nothing checks the room. "load rooms".
LoadInfo(c) ==
  /\ pc[c] = "prompt"
  /\ \E r \in RoomWords[c] : Ask(c, Request("SAL_REQ", r, AllSensors(-1)))
LoadRooms(c) ==
  /\ pc[c] = "prompt"
  /\ Ask(c, Request("INF_REQ", NoRoom, AllSensors(-1)))

\* "kill" and more, a second word unknown, or a file that does not open.
Unknown(c) == pc[c] = "prompt" /\ Skip(c, Nothing)

\* checkInputAndCreatePayload().
Line(c) ==
  \/ \E t \in {"CAD_REQ", "DES_REQ"} : RoomLine(c, t)
  \/ \E t \in {"INI_REQ", "ALT_REQ"} : SensorsLine(c, t)
  \/ LoadInfo(c) \/ LoadRooms(c) \/ Unknown(c)

\* What translateResponseToMessage() prints of an answer: for the two that carry
\* data it returns an array of its own, which is gone.
Translated(m) == IF m.type \in {"SAL_RES", "INF_RES"} THEN {m, Garbled} ELSE {m}

Answered(c) ==
  /\ pc[c] = "waiting"
  /\ HasData(conn[c], "client")
  /\ conn' \in {[conn EXCEPT ![c] = d] : d \in Received(conn[c], "client")}
  /\ shown' \in {[shown EXCEPT ![c] = m] : m \in Translated(Incoming(conn[c], "client"))}
  /\ pc' = [pc EXCEPT ![c] = "prompt"]
  /\ UNCHANGED <<serverVars, backlog, sent>>

\* recv() returned 0 and the buffer is empty: getNthCommand() copies
\* NULL and the process crashes.
ServerGone(c) ==
  /\ pc[c] = "waiting"
  /\ AtEof(conn[c], "client")
  /\ End(c)

\* recv() returned -1: error().
ServerReset(c) ==
  /\ pc[c] = "waiting"
  /\ AtReset(conn[c], "client")
  /\ End(c)

Receive(c) == Answered(c) \/ ServerGone(c) \/ ServerReset(c)

-----------------------------------------------------------------------------
(* The checks of the server on its table. *)

checkRoomCreated(r) == \E i \in RoomId : classrooms[i].roomID = r

\* All six values of entry x are -1.
AllOff(x) ==
  /\ x.temperature = -1 /\ x.humidity = -1
  /\ \A k \in FanPos : x.fans[k].state = -1

\* The answers -1, 1 and -2 of checkRoomsSensorsAreInstalled().
Missing(r) == ~checkRoomCreated(r)
SensorsOff(r) == checkRoomCreated(r) /\ r \in RoomId /\ AllOff(classrooms[r])
SensorsOn(r) == checkRoomCreated(r) /\ r \in RoomId /\ ~AllOff(classrooms[r])

\* Neither: r is the sentinel itself, which every unused entry holds, and the
\* answer is read outside the array.
OutsideTable(r) == checkRoomCreated(r) /\ r \notin RoomId

-----------------------------------------------------------------------------
(* The server. *)

\* accept(), once: the listening socket stays open and is not used again.
Accept_Again ==
  /\ server \in {"listening", "serving"}
  /\ backlog # <<>>
  /\ server' = "serving"
  /\ newsockfd' = Head(backlog)
  /\ backlog' = Tail(backlog)
  /\ UNCHANGED <<classrooms, conn, clientVars>>
Accept ==
  /\ server = "listening"
  /\ backlog # <<>>
  /\ server' = "serving"
  /\ newsockfd' = Head(backlog)
  /\ backlog' = Tail(backlog)
  /\ UNCHANGED <<classrooms, conn, clientVars>>

Link == conn[newsockfd]

\* The process ends and its sockets are closed, with c the connection it served.
ServerEnds_QueueLeft(how, c) ==
  /\ server' = how
  /\ conn' = [conn EXCEPT ![newsockfd] = Closed(c, "server", "rst")]
  /\ UNCHANGED <<classrooms, newsockfd, backlog, clientVars>>
ServerEnds(how, c) ==
  /\ server' = how
  /\ conn' = [p \in Client |->
                IF p = newsockfd THEN Closed(c, "server", "rst")
                ELSE IF \E k \in 1 .. Len(backlog) : backlog[k] = p
                  THEN Aborted(conn[p], "server")
                  ELSE conn[p]]
  /\ backlog' = <<>>
  /\ UNCHANGED <<classrooms, newsockfd, clientVars>>

\* recv() returned 0.
ClientGone ==
  /\ server = "serving"
  /\ AtEof(Link, "server")
  /\ ServerEnds("exited", Link)

\* recv() returned -1: the loop goes on with an empty request, and
\* getNthCommand() copies NULL.
ClientReset ==
  /\ server = "serving"
  /\ AtReset(Link, "server")
  /\ ServerEnds("crashed", ErrorReturned(Link, "server"))

\* recv() has returned a request of type t.
Requested(t) ==
  /\ server = "serving"
  /\ HasData(Link, "server")
  /\ Incoming(Link, "server").type = t

\* Answer m. (No send() meets a reset: one answer at most follows the client's end.)
Respond(m) ==
  /\ \E c \in Received(Link, "server") :
       conn' \in {[conn EXCEPT ![newsockfd] = d] : d \in Sent(c, "server", m)}
  /\ UNCHANGED <<server, newsockfd, backlog, clientVars>>

\* Answer with the code, the table as it is.
Refuse(t) == Respond(Code(t)) /\ UNCHANGED classrooms

\* The room and the sensor values of the request.
RoomAsked == Incoming(Link, "server").room
DataAsked == Incoming(Link, "server").data

SetRoom(r, x) == classrooms' = [classrooms EXCEPT ![r] = x]

createRoomIfNotExists_Unchecked ==
  /\ Requested("CAD_REQ")
  /\ SetRoom(RoomAsked, Classroom(RoomAsked, AllSensors(-1)))
  /\ Respond(Code("OK_01"))
createRoomIfNotExists ==
  /\ Requested("CAD_REQ")
  /\ IF checkRoomCreated(RoomAsked) THEN Refuse("ERROR_02")
     ELSE /\ SetRoom(RoomAsked, Classroom(RoomAsked, AllSensors(-1)))
          /\ Respond(Code("OK_01"))

\* The six values of the line replace those of entry r.
Install(r, d) == SetRoom(r, Classroom(classrooms[r].roomID, d))

turnOnSensorsValues ==
  /\ Requested("INI_REQ")
  /\ \/ Missing(RoomAsked) /\ Refuse("ERROR_03")
     \/ SensorsOn(RoomAsked) /\ Refuse("ERROR_05")
     \/ /\ SensorsOff(RoomAsked)
        /\ Install(RoomAsked, DataAsked)
        /\ Respond(Code("OK_02"))

updateSensorsValues ==
  /\ Requested("ALT_REQ")
  /\ \/ Missing(RoomAsked) /\ Refuse("ERROR_03")
     \/ SensorsOff(RoomAsked) /\ Refuse("ERROR_06")
     \/ /\ SensorsOn(RoomAsked)
        /\ Install(RoomAsked, DataAsked)
        /\ Respond(Code("OK_04"))

\* The sensors of entry r with the states -1; the fans keep their identifiers.
Cleared(r) ==
  [temperature |-> -1, humidity |-> -1,
   fans |-> [k \in FanPos |-> [id |-> classrooms[r].fans[k].id, state |-> -1]]]

shutdownSensorsOfClassroom ==
  /\ Requested("DES_REQ")
  /\ \/ Missing(RoomAsked) /\ Refuse("ERROR_03")
     \/ SensorsOff(RoomAsked) /\ Refuse("ERROR_06")
     \/ /\ SensorsOn(RoomAsked)
        /\ Install(RoomAsked, Cleared(RoomAsked))
        /\ Respond(Code("OK_03"))

\* The answer t with the entries of the rooms S, or what strcat() makes of it
\* behind the bytes that malloc() has left in the payload.
Show(t, S) ==
  /\ \/ Respond(Reply(t, Contents(classrooms, S)))
     \/ Respond(Garbled)
  /\ UNCHANGED classrooms

\* Of memory outside the table anything may be printed, or read as six times -1,
\* or the process ends.
printClassroom ==
  /\ Requested("SAL_REQ")
  /\ \/ Missing(RoomAsked) /\ Refuse("ERROR_03")
     \/ SensorsOff(RoomAsked) /\ Refuse("ERROR_06")
     \/ SensorsOn(RoomAsked) /\ Show("SAL_RES", {RoomAsked})
     \/ /\ OutsideTable(RoomAsked)
        /\ \/ Show("SAL_RES", {})
           \/ Refuse("ERROR_06")
           \/ \E c \in Received(Link, "server") : ServerEnds("crashed", c)

\* checkAnyRoomCreated(), and the loop over the rooms to print.
CreatedRooms == {i \in RoomId : classrooms[i].roomID # NoRoom}

printClassrooms ==
  /\ Requested("INF_REQ")
  /\ IF CreatedRooms = {} THEN Refuse("ERROR_03") ELSE Show("INF_RES", CreatedRooms)

executeCommand_NoUpdate ==
  \/ createRoomIfNotExists \/ turnOnSensorsValues
  \/ shutdownSensorsOfClassroom \/ printClassroom \/ printClassrooms
  \/ Requested("ALT_REQ") /\ \E c \in Received(Link, "server") : ServerEnds("crashed", c)
executeCommand ==
  \/ createRoomIfNotExists \/ turnOnSensorsValues \/ updateSensorsValues
  \/ shutdownSensorsOfClassroom \/ printClassroom \/ printClassrooms

ServerStep == Accept \/ ClientGone \/ ClientReset \/ executeCommand

ClientStep(c) ==
  \/ Connect(c) \/ Line(c) \/ Receive(c)
  \/ Quit(c) \/ Interrupt(c)

Next == ServerStep \/ \E c \in Client : ClientStep(c)

Spec == Init /\ [][Next]_vars

\* Nobody has to start a client or to type; a process that can go on does, and
\* bytes arrive.
LiveSpec == Spec /\ WF_vars(ServerStep) /\ \A c \in Client : WF_vars(Receive(c))

-----------------------------------------------------------------------------
(* Properties. *)

Codes == {"OK_01", "OK_02", "OK_03", "OK_04", "ERROR_01", "ERROR_02", "ERROR_03",
          "ERROR_04", "ERROR_05", "ERROR_06", "SAL_RES", "INF_RES",
          "nothing", "garbled"}

\* The readings of sensors that work, each fan in its place.
InRange ==
  {d \in [temperature : 0 .. 40, humidity : 0 .. 100,
          fans : [FanPos -> [id : FanPos, state : 0 .. 2]]] :
     \A k \in FanPos : d.fans[k].id = k}

\* The requests that the checks of the client let through.
Requests ==
  [type : {"CAD_REQ", "DES_REQ"}, room : RoomId, data : {AllSensors(-1)}] \union
  [type : {"INI_REQ", "ALT_REQ"}, room : RoomId, data : InRange] \union
  [type : {"SAL_REQ", "INF_REQ"}, room : Int, data : {AllSensors(-1)}]

Entries == [roomID : Int, temperature : Int, humidity : Int,
            fans : [FanPos -> [id : Int, state : Int]]]

Printouts == [roomID : Int, temperature : Int, humidity : Int, fans : [FanPos -> Seq(Int)]]

Replies == [type : Codes, data : [RoomId -> Printouts]]

Messages == Requests \union Replies

Links ==
  {d \in Connections(Messages) :
     d["client"].data \in Seq(Requests) /\ d["server"].data \in Seq(Replies)}

\* Types: in particular every request on its way names a room and readings that
\* the server, which checks neither, can use as an index and as values.
TypeOK ==
  /\ classrooms \in [RoomId -> Entries]
  /\ server \in {"listening", "serving", "exited", "crashed"}
  /\ newsockfd \in Client \union {NoClient}
  /\ server = "listening" <=> newsockfd = NoClient
  /\ backlog \in Seq(Client)
  /\ conn \in [Client -> Links]
  /\ pc \in [Client -> {"started", "prompt", "waiting", "ended"}]
  /\ sent \in [Client -> Requests \union {NoRequest}]
  /\ shown \in [Client -> Replies]

\* The entry of a room in each phase of its life.
SensorsOf(x) == [temperature |-> x.temperature, humidity |-> x.humidity, fans |-> x.fans]

AbsentEntry == Classroom(NoRoom, AllSensors(-999))
OffEntry(r) == Classroom(r, AllSensors(-1))
OnEntry(r, x) == x.roomID = r /\ SensorsOf(x) \in InRange

InPhase(r, x) == x = AbsentEntry \/ x = OffEntry(r) \/ OnEntry(r, x)

\* The table never mixes the phases: an entry is as initializeClassrooms() left
\* it, or off in all six values, or holds six readings within their ranges with
\* each fan in its place, so that -1 and -999 keep their meaning although the
\* server checks no value (checkSensorsInputs() runs in the client only).
EntriesKeepPhase ==
  \A r \in RoomId : InPhase(r, classrooms[r])

Exists(t, r) == r \in RoomId /\ t[r] # AbsentEntry
IsOff(t, r)  == r \in RoomId /\ t[r] = OffEntry(r)
IsOn(t, r)   == Exists(t, r) /\ ~IsOff(t, r)

\* What the user may conclude from the answer m to request q about the table t.
Tells(t, m, q) ==
  CASE m.type = "OK_01"    -> q.type = "CAD_REQ" /\ IsOff(t, q.room)
    [] m.type = "ERROR_02" -> q.type = "CAD_REQ" /\ Exists(t, q.room)
    [] m.type = "OK_02"    -> q.type = "INI_REQ" /\ t[q.room] = Classroom(q.room, q.data)
    [] m.type = "OK_04"    -> q.type = "ALT_REQ" /\ t[q.room] = Classroom(q.room, q.data)
    [] m.type = "ERROR_05" -> q.type = "INI_REQ" /\ IsOn(t, q.room)
    [] m.type = "OK_03"    -> q.type = "DES_REQ" /\ IsOff(t, q.room)
    [] m.type = "ERROR_06" -> q.type \in {"ALT_REQ", "DES_REQ", "SAL_REQ"} /\ IsOff(t, q.room)
    [] m.type = "ERROR_03" -> IF q.type = "INF_REQ" THEN \A r \in RoomId : ~Exists(t, r)
                              ELSE q.type # "CAD_REQ" /\ ~Exists(t, q.room)
    [] m.type = "SAL_RES"  -> /\ q.type = "SAL_REQ" /\ IsOn(t, q.room)
                              /\ m.data = Contents(t, {q.room})
    [] m.type = "INF_RES"  -> /\ q.type = "INF_REQ"
                              /\ m.data = Contents(t, {r \in RoomId : Exists(t, r)})
    [] OTHER               -> m = Garbled /\ q.type \in {"SAL_REQ", "INF_REQ"}

\* "load info -999" asks for the sentinel.
AsksSentinel(q) == q.type = "SAL_REQ" /\ q.room = NoRoom

\* What a client has on its screen is true of the server's table until its next
\* request, not only when the answer was sent: nobody else changes the table, no
\* answer is that of another request, and none is lost or comes twice.
AnswersStayTrue ==
  \A c \in Client :
    pc[c] = "prompt" /\ sent[c] # NoRequest /\ ~AsksSentinel(sent[c]) =>
      Tells(classrooms, shown[c], sent[c])

\* Nothing a client at its prompt or waiting has asked for ends the server, but
\* for the sentinel: the server ends or crashes after its client only, in
\* particular no request makes executeCommand() return NULL.
ServerOutlivesClient ==
  server \in {"exited", "crashed"} =>
    pc[newsockfd] = "ended" \/ AsksSentinel(sent[newsockfd])

\* A client that waits for an answer gets it, or an error: the one that is served
\* always, the others at the latest when the server has ended. The server does not
\* survive its client: it ends, whether the client closed its socket, crashed or was
\* killed in the middle of an exchange.
EveryWaitEnds ==
  /\ \A c \in Client :
       (pc[c] = "waiting" /\ (newsockfd = c \/ server \in {"exited", "crashed"})) ~>
         pc[c] # "waiting"
  /\ (newsockfd # NoClient /\ pc[newsockfd] = "ended") ~> server \in {"exited", "crashed"}

\* The table as the abstract rooms: the sentinels of an entry give its phase.
PhaseOf(x) ==
  IF x.roomID = NoRoom THEN [phase |-> "absent", reading |-> AllSensors(-1)]
  ELSE [phase |-> IF AllOff(x) THEN "off" ELSE "on", reading |-> SensorsOf(x)]

\* The request that recv() is about to return, if there is one.
PendingRequest ==
  IF server = "serving" /\ HasData(Link, "server") THEN Incoming(Link, "server") ELSE NoRequest

Abstract == INSTANCE Rooms WITH
  Room <- RoomId, Reading <- InRange, NoReading <- AllSensors(-1),
  room <- [r \in RoomId |-> PhaseOf(classrooms[r])], request <- PendingRequest

\* The table keeps the promise of Rooms whatever its client types: in particular
\* no request does another's work, as a second register that would wipe the
\* readings of a room.
KeepsRooms == Abstract!RoomsSpec
=============================================================================
