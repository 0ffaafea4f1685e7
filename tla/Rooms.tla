------------------------------- MODULE Rooms -------------------------------
(***************************************************************************)
(* What the program of TP1-2024 promises about its classrooms: an abstract *)
(* specification, without sockets or sentinel values. A room is created    *)
(* once and never goes away; its sensors are turned on when they are off,  *)
(* get new readings and are shut down only while they are on, and each of  *)
(* these happens on the request for it, to the room it names.              *)
(***************************************************************************)
CONSTANTS Room, Reading, NoReading

VARIABLES
  room,     \* the phase of each room's life, and its readings while on
  request   \* the request being served; any, or none

Phase(p, d) == [phase |-> p, reading |-> d]

Absent == Phase("absent", NoReading)
Off    == Phase("off", NoReading)

RoomsInit == room = [r \in Room |-> Absent]

Asks(t, r) == request.type = t /\ request.room = r

Become(r, x) == room' = [room EXCEPT ![r] = x]

\* Room r is on with the readings of the request.
Read(r) == request.data \in Reading /\ Become(r, Phase("on", request.data))

Create(r)   == Asks("CAD_REQ", r) /\ room[r] = Absent /\ Become(r, Off)
TurnOn(r)   == Asks("INI_REQ", r) /\ room[r] = Off /\ Read(r)
Update(r)   == Asks("ALT_REQ", r) /\ room[r].phase = "on" /\ Read(r)
Shutdown(r) == Asks("DES_REQ", r) /\ room[r].phase = "on" /\ Become(r, Off)

RoomsNext == \E r \in Room : Create(r) \/ TurnOn(r) \/ Update(r) \/ Shutdown(r)

RoomsSpec == RoomsInit /\ [][RoomsNext]_room
=============================================================================
