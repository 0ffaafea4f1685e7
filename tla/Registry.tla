------------------------------ MODULE Registry ------------------------------
(***************************************************************************)
(* What a server of TP2-2024 promises about its clients: an abstract       *)
(* specification, without sockets, tables or messages. A client that       *)
(* arrives is admitted with an identifier nobody had before, or refused,   *)
(* which happens only when the registry is full; a member leaves on its    *)
(* own.                                                                    *)
(***************************************************************************)
EXTENDS Integers, FiniteSets

CONSTANTS Client, Limit

VARIABLES
  waiting,  \* the clients that have arrived and have no answer yet
  members,  \* the clients admitted that have not left: [client, id]
  issued    \* the identifiers given so far

rvars == <<waiting, members, issued>>

RInit == waiting = {} /\ members = {} /\ issued = {}

Arrive(p) ==
  /\ waiting' = waiting \union {p}
  /\ UNCHANGED <<members, issued>>

Enter(p) ==
  /\ p \in waiting
  /\ Cardinality(members) < Limit
  /\ \E m \in members' :
       /\ m.client = p /\ m.id \notin issued
       /\ members' = members \union {m}
       /\ issued' = issued \union {m.id}
  /\ waiting' = waiting \ {p}

TurnAway(p) ==
  /\ p \in waiting
  /\ Cardinality(members) = Limit
  /\ waiting' = waiting \ {p}
  /\ UNCHANGED <<members, issued>>

Leave(m) ==
  /\ members' = members \ {m}
  /\ UNCHANGED <<waiting, issued>>

RNext ==
  \/ \E p \in Client : Arrive(p) \/ Enter(p) \/ TurnAway(p)
  \/ \E m \in members : Leave(m)

RSpec == RInit /\ [][RNext]_rvars
=============================================================================
