---------------------------- MODULE MCClassrooms ----------------------------
(* Small instances of Classrooms for TLC. *)
EXTENDS Classrooms, TLC

CONSTANTS c1, c2

MCClient == {c1, c2}

\* The values the user types: temperature t, humidity h, fan k in state s[k].
Line4(t, h, s) ==
  [temperature |-> t, humidity |-> h, fans |-> [k \in FanPos |-> [id |-> k, state |-> s[k]]]]

\* For one user: the two rooms, the number after them, and the sentinel. For the
\* other, who knows of one room only and has no sensors: that room.
MCRoomWords == (c1 :> {-999, 0, 1, 2}) @@ (c2 :> {0})

\* The ends of the ranges; a line that would look switched off, and one with two
\* fans of the same number.
MCReadings == (c2 :> {}) @@ (c1 :>
  { Line4(0, 0, <<0, 0, 0, 0>>), Line4(40, 100, <<2, 1, 0, 2>>),
    Line4(-1, 0, <<0, 0, 0, 0>>),
    [Line4(0, 0, <<0, 0, 0, 0>>) EXCEPT !.fans[2].id = 1] })
=============================================================================
