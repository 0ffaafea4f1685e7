--------------------------- MODULE MCTcpServers ---------------------------
(* Small instances of TcpServers for TLC. *)
EXTENDS TcpServers

CONSTANTS c1, c2

\* The words differ in their first byte; c1's is the largest number of two bytes.
MCWord == c1 :> <<1, 1>> @@ c2 :> <<0, 1>>

MCBuilds == [encoding : Encodings, framing : Framings]

\* A voter and an inquirer for candidate 1, and a candidate whose number is a newline
\* in the binary encoding, and the same digit and one more in the other.
MCCommands == {[candidate |-> 1, isInquiry |-> FALSE], [candidate |-> 1, isInquiry |-> TRUE],
              [candidate |-> 10, isInquiry |-> FALSE]}

\* One vote less than a newline is a count of.
MCEarlierVotes == 1 :> 8

\* Nothing but zeros, or a digit where a request for candidate 1 ends.
MCStackBytes == {<<>>, <<0, 0, 0, 0, 0, 0, 55>>}
=============================================================================
