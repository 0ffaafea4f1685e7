--------------------------- MODULE MCEnergyServer ---------------------------
(* Small instances of EnergyServer for TLC. *)
EXTENDS EnergyServer, TLC

ClientSymmetry == Permutations(Client)

\* With HISTORY_SIZE = 1 every write is past the end and leaves either index, 1
\* or 2, and the server does the same from both: one of them is explored.
OneIndexOfTwo == history_index = 1
=============================================================================
