--------------------------- MODULE MCEnergySystem ---------------------------
(* Small instances of EnergySystem for TLC. *)
EXTENDS EnergySystem, TLC

ClientSymmetry == Permutations(Client)
=============================================================================
