--------------------------- MODULE MCClientQueue ---------------------------
(* Instances of ClientQueue for TLC. *)
EXTENDS ClientQueue, TLC

MCSymmetry == Permutations(Packet)
=============================================================================
