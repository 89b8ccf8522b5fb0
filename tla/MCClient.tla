------------------------------ MODULE MCClient ------------------------------
(* Instances of Client for TLC: what the user does in each. *)
EXTENDS Client, TLC

All == CheckedAct \cup UncheckedAct
Upload == {"Drop", "Disconnect"}
MCSymmetry == Permutations(Connection)
=============================================================================
