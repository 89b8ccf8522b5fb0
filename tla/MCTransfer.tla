------------------------------ MODULE MCTransfer ------------------------------
(* An instance of Transfer for TLC: the user connects, uploads, downloads. *)
EXTENDS Transfer, TLC

UpAndDown == {"Drop", "Download", "Delete", "Disconnect"}
AFile == Name \X {0}
=============================================================================
