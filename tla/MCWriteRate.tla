----------------------------- MODULE MCWriteRate -----------------------------
(* WriteRate for TLC: a packet that is shorter than a window at each rate,   *)
(* one that is longer than two at the lower, and rates that do not divide.   *)
EXTENDS WriteRate, TLC

CONSTANTS chat, chunk

MCPacket == {chat, chunk}
MCBits == chat :> 4 @@ chunk :> 15
=============================================================================
