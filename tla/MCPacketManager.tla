--------------------------- MODULE MCPacketManager ---------------------------
(* Instances of PacketManager for TLC.  Two packets that fit, one of which   *)
(* may be queued several times, and one that exceeds the maximum size.       *)
EXTENDS PacketManager, TLC

CONSTANTS chat, file, list

MCPacket == {chat, file, list}
MCOversized == {list}
=============================================================================
