--------------------------- MODULE PacketChannel ---------------------------
(***************************************************************************)
(* What a packet manager promises its owner about sending: the packets it  *)
(* accepts reach the socket in the order they were accepted, each of them  *)
(* once and none skipped, until the channel breaks; then none does.  While *)
(* a packet is handed over its owner may have further ones accepted.       *)
(***************************************************************************)
EXTENDS Naturals, Sequences

CONSTANT Packet

VARIABLES
    accepted,   \* every packet the channel took, in order
    delivered,  \* those that were written to the socket
    broken      \* a write has failed

vars == <<accepted, delivered, broken>>

Init ==
    /\ accepted = <<>>
    /\ delivered = <<>>
    /\ broken = FALSE

Accept(p) ==
    /\ accepted' = Append(accepted, p)
    /\ UNCHANGED <<delivered, broken>>

\* The owner's reaction to a delivery is to have zero or one packet accepted.
Deliver ==
    /\ ~broken
    /\ Len(delivered) < Len(accepted)
    /\ delivered' = Append(delivered, accepted[Len(delivered) + 1])
    /\ \/ UNCHANGED accepted
       \/ \E p \in Packet : accepted' = Append(accepted, p)
    /\ UNCHANGED broken

Break ==
    /\ broken' = TRUE
    /\ UNCHANGED <<accepted, delivered>>

Next ==
    \/ \E p \in Packet : Accept(p)
    \/ Deliver
    \/ Break

Spec == Init /\ [][Next]_vars
=============================================================================
