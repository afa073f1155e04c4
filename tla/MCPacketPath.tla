---------------------------- MODULE MCPacketPath ----------------------------
(* A malformed frame, a TLS packet that a drop rule matches, a QUIC packet  *)
(* that none does, and an ARP frame, which has no addresses and no switch,  *)
(* in a ring that holds two to four of them.                                *)
EXTENDS PacketPath

CONSTANT task

Frame(name, addressed, action, bytes) ==
    [name |-> name, addressed |-> addressed, action |-> action, bytes |-> bytes]

MCPacket == {Frame("malformed", FALSE, "unmatched", 1), Frame("tls", TRUE, "drop", 2),
             Frame("quic", TRUE, "unmatched", 3), Frame("other", FALSE, "unmatched", 1)}

MCClient == {task}
=============================================================================
