----------------------------- MODULE MCPcapRing -----------------------------
(* Three packets of different sizes: 20, 36 and 76 bytes with their header. *)
EXTENDS PcapRing

CONSTANTS small, medium, large

MCPacket == {small, medium, large}

MCDataLen == [p \in MCPacket |-> CASE p = small  -> 4
                                   [] p = medium -> 20
                                   [] p = large  -> 60]

\* A ring_buffer_mb of 0, a ring smaller than the large packet, and one that
\* holds it with another beside it.
MCBufferSizes == {0, 60, 100}
=============================================================================
