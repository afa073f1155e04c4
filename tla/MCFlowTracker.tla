--------------------------- MODULE MCFlowTracker ---------------------------
(* Both directions of a session between two hosts, of which one side sends  *)
(* every flag, a second session without flags, and both directions of a     *)
(* session of a host with itself.                                           *)
EXTENDS FlowTracker

CONSTANT client

Tuple(src, dst, sport, dport) ==
    [src |-> src, dst |-> dst, sport |-> sport, dport |-> dport, proto |-> 6]

Scan == {"SYN", "FIN", "PSH", "URG"}

Send(tuple, payload, flags) == [tuple |-> tuple, payload |-> payload, flags |-> flags]

MCPacket == {Send(Tuple(1, 2, 1, 1), MaxSnapLen, Scan),
             Send(Tuple(2, 1, 1, 1), 100, {"ACK"}),
             Send(Tuple(1, 2, 2, 1), 0, {}),
             Send(Tuple(1, 1, 1, 2), 100, {"SYN"})}

MCClient == {client}
============================================================================
