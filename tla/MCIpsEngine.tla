---------------------------- MODULE MCIpsEngine ----------------------------
(* A SYN to port 0, a web request, a TCP segment without flags, and a       *)
(* Modbus write, against the five default rules and two added ones: one     *)
(* that drops web traffic and a disabled one under an id that is used.      *)
EXTENDS IpsEngine

CONSTANTS task1, task2

Wire(port, flags, modbus) ==
    [src_ip |-> 1, dst_ip |-> 2, src_port |-> 1024, dst_port |-> port, protocol |-> 6,
     tcp_flags |-> flags, modbus |-> modbus, dnp3 |-> {}]

MCPacket == {Wire(0, {"SYN"}, {}), Wire(80, {"PSH", "ACK"}, {}), Wire(80, {}, {}),
             Wire(502, {"PSH", "ACK"}, {6})}

MCNewRule ==
    {MkRule("WEB", "Drop", [AnyPacket EXCEPT !.dst_port = {80}]),
     [MkRule("GE-NET-003", "Pass", AnyPacket) EXCEPT !.enabled = FALSE]}

MCDeletable == {"WEB", "GE-NET-003"}

MCTask == {task1, task2}
============================================================================
