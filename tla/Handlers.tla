------------------------------ MODULE Handlers ------------------------------
(* The locks of the sensor and, for each handler, the order in which it     *)
(* takes and drops them: the capture thread and the eviction task of        *)
(* src/src/main.rs, and the methods of AppState in                          *)
(* src/src/utils/dashboard.rs that the HTTP tasks call.  A guard that is a  *)
(* temporary lives to the end of its statement, one bound by `let` to the   *)
(* end of its block.                                                        *)
EXTENDS Sequences

\* capture_interface, config and pcap_output_dir are RwLocks, the rest mutexes.
SharedState == {"flow_tracker", "ips_engine", "ips_event_ring", "packet_ring",
                "pcap_ring", "pcap_captures",
                "capture_interface", "config", "pcap_output_dir"}

\* Locks that are held while others are taken come first.
LockOrder == [l \in SharedState |->
    CASE l = "ips_engine" -> 1
      [] l = "config" -> 2
      [] l = "pcap_captures" -> 3
      [] OTHER -> 4]

Guard(op, lock, body) ==
    <<[op |-> op, lock |-> lock]>> \o body \o <<[op |-> "drop", lock |-> lock]>>

Locking(lock, body) == Guard("take", lock, body)
Writing(lock) == Guard("take", lock, << >>)
Reading(lock, body) == Guard("share", lock, body)
Briefly(lock) == Locking(lock, << >>)

-----------------------------------------------------------------------------
(* AppState: inspection *)

\* Mutant of BuildIpsInfo: the configuration is read first.
BuildIpsInfoConfigFirst == Reading("config", Briefly("ips_engine"))

BuildIpsInfo == Locking("ips_engine", Reading("config", << >>))

IpsRules == Briefly("ips_engine")

SetIpsMode == Briefly("ips_engine") \o Writing("config") \o BuildIpsInfo

AddIpsRule == {Briefly("ips_engine"), Briefly("ips_engine") \o IpsRules}

DeleteIpsRule == Briefly("ips_engine")

RecentIpsEvents == Briefly("ips_event_ring")

(* AppState: captures *)

PushPacketBytes == Briefly("pcap_ring")

\* Mutant of CreatePcapCapture: the ring's guard lives until the capture is in
\* the index.
CreatePcapCaptureNested ==
    {Reading("pcap_output_dir", << >>) \o Locking("pcap_ring", Briefly("pcap_captures"))}

\* When the flush fails the index is left alone.
CreatePcapCapture ==
    LET flush == Reading("pcap_output_dir", << >>) \o Briefly("pcap_ring")
    IN  {flush, flush \o Briefly("pcap_captures")}

PcapStorage ==
    Reading("config", Locking("pcap_captures", Briefly("pcap_ring")))

\* pcap_download, pcap_bulk_download and pcap_reconstruct.
FindCaptures == Briefly("pcap_captures")

(* AppState: the rest *)

ListInterfaces == Reading("capture_interface", << >>)

SetInterface == Writing("capture_interface")

RecentPackets == Briefly("packet_ring")

FlowDetails == Briefly("flow_tracker")

ToggleDissector == Writing("config")

\* Mutant of Snapshot: the configuration is read once, for all of it.
SnapshotUnderConfig ==
    Reading("capture_interface", << >>) \o Briefly("flow_tracker")
        \o Reading("config", BuildIpsInfo)

Snapshot ==
    Reading("capture_interface", << >>) \o Briefly("flow_tracker")
        \o BuildIpsInfo \o Reading("config", << >>)

Health == Reading("capture_interface", << >>)

SteeringRequests == {SetInterface, ToggleDissector}

ViewRequests == {RecentPackets, ListInterfaces, FlowDetails}

CaptureRequests == {PcapStorage, FindCaptures} \cup CreatePcapCapture

IpsRequests ==
    {IpsRules, RecentIpsEvents, DeleteIpsRule, BuildIpsInfo, SetIpsMode} \cup AddIpsRule

\* The other requests, and the toggle of capture among them, take no lock.
Requests ==
    SteeringRequests \cup ViewRequests \cup CaptureRequests \cup IpsRequests
        \cup {Snapshot, Health}

-----------------------------------------------------------------------------
(* Background threads *)

EvictionTask == {Briefly("flow_tracker")}

StartCapture == Reading("capture_interface", << >>)

\* Before the packet is known to be wanted.
Screen == PushPacketBytes \o Reading("config", << >>)

Track == Briefly("flow_tracker")

\* The engine's guard lives to the end of the block, and so until the alert is
\* written down and its capture saved.
Alerts ==
    {Briefly("ips_event_ring") \o Reading("config", << >>) \o capture :
        capture \in CreatePcapCapture \cup {<< >>}}

Inspections == {Locking("ips_engine", alert) : alert \in Alerts \cup {<< >>}}

LogStats == Briefly("flow_tracker")

Shown == {Briefly("packet_ring"), Briefly("packet_ring") \o LogStats}

\* A packet is malformed, not wanted, without addresses, or inspected.
Packets ==
    {PushPacketBytes, Screen}
        \cup {Screen \o show : show \in Shown}
        \cup {Screen \o Track \o inspect \o show : inspect \in Inspections, show \in Shown}

CaptureThread == {StartCapture} \cup Packets

=============================================================================
