----------------------------- MODULE PacketPath -----------------------------
(* The way of one packet through the capture thread of src/src/main.rs:     *)
(* the forensic ring, the dissector switch, the counter ge_packets_total,   *)
(* the flow table, the IPS engine, the event ring, the triggered capture    *)
(* and the packet view, each behind a lock of its own; and the handlers     *)
(* that run between any two of these steps: toggle_dissector, set_ips_mode  *)
(* and snapshot of src/src/utils/dashboard.rs.                              *)
(*                                                                          *)
(* The components the thread calls have modules of their own.  Here each is *)
(* what it leaves for the next: which packets it has been given.            *)
EXTENDS Integers, Sequences, FiniteSets, Functions

CONSTANTS
    Packet,      \* the frames that may arrive
    Client,      \* HTTP tasks serving GET /api/state
    RingBytes,   \* max_bytes of the forensic ring
    MaxRows,     \* MAX_RECENT_PACKETS
    MaxEvents,   \* MAX_IPS_EVENTS
    MaxPackets   \* bound of the model: packets in a behaviour

Dissectors == {"tcp", "udp", "icmp", "dns", "http", "tls", "ntp", "dhcp",
               "modbus", "dnp3", "bacnet", "ethernet_ip"}

Verdict == {"pass", "alert", "drop"}

\* What becomes of a frame: the name dissect_packet gives it ("malformed" is
\* None), whether it has addresses, the action of the rule it matches, and the
\* bytes it takes in the forensic ring.
PacketType == [name : STRING, addressed : BOOLEAN,
               action : Verdict \cup {"unmatched"}, bytes : Nat]

IsMatched(p) == p.action # "unmatched"

ASSUME PathAssumption ==
    /\ Packet \subseteq PacketType
    /\ \A p \in Packet : IsMatched(p) => p.addressed
    /\ \A p \in Packet : p.addressed => p.name # "malformed"
    /\ RingBytes \in Nat
    /\ {MaxRows, MaxEvents, MaxPackets} \subseteq Nat \ {0}

VARIABLES
    enabled,        \* config.dissectors
    mode,           \* the engine's mode
    at,             \* where the capture thread is
    verdict,        \* the thread's verdict and rule for its packet
    arrivals,       \* history: every packet received; an arrival is an index
    evidence,       \* the vector of the forensic ring: arrivals, in order
    dropped,        \* how many of the oldest it no longer counts
    packets_total,  \* arrivals counted by ge_packets_total
    inspected,      \* arrivals counted by the engine
    events,         \* the event ring
    rows,           \* the packet view
    files,          \* the captures that alerts have triggered, each with
                    \* what the ring had dropped by then
    report,         \* per client: what its snapshot has read
    overdue         \* history: rows shown since their switch was turned off

vars == <<enabled, mode, at, verdict, arrivals, evidence, dropped, packets_total,
          inspected, events, rows, files, report, overdue>>

\* Every packet name has its switch; a name that has none always passes.
SwitchOf(name) ==
    CASE name \in {"tcp", "tcp_truncated"} -> "tcp"
      [] name \in {"udp", "quic"} -> "udp"
      [] name = "enip" -> "ethernet_ip"
      [] name \in Dissectors \ {"tcp", "udp", "ethernet_ip"} -> name
      [] OTHER -> "none"

\* The switches that decide about a packet of this model.
Switch == {SwitchOf(p.name) : p \in Packet} \ {"none"}

Current == Len(arrivals)

CurrentPacket == arrivals[Current]

CurrentSwitch == SwitchOf(CurrentPacket.name)

NoReport == [reads |-> << >>, due |-> 0, inspected |-> 0]

Init ==
    /\ enabled \in [Switch -> BOOLEAN]
    /\ mode \in {"tap", "inline"}
    /\ at = "receive"
    /\ verdict = "pass"
    /\ arrivals = << >>
    /\ evidence = << >>
    /\ dropped = 0
    /\ packets_total = {}
    /\ inspected = {}
    /\ events = << >>
    /\ rows = << >>
    /\ files = {}
    /\ report = [c \in Client |-> NoReport]
    /\ overdue = [s \in Switch |-> 0]

-----------------------------------------------------------------------------
(* The capture thread *)

Goto(from, to) == at = from /\ at' = to

\* Mutant of Recorded: a frame that cannot be dissected is not kept.
RecordedIfParsed(p) ==
    IF p.name = "malformed" THEN evidence ELSE Append(evidence, Current + 1)

\* The forensic ring is given every frame, before anything is known of it.
Recorded(p) == Append(evidence, Current + 1)

\* The bytes of the arrivals after the first k.
BytesAfter(k) ==
    SumFunctionOnSet([n \in 1 .. Current |-> arrivals[n].bytes], k + 1 .. Current)

\* Whether push, counting all but the first k, evicts one more to make room.
MustEvict(k, p) == BytesAfter(k) + p.bytes > RingBytes /\ k < Current

\* How many arrivals the ring may have dropped when push stores p.
DroppedFor(p) ==
    {k \in dropped .. Current :
        ~MustEvict(k, p) /\ \A j \in dropped .. k - 1 : MustEvict(j, p)}

\* next_packet and pcap_push_packet_bytes.  What is evicted is not counted any
\* more, but stays in the vector (PcapRing).
Receive(p) ==
    /\ Current < MaxPackets
    /\ Goto("receive", "dissect")
    /\ arrivals' = Append(arrivals, p)
    /\ evidence' = Recorded(p)
    /\ dropped' \in DroppedFor(p)
    /\ UNCHANGED <<enabled, mode, verdict, packets_total, inspected, events, rows,
                   files, report, overdue>>

\* dissect_packet returned None: the packet is counted as malformed.
Malformed ==
    /\ Goto("dissect", "receive")
    /\ CurrentPacket.name = "malformed"
    /\ packets_total' = packets_total \cup {Current}
    /\ UNCHANGED <<enabled, mode, verdict, arrivals, evidence, dropped, inspected, events, rows,
                   files, report, overdue>>

\* Mutant of IsEnabled: a name without a field of its own always passes.
IsEnabledByName(name) == name \notin Switch \/ enabled[name]

IsEnabled(name) == SwitchOf(name) = "none" \/ enabled[SwitchOf(name)]

\* The switch is read under the configuration's lock, which is released before
\* the packet goes on; a packet that is switched off is dropped uncounted.
ReadSwitch ==
    /\ at = "dissect"
    /\ CurrentPacket.name # "malformed"
    /\ at' = IF IsEnabled(CurrentPacket.name) THEN "count" ELSE "receive"
    /\ UNCHANGED <<enabled, mode, verdict, arrivals, evidence, dropped, packets_total, inspected,
                   events, rows, files, report, overdue>>

\* Mutant of InitialVerdict: the verdict of the packet before is kept.
InitialVerdictKept == verdict

\* The verdict of packets without addresses, which the engine never sees.
InitialVerdict == "pass"

Count ==
    /\ at = "count"
    /\ at' = IF CurrentPacket.addressed THEN "evaluate" ELSE "show"
    /\ packets_total' = packets_total \cup {Current}
    /\ verdict' = InitialVerdict
    /\ UNCHANGED <<enabled, mode, arrivals, evidence, dropped, inspected, events, rows, files,
                   report, overdue>>

\* In tap mode a drop is reported as an alert; an unmatched packet passes.
Effective(p) ==
    IF ~IsMatched(p) THEN "pass"
    ELSE IF p.action = "drop" /\ mode = "tap" THEN "alert" ELSE p.action

\* update of the flow table, then evaluate; if a rule matches, the engine stays
\* locked until the capture is written.
Evaluate ==
    /\ at = "evaluate"
    /\ at' = IF IsMatched(CurrentPacket) THEN "event" ELSE "show"
    /\ inspected' = inspected \cup {Current}
    /\ verdict' = Effective(CurrentPacket)
    /\ UNCHANGED <<enabled, mode, arrivals, evidence, dropped, packets_total, events, rows,
                   files, report, overdue>>

\* Mutant of Ring: the oldest entry goes when there is one too many.
RingLate(queue, size, entry) ==
    IF Len(queue) > size THEN Append(Tail(queue), entry) ELSE Append(queue, entry)

\* IpsEventRing::push and PacketRing::push.
Ring(queue, size, entry) ==
    IF Len(queue) >= size THEN Append(Tail(queue), entry) ELSE Append(queue, entry)

PushEvent ==
    /\ Goto("event", "capture")
    /\ events' = Ring(events, MaxEvents, [packet |-> Current, verdict |-> verdict])
    /\ UNCHANGED <<enabled, mode, verdict, arrivals, evidence, dropped, packets_total, inspected,
                   rows, files, report, overdue>>

\* flush_to_pcap writes as many packets as are counted.  It starts where the
\* vector does, also when the oldest counted packet is further on.
Flushed == SubSeq(evidence, 1, Len(evidence) - dropped)

\* create_pcap_capture succeeds.
Capture ==
    /\ Goto("capture", "show")
    /\ files' = files \cup
          {[trigger |-> Current, evicted |-> dropped, packets |-> Flushed]}
    /\ UNCHANGED <<enabled, mode, verdict, arrivals, evidence, dropped, packets_total, inspected,
                   events, rows, report, overdue>>

\* pcap.trigger is neither "alert" nor "always", or the capture fails.
NoCapture ==
    /\ Goto("capture", "show")
    /\ UNCHANGED <<enabled, mode, verdict, arrivals, evidence, dropped, packets_total, inspected,
                   events, rows, files, report, overdue>>

Row == [packet |-> Current, verdict |-> verdict]

\* build_packet_record and PacketRing::push.
Show ==
    /\ Goto("show", "receive")
    /\ rows' = Ring(rows, MaxRows, Row)
    /\ overdue' = [s \in Switch |->
                     IF s = CurrentSwitch /\ ~enabled[s] THEN overdue[s] + 1
                                                         ELSE overdue[s]]
    /\ UNCHANGED <<enabled, mode, verdict, arrivals, evidence, dropped, packets_total, inspected,
                   events, files, report>>

Thread ==
    \/ \E p \in Packet : Receive(p)
    \/ Malformed \/ ReadSwitch \/ Count \/ Evaluate
    \/ PushEvent \/ Capture \/ NoCapture \/ Show

-----------------------------------------------------------------------------
(* The HTTP handlers *)

path == <<at, verdict, arrivals, evidence, dropped, packets_total, inspected,
          events, rows, files>>

EngineIsFree == at \notin {"event", "capture"}

\* toggle_dissector, for the names it knows; any other name changes nothing.
ToggleDissector(s, state) ==
    /\ enabled' = [enabled EXCEPT ![s] = state]
    /\ overdue' = [overdue EXCEPT ![s] = IF state # enabled[s] THEN 0 ELSE @]
    /\ UNCHANGED <<mode, path, report>>

SetMode(m) ==
    /\ EngineIsFree
    /\ mode' = m
    /\ UNCHANGED <<enabled, path, report, overdue>>

\* Mutant of Reads: the engine is asked before the counters are gathered.
ReadsEngineFirst == <<"inspected", "packets_total">>

\* The order in which snapshot reads what the thread counts.
Reads == <<"packets_total", "inspected">>

NextRead(c) == Len(report[c].reads) + 1

\* The packets a snapshot owes its reader an inspection for.
Due == {n \in packets_total : arrivals[n].addressed}

\* The counters are gathered without a lock ...
ReadTotal(c) ==
    /\ NextRead(c) <= 2 /\ Reads[NextRead(c)] = "packets_total"
    /\ report' = [report EXCEPT ![c] =
                     [reads |-> Append(@.reads, "packets_total"),
                      due |-> Cardinality(Due), inspected |-> @.inspected]]
    /\ UNCHANGED <<enabled, mode, path, overdue>>

\* ... and build_ips_info takes the engine.
ReadEngine(c) ==
    /\ NextRead(c) <= 2 /\ Reads[NextRead(c)] = "inspected"
    /\ EngineIsFree
    /\ report' = [report EXCEPT ![c] =
                     [reads |-> Append(@.reads, "inspected"),
                      due |-> @.due, inspected |-> Cardinality(inspected)]]
    /\ UNCHANGED <<enabled, mode, path, overdue>>

Answer(c) ==
    /\ NextRead(c) > 2
    /\ report' = [report EXCEPT ![c] = NoReport]
    /\ UNCHANGED <<enabled, mode, path, overdue>>

Handlers ==
    \/ \E s \in Switch, state \in BOOLEAN : ToggleDissector(s, state)
    \/ \E m \in {"tap", "inline"} : SetMode(m)
    \/ \E c \in Client : ReadTotal(c) \/ ReadEngine(c) \/ Answer(c)

-----------------------------------------------------------------------------
Next == Thread \/ Handlers

Spec == Init /\ [][Next]_vars

-----------------------------------------------------------------------------
(* Properties *)

Report == [reads : Seq({"packets_total", "inspected"}), due : Nat, inspected : Nat]

Entry == [packet : 1 .. MaxPackets, verdict : Verdict]

\* Every variable keeps its type, and no arrival is counted before it came.
TypeOK ==
    /\ enabled \in [Switch -> BOOLEAN]
    /\ mode \in {"tap", "inline"}
    /\ at \in {"receive", "dissect", "count", "evaluate", "event", "capture", "show"}
    /\ verdict \in Verdict
    /\ arrivals \in Seq(Packet) /\ Current <= MaxPackets
    /\ evidence \in Seq(1 .. Current) /\ dropped \in 0 .. Current
    /\ inspected \subseteq packets_total /\ packets_total \subseteq 1 .. Current
    /\ events \in Seq(Entry) /\ Len(events) <= MaxEvents
    /\ rows \in Seq(Entry) /\ Len(rows) <= MaxRows
    /\ files \subseteq [trigger : inspected, evicted : Nat, packets : Seq(1 .. Current)]
    /\ report \in [Client -> Report]
    /\ overdue \in [Switch -> Nat]

\* toggle_dissector at run time: once a dissector is switched off, at most one
\* more of its packets is shown, the one whose switch the thread had read.
ToggleIsSharp == \A s \in Switch : overdue[s] <= 1

\* Whatever the thread does between the reads of a snapshot, the answer lags
\* by one packet at most: every packet in its total that the engine must see,
\* except the one on its way there, is in the number inspected beside it.
SnapshotAccountsForPackets ==
    \A c \in Client : NextRead(c) > 2 => report[c].due <= report[c].inspected + 1

\* An event's packet is in the view with the event's verdict, unless newer
\* packets have pushed it out or it is on its way there.
EventsAreShown ==
    \A e \in Range(events) :
        \/ e \in Range(rows)
        \/ e.packet = Current /\ at \in {"capture", "show"}
        \/ Len(rows) = MaxRows /\ \A r \in Range(rows) : e.packet < r.packet

\* A packet that is not shown as passed has an event with the verdict shown,
\* unless newer events have pushed it out.
RowsAreExplained ==
    \A r \in Range(rows) :
        \/ r.verdict = "pass"
        \/ r \in Range(events)
        \/ Len(events) = MaxEvents /\ \A e \in Range(events) : r.packet < e.packet

\* The event list and the packet view tell one story, though they are filled
\* under different locks while the mode changes between the two.
ViewsAgree == EventsAreShown /\ RowsAreExplained

\* What the capture that an alert triggers is worth.  As long as the ring has
\* evicted nothing, it holds the packet that raised the alert, as its newest,
\* and before it every packet received: malformed ones, and those of dissectors
\* that are switched off, which no other view ever shows.  Once the ring has
\* evicted a packet it holds as many as the ring counts, but the oldest ones
\* there ever were: neither its trigger nor what came just before it.
AlertsEvidencedUntilEviction ==
    \A f \in files :
        /\ f.packets = [n \in 1 .. f.trigger - f.evicted |-> n]
        /\ f.trigger \in Range(f.packets) <=> f.evicted = 0

=============================================================================
