---------------------------- MODULE FlowTracker ----------------------------
(* The flow table of src/src/flow/tracker.rs with its users: the capture    *)
(* thread, the eviction task of src/src/main.rs, and the dashboard snapshot *)
(* of src/src/utils/dashboard.rs, which share the table's mutex and the     *)
(* gauge ge_active_flows.                                                   *)
(*                                                                          *)
(* A record keeps all that the program keeps but the DNS queries, which the *)
(* capture thread never has.                                                *)
EXTENDS Integers, Sequences, FiniteSets, FiniteSetsExt, FlowFeatures

CONSTANTS
    Packet,       \* the packets that may arrive
    Client,       \* HTTP tasks serving GET /api/state
    MaxFlows,     \* FlowTrackerConfig::max_flows
    IdleTimeout,  \* FlowTrackerConfig::idle_timeout
    MaxSamples,   \* FlowTrackerConfig::max_samples
    NoCount,      \* a client that holds no count
    Second,       \* ticks of the clock in a second
    MaxPackets,   \* bound of the model: packets in a behaviour
    MaxTime       \* bound of the model: the clock's last value

\* Hosts and ports are numbers: the key depends on their order.
FiveTuple == [src : Nat, dst : Nat, sport : Nat, dport : Nat, proto : Nat]

\* validate() bounds snap_len by this, and so the payload of a frame.
MaxSnapLen == 65535

Size == 0 .. MaxSnapLen

TcpFlags == {"FIN", "SYN", "RST", "PSH", "ACK", "URG", "ECE", "CWR"}

Segment == [tuple : FiveTuple, payload : Size, flags : SUBSET TcpFlags]

ASSUME FlowAssumption ==
    /\ Packet \subseteq Segment
    /\ Second \in Nat \ {0}
    /\ MaxFlows \in Nat \ {0}
    /\ {IdleTimeout, MaxSamples, MaxPackets, MaxTime} \subseteq Nat
    /\ NoCount \notin Nat

VARIABLES
    clock,         \* Instant::now()
    flows,         \* HashMap<FlowKey, FlowRecord>
    active_flows,  \* the gauge
    counted,       \* per client: the count it read and has not yet reported
    seen,          \* history: packets and payload bytes that came to update
    closed         \* history: packets and bytes of the flows that were closed

vars == <<clock, flows, active_flows, counted, seen, closed>>

Init ==
    /\ clock = 0
    /\ flows = << >>
    /\ active_flows = 0
    /\ counted = [c \in Client |-> NoCount]
    /\ seen = [packets |-> 0, bytes |-> 0]
    /\ closed = [packets |-> 0, bytes |-> 0]

-----------------------------------------------------------------------------
(* FlowKey *)

\* The condition as written; its second disjunct follows from the first.
IsForward(t) == t.src <= t.dst \/ (t.src = t.dst /\ t.sport <= t.dport)

Reverse(t) == [src |-> t.dst, dst |-> t.src, sport |-> t.dport,
               dport |-> t.sport, proto |-> t.proto]

\* Mutant of Normalized: the key is the packet's own direction.
NormalizedNot(t) == t

Normalized(t) == IF IsForward(t) THEN t ELSE Reverse(t)

-----------------------------------------------------------------------------
(* update *)

Keys == DOMAIN flows

Packets(record) == record.fwd + record.rev

Bytes(record) == record.fwd_bytes + record.rev_bytes

Traffic(keys) ==
    [packets |-> SumFunction([k \in keys |-> Packets(flows[k])]),
     bytes |-> SumFunction([k \in keys |-> Bytes(flows[k])])]

Plus(a, b) == [packets |-> a.packets + b.packets, bytes |-> a.bytes + b.bytes]

NewRecord(now) == [first_seen |-> now, last_seen |-> now, fwd |-> 0, rev |-> 0,
                   fwd_bytes |-> 0, rev_bytes |-> 0, iats |-> << >>,
                   sizes |-> << >>, flags |-> {}]

\* packet_len: the length of the payload, cast to u16.
PacketLen(p) == p.payload % 65536

Sampled(samples, sample) ==
    IF Len(samples) < MaxSamples THEN Append(samples, sample) ELSE samples

\* Mutant of InterArrivals: the first packet of a flow samples a gap too.
InterArrivalsFromFirst(record, now) == Sampled(record.iats, now - record.last_seen)

InterArrivals(record, now) ==
    IF Packets(record) > 0 THEN Sampled(record.iats, now - record.last_seen)
                           ELSE record.iats

Sizes(record, p) == Sampled(record.sizes, PacketLen(p))

\* Mutant of Counters: packets of the reverse direction are not counted.
CountersForward(record, p) ==
    IF IsForward(p.tuple)
    THEN [record EXCEPT !.fwd = @ + 1, !.fwd_bytes = @ + PacketLen(p)]
    ELSE record

Counters(record, p) ==
    IF IsForward(p.tuple)
    THEN [record EXCEPT !.fwd = @ + 1, !.fwd_bytes = @ + PacketLen(p)]
    ELSE [record EXCEPT !.rev = @ + 1, !.rev_bytes = @ + PacketLen(p)]

Touched(record, p, now) ==
    [Counters(record, p) EXCEPT
        !.iats = InterArrivals(record, now),
        !.last_seen = now,
        !.sizes = Sizes(record, p),
        !.flags = @ \cup p.flags]

\* find_oldest_flow: any of the least recently updated, as the map iterates in
\* no particular order.
Oldest == {k \in Keys : \A j \in Keys : flows[k].last_seen <= flows[j].last_seen}

\* Mutant of NeedsRoom: the limit is tested after it is exceeded.
NeedsRoomLate(key) == key \notin Keys /\ Cardinality(Keys) > MaxFlows

NeedsRoom(key) == key \notin Keys /\ Cardinality(Keys) >= MaxFlows

\* Mutant of Evictable: any flow may go.
EvictableAny(key) == IF NeedsRoom(key) THEN {{k} : k \in Keys} ELSE {{}}

\* What update may evict for a packet of this key.
Evictable(key) == IF NeedsRoom(key) THEN {{k} : k \in Oldest} ELSE {{}}

\* update in the capture thread, with the gauge set before the mutex is
\* released.  update reads the clock once at its start; a new record reads it
\* again, when it may have moved on to `later`.
Update(p) ==
    LET key == Normalized(p.tuple) IN
    /\ seen.packets < MaxPackets
    /\ \E later \in clock .. (IF key \in Keys THEN clock ELSE Min({clock + 1, MaxTime})),
          gone \in Evictable(key) :
          /\ flows' = [k \in (Keys \ gone) \cup {key} |->
                         IF k # key THEN flows[k]
                         ELSE Touched(IF key \in Keys THEN flows[key] ELSE NewRecord(later),
                                      p, clock)]
          /\ clock' = later
          /\ closed' = Plus(closed, Traffic(gone))
    /\ seen' = Plus(seen, [packets |-> 1, bytes |-> p.payload])
    /\ active_flows' = Cardinality(DOMAIN flows')
    /\ UNCHANGED counted

-----------------------------------------------------------------------------
(* The eviction task and the snapshot *)

IsIdle(record) == clock - record.last_seen > IdleTimeout

Idle == {k \in Keys : IsIdle(flows[k])}

\* Mutant of EvictIdle: the task works only when the table is full.
EvictIdleWhenFull ==
    LET gone == IF Cardinality(Keys) >= MaxFlows THEN Idle ELSE {} IN
    /\ flows' = [k \in Keys \ gone |-> flows[k]]
    /\ closed' = Plus(closed, Traffic(gone))
    /\ active_flows' = Cardinality(DOMAIN flows')
    /\ UNCHANGED <<clock, counted, seen>>

\* Mutant of EvictIdle: the gauge is not set.
EvictIdleWithoutGauge ==
    /\ flows' = [k \in Keys \ Idle |-> flows[k]]
    /\ closed' = Plus(closed, Traffic(Idle))
    /\ UNCHANGED <<clock, counted, seen, active_flows>>

\* Every 30 s: evict_idle, active_count and the gauge, under one lock.
EvictIdle ==
    /\ flows' = [k \in Keys \ Idle |-> flows[k]]
    /\ closed' = Plus(closed, Traffic(Idle))
    /\ active_flows' = Cardinality(DOMAIN flows')
    /\ UNCHANGED <<clock, counted, seen>>

\* snapshot reads active_count under the mutex ...
ReadCount(c) ==
    /\ counted[c] = NoCount
    /\ counted' = [counted EXCEPT ![c] = Cardinality(Keys)]
    /\ UNCHANGED <<clock, flows, active_flows, seen, closed>>

\* ... and sets the gauge after releasing it.
SetGauge(c) ==
    /\ counted[c] # NoCount
    /\ active_flows' = counted[c]
    /\ counted' = [counted EXCEPT ![c] = NoCount]
    /\ UNCHANGED <<clock, flows, seen, closed>>

Tick ==
    /\ clock < MaxTime
    /\ clock' = clock + 1
    /\ UNCHANGED <<flows, active_flows, counted, seen, closed>>

-----------------------------------------------------------------------------
Next ==
    \/ \E p \in Packet : Update(p)
    \/ EvictIdle
    \/ \E c \in Client : ReadCount(c) \/ SetGauge(c)
    \/ Tick

\* The eviction task's interval goes on ticking and an HTTP task finishes what
\* it began; packets, requests and the clock need not go on.
Fairness == WF_vars(EvictIdle) /\ \A c \in Client : WF_vars(SetGauge(c))

Spec == Init /\ [][Next]_vars /\ Fairness

-----------------------------------------------------------------------------
(* Properties *)

FlowRecord == [first_seen : Nat, last_seen : Nat, fwd : Nat, rev : Nat,
               fwd_bytes : Nat, rev_bytes : Nat, iats : Seq(Nat),
               sizes : Seq(Size), flags : SUBSET TcpFlags]

TableTypeOK ==
    /\ clock \in Nat
    /\ Keys \subseteq FiveTuple /\ Cardinality(Keys) <= MaxFlows
    /\ \A k \in Keys : flows[k] \in FlowRecord
    /\ active_flows \in Nat
    /\ counted \in [Client -> Nat \cup {NoCount}]
    /\ seen \in [packets : Nat, bytes : Nat]

\* Every variable keeps its type, no inter-arrival time is negative, and the
\* table is within max_flows also after an eviction and an insertion in one.
TypeOK == TableTypeOK /\ closed \in [packets : Nat, bytes : Nat]

\* No packet and no byte is lost or counted twice: what the capture thread saw
\* is in the live flows or in the flows that update and evict_idle closed; the
\* cast of the length to u16 takes nothing away.
TrafficConserved == seen = Plus(closed, Traffic(Keys))

\* The sample lists hold a size for each packet and a gap for each but the
\* first, up to max_samples.
SamplesComplete(record) ==
    /\ Len(record.sizes) = Min({Packets(record), MaxSamples})
    /\ Len(record.iats) = Min({Packets(record) - 1, MaxSamples})

\* While a list is not cut off, its sizes add up to the bytes of the flow, and
\* its gaps to the time between the first packet and the last; first_seen may
\* be one reading of the clock later than the first packet.
SamplesAddUp(record) ==
    /\ Len(record.sizes) = Packets(record) => Total(record.sizes) = Bytes(record)
    /\ Len(record.iats) = Packets(record) - 1 =>
          Total(record.iats) - (record.last_seen - record.first_seen) \in {0, 1}

\* A record's parts, which update keeps one by one, tell of the same packets:
\* its counters, its sample lists and its times.
RecordsConsistent ==
    \A k \in Keys : SamplesComplete(flows[k]) /\ SamplesAddUp(flows[k])

\* Between two different hosts both directions share one record, under the
\* lower host first.
HostPairsShareAFlow ==
    \A k \in Keys : k.src # k.dst => Reverse(k) \notin Keys

\* A flow is closed only when it was idle longer than idle_timeout, or when
\* the table was full and no flow was updated longer ago.
ClosesOnlyIdleOrOldest ==
    [][\A k \in Keys \ DOMAIN flows' :
          \/ IsIdle(flows[k])
          \/ k \in Oldest /\ Cardinality(Keys) = MaxFlows]_vars

\* An idle flow is closed or has traffic again: the eviction task misses none.
IdleFlowsLeave ==
    \A p \in Packet :
        LET k == Normalized(p.tuple) IN
        (k \in Idle) ~> (k \notin Idle)

\* However stale the count a snapshot reports, the gauge comes back to the
\* size of the table.
GaugeRecovers == []<>(active_flows = Cardinality(Keys))

\* The score of a flow stays between 0 and 1, and a flow is reported as
\* anomalous only after at least two gaps, not all of them 0: however odd its
\* flags and its bytes, and at whatever rate, a single exchange is not.
AnomalyNeedsRhythm ==
    \A k \in Keys :
        /\ MlScore(flows[k], Second) \in 0 .. MaxScore
        /\ IsAnomalous(flows[k], Second) =>
              Packets(flows[k]) > 2 /\ flows[k].last_seen > flows[k].first_seen

=============================================================================
