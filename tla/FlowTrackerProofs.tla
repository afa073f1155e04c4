------------------------- MODULE FlowTrackerProofs --------------------------
(* Proofs about FlowTracker, for any packets, any number of HTTP tasks and  *)
(* any limits.                                                              *)
EXTENDS FlowTracker, Sums

KeysForward == \A k \in Keys : IsForward(k)

\* No flow was last seen in the future, though a new record takes a reading
\* of the clock that is later than the one its packet is stamped with.
SeenBefore == \A k \in Keys : flows[k].last_seen <= clock

\* SamplesComplete, as it also holds of a record without packets.
SamplesSoFar(record) ==
    /\ Len(record.sizes) = Min({Packets(record), MaxSamples})
    /\ Len(record.iats) =
          IF Packets(record) = 0 THEN 0 ELSE Min({Packets(record) - 1, MaxSamples})

NoneIsEmpty == \A k \in Keys : Packets(flows[k]) > 0

SamplesKept == \A k \in Keys : SamplesSoFar(flows[k])

IInv ==
    /\ TableTypeOK /\ IsFiniteSet(Keys)
    /\ KeysForward /\ SeenBefore /\ NoneIsEmpty /\ SamplesKept

-----------------------------------------------------------------------------
(* Records *)

LEMMA MinOfTwo ==
    ASSUME NEW a \in Int, NEW b \in Int
    PROVE  Min({a, b}) = IF a <= b THEN a ELSE b
  BY DEF Min

LEMMA SizesFit == \A size \in Size : size \in Nat /\ size < 65536
<1>1. MaxSnapLen \in Nat /\ MaxSnapLen < 65536
      BY DEF MaxSnapLen
<1> QED  BY <1>1 DEF Size

\* The cast to u16 changes nothing that a frame can hold.
LEMMA CastIsExact ==
    ASSUME NEW p \in Packet
    PROVE  /\ PacketLen(p) = p.payload
           /\ PacketLen(p) \in Size /\ PacketLen(p) \in Nat
<1>1. p.payload \in Size
      BY FlowAssumption DEF Segment
<1>2. p.payload \in Nat /\ p.payload < 65536
      BY <1>1, SizesFit
<1>3. \A n \in Nat : n < 65536 => n % 65536 = n
      OBVIOUS
<1> QED  BY <1>1, <1>2, <1>3 DEF PacketLen

LEMMA SampledType ==
    ASSUME NEW S, NEW samples \in Seq(S), NEW sample \in S
    PROVE  Sampled(samples, sample) \in Seq(S)
  BY DEF Sampled

LEMMA SampledGrows ==
    ASSUME NEW S, NEW samples \in Seq(S), NEW sample \in S, NEW n \in Nat,
           Len(samples) = Min({n, MaxSamples})
    PROVE  Len(Sampled(samples, sample)) = Min({n + 1, MaxSamples})
<1> MaxSamples \in Nat
    BY FlowAssumption
<1>1. Len(Append(samples, sample)) = Len(samples) + 1
      OBVIOUS
<1>2. Len(samples) = IF n <= MaxSamples THEN n ELSE MaxSamples
      BY MinOfTwo
<1>3. Min({n + 1, MaxSamples}) = IF n + 1 <= MaxSamples THEN n + 1 ELSE MaxSamples
      BY MinOfTwo
<1> QED  BY <1>1, <1>2, <1>3 DEF Sampled

LEMMA NewRecordType ==
    ASSUME NEW now \in Nat
    PROVE  /\ NewRecord(now) \in FlowRecord
           /\ Packets(NewRecord(now)) = 0
           /\ SamplesSoFar(NewRecord(now))
<1>1. NewRecord(now) \in FlowRecord /\ Packets(NewRecord(now)) = 0
      BY DEF NewRecord, FlowRecord, Packets
<1>2. Min({0, MaxSamples}) = 0
      BY MinOfTwo, FlowAssumption
<1>3. Len(NewRecord(now).sizes) = 0 /\ Len(NewRecord(now).iats) = 0
      BY DEF NewRecord
<1> QED  BY <1>1, <1>2, <1>3 DEF SamplesSoFar

\* What update makes of a record.
LEMMA TouchedRecord ==
    ASSUME NEW record \in FlowRecord, NEW p \in Packet, NEW now \in Nat,
           Packets(record) > 0 => record.last_seen <= now, SamplesSoFar(record)
    PROVE  LET new == Touched(record, p, now) IN
           /\ new \in FlowRecord
           /\ new.last_seen = now
           /\ Packets(new) = Packets(record) + 1
           /\ SamplesSoFar(new)
<1> DEFINE new == Touched(record, p, now)
<1>1. /\ Packets(record) \in Nat
      /\ p.flags \in SUBSET TcpFlags
      /\ PacketLen(p) \in Size
      /\ PacketLen(p) \in Nat
      <2>1. Packets(record) \in Nat
            BY DEF FlowRecord, Packets
      <2>2. p.flags \in SUBSET TcpFlags
            BY FlowAssumption DEF Segment
      <2> QED  BY <2>1, <2>2, CastIsExact
<1>2. Packets(record) > 0 => now - record.last_seen \in Nat
      BY DEF FlowRecord
<1>3. InterArrivals(record, now) \in Seq(Nat)
      BY <1>1, <1>2, SampledType DEF InterArrivals, FlowRecord
<1>4. Sizes(record, p) \in Seq(Size)
      BY <1>1, SampledType DEF Sizes, FlowRecord
<1>5. /\ Counters(record, p) \in FlowRecord
      /\ Packets(Counters(record, p)) = Packets(record) + 1
      <2>1. /\ record.fwd + 1 \in Nat /\ record.rev + 1 \in Nat
            /\ record.fwd_bytes + PacketLen(p) \in Nat
            /\ record.rev_bytes + PacketLen(p) \in Nat
            <3>1. /\ record.fwd \in Nat /\ record.rev \in Nat
                  /\ record.fwd_bytes \in Nat /\ record.rev_bytes \in Nat
                  BY DEF FlowRecord
            <3>2. PacketLen(p) \in Nat
                  BY <1>1
            <3> QED  BY <3>1, <3>2
      <2>2. Counters(record, p) \in FlowRecord
            <3> DEFINE len == PacketLen(p)
            <3>1. /\ record.fwd + 1 \in Nat /\ record.rev + 1 \in Nat
                  /\ record.fwd_bytes + len \in Nat /\ record.rev_bytes + len \in Nat
                  BY <2>1
            <3> HIDE DEF len
            <3>2. [record EXCEPT !.fwd = @ + 1, !.fwd_bytes = @ + len] \in FlowRecord
                  BY <3>1 DEF FlowRecord
            <3>3. [record EXCEPT !.rev = @ + 1, !.rev_bytes = @ + len] \in FlowRecord
                  BY <3>1 DEF FlowRecord
            <3> QED  BY <3>2, <3>3 DEF Counters, len
      <2>3. \/ /\ Counters(record, p).fwd = record.fwd + 1
               /\ Counters(record, p).rev = record.rev
            \/ /\ Counters(record, p).fwd = record.fwd
               /\ Counters(record, p).rev = record.rev + 1
            BY DEF Counters, FlowRecord
      <2>4. record.fwd \in Nat /\ record.rev \in Nat
            BY DEF FlowRecord
      <2> QED  BY <2>2, <2>3, <2>4 DEF Packets
<1>6. /\ new \in FlowRecord
      /\ new.last_seen = now
      /\ new.fwd = Counters(record, p).fwd /\ new.rev = Counters(record, p).rev
      /\ new.iats = InterArrivals(record, now)
      /\ new.sizes = Sizes(record, p)
      BY <1>1, <1>3, <1>4, <1>5 DEF Touched, FlowRecord
<1>7. Packets(new) = Packets(record) + 1
      BY <1>5, <1>6 DEF Packets
<1>8. Len(new.sizes) = Min({Packets(new), MaxSamples})
      <2>1. /\ record.sizes \in Seq(Size)
            /\ Len(record.sizes) = Min({Packets(record), MaxSamples})
            BY DEF FlowRecord, SamplesSoFar
      <2>2. Len(Sampled(record.sizes, PacketLen(p))) = Min({Packets(record) + 1, MaxSamples})
            BY ONLY <1>1, <2>1, SampledGrows
      <2> QED  BY <1>6, <1>7, <2>2 DEF Sizes
<1>9. Len(new.iats) = Min({Packets(new) - 1, MaxSamples})
      <2>1. CASE Packets(record) = 0
            <3>1. Min({0, MaxSamples}) = 0
                  BY MinOfTwo, FlowAssumption
            <3> QED  BY <2>1, <3>1, <1>6, <1>7 DEF SamplesSoFar, InterArrivals
      <2>2. CASE Packets(record) > 0
            <3>1. /\ Packets(record) - 1 \in Nat
                  /\ Len(record.iats) = Min({Packets(record) - 1, MaxSamples})
                  BY <2>2, <1>1 DEF SamplesSoFar
            <3>2. record.iats \in Seq(Nat)
                  BY DEF FlowRecord
            <3>3. Len(Sampled(record.iats, now - record.last_seen))
                     = Min({(Packets(record) - 1) + 1, MaxSamples})
                  BY <3>1, <3>2, <2>2, <1>2, SampledGrows
            <3>4. (Packets(record) - 1) + 1 = Packets(new) - 1
                  BY <1>1, <1>7
            <3> QED  BY <3>3, <3>4, <2>2, <1>6 DEF InterArrivals
      <2> QED  BY <2>1, <2>2, <1>1
<1> QED  BY <1>1, <1>6, <1>7, <1>8, <1>9 DEF SamplesSoFar

-----------------------------------------------------------------------------
(* The table *)

\* The key of a packet is the forward direction of its session.
LEMMA KeyOf ==
    ASSUME NEW p \in Packet
    PROVE  Normalized(p.tuple) \in FiveTuple /\ IsForward(Normalized(p.tuple))
<1>1. p.tuple \in FiveTuple
      BY FlowAssumption DEF Segment
<1>2. Reverse(p.tuple) \in FiveTuple
      BY <1>1 DEF Reverse, FiveTuple
<1>3. ~IsForward(p.tuple) => IsForward(Reverse(p.tuple))
      BY <1>1 DEF IsForward, Reverse, FiveTuple
<1> QED  BY <1>1, <1>2, <1>3 DEF Normalized

\* Whatever update evicts, the table is within its limit afterwards.
LEMMA RoomIsMade ==
    ASSUME TableTypeOK, IsFiniteSet(Keys), NEW key, NEW gone \in Evictable(key)
    PROVE  LET keys == (Keys \ gone) \cup {key} IN
           /\ IsFiniteSet(keys)
           /\ Cardinality(keys) \in Nat
           /\ Cardinality(keys) <= MaxFlows
<1>1. /\ Cardinality(Keys) \in Nat /\ Cardinality(Keys) <= MaxFlows
      /\ MaxFlows \in Nat
      BY FS_CardinalityType, FlowAssumption DEF TableTypeOK
<1>2. CASE ~NeedsRoom(key)
      <2>1. (Keys \ gone) \cup {key} = Keys \cup {key}
            BY <1>2 DEF Evictable
      <2>2. /\ IsFiniteSet(Keys \cup {key})
            /\ Cardinality(Keys \cup {key}) =
                  IF key \in Keys THEN Cardinality(Keys) ELSE Cardinality(Keys) + 1
            BY FS_AddElement
      <2>3. key \in Keys \/ Cardinality(Keys) < MaxFlows
            BY <1>1, <1>2 DEF NeedsRoom
      <2> QED  BY <1>1, <2>1, <2>2, <2>3
<1>3. CASE NeedsRoom(key)
      <2>1. PICK k \in Oldest : gone = {k}
            BY <1>3 DEF Evictable
      <2>2. k \in Keys /\ key \notin Keys
            BY <1>3 DEF Oldest, NeedsRoom
      <2>3. IsFiniteSet(Keys \ {k}) /\ Cardinality(Keys \ {k}) = Cardinality(Keys) - 1
            BY <2>2, FS_RemoveElement
      <2>4. /\ IsFiniteSet((Keys \ {k}) \cup {key})
            /\ Cardinality((Keys \ {k}) \cup {key}) = (Cardinality(Keys) - 1) + 1
            BY <2>2, <2>3, FS_AddElement
      <2> QED  BY <1>1, <2>1, <2>4
<1> QED  BY <1>2, <1>3

LEMMA InitEstablishes == Init => IInv
<1> SUFFICES ASSUME Init PROVE IInv
    OBVIOUS
<1>1. Keys = {}
      BY DEF Init, Keys
<1>2. IsFiniteSet(Keys) /\ Cardinality(Keys) = 0
      BY <1>1, FS_EmptySet
<1>3. TableTypeOK
      BY <1>1, <1>2, FlowAssumption DEF Init, TableTypeOK
<1> QED
    BY <1>1, <1>2, <1>3 DEF IInv, KeysForward, SeenBefore, NoneIsEmpty, SamplesKept

LEMMA UpdatePreserves ==
    ASSUME IInv, NEW p \in Packet, Update(p)
    PROVE  IInv'
<1> DEFINE key == Normalized(p.tuple)
<1>1. PICK later \in clock .. (IF key \in Keys THEN clock ELSE Min({clock + 1, MaxTime})),
           gone \in Evictable(key) :
        /\ flows' = [k \in (Keys \ gone) \cup {key} |->
                       IF k # key THEN flows[k]
                       ELSE Touched(IF key \in Keys THEN flows[key] ELSE NewRecord(later),
                                    p, clock)]
        /\ clock' = later
      BY DEF Update
<1> DEFINE old == IF key \in Keys THEN flows[key] ELSE NewRecord(later)
           new == Touched(old, p, clock)
<1>2. clock \in Nat /\ MaxTime \in Nat
      BY FlowAssumption DEF IInv, TableTypeOK
<1>3. later \in Nat /\ clock <= later
      <2>1. Min({clock + 1, MaxTime}) \in Int
            BY <1>2, MinOfTwo
      <2> QED  BY <1>2, <2>1
<1>4. /\ old \in FlowRecord /\ SamplesSoFar(old)
      /\ Packets(old) > 0 => old.last_seen <= clock
      <2>1. CASE key \in Keys
            BY <2>1 DEF IInv, TableTypeOK, SamplesKept, SeenBefore
      <2>2. CASE key \notin Keys
            BY <2>2, <1>3, NewRecordType
      <2> QED  BY <2>1, <2>2
<1>5. /\ new \in FlowRecord /\ new.last_seen = clock
      /\ Packets(new) = Packets(old) + 1
      /\ SamplesSoFar(new)
      BY <1>2, <1>4, TouchedRecord
<1>6. Packets(new) > 0
      <2>1. Packets(old) \in Nat
            BY <1>4 DEF Packets, FlowRecord
      <2> QED  BY <1>5, <2>1
<1>7. /\ Keys' = (Keys \ gone) \cup {key}
      /\ \A k \in Keys' : flows'[k] = IF k # key THEN flows[k] ELSE new
      BY <1>1 DEF Keys
<1>8. \A k \in Keys' : k = key \/ k \in Keys
      BY <1>7
<1>9. key \in FiveTuple /\ IsForward(key)
      BY KeyOf
<1>10. /\ IsFiniteSet(Keys') /\ Cardinality(Keys') \in Nat
       /\ Cardinality(Keys') <= MaxFlows
      BY <1>7, RoomIsMade DEF IInv
<1>11. TableTypeOK'
      <2>1. Keys' \subseteq FiveTuple
            BY <1>8, <1>9 DEF IInv, TableTypeOK
      <2>2. \A k \in Keys' : flows'[k] \in FlowRecord
            BY <1>5, <1>7, <1>8 DEF IInv, TableTypeOK
      <2>3. active_flows' \in Nat /\ counted' = counted
            BY <1>10 DEF Update, Keys
      <2>4. seen' \in [packets : Nat, bytes : Nat]
            <3>1. p.payload \in Nat
                  BY FlowAssumption, SizesFit DEF Segment
            <3> QED  BY <3>1 DEF Update, Plus, IInv, TableTypeOK
      <2> QED  BY <1>1, <1>3, <1>10, <2>1, <2>2, <2>3, <2>4 DEF IInv, TableTypeOK
<1>12. KeysForward'
      BY <1>8, <1>9 DEF IInv, KeysForward, IsForward
<1>13. SeenBefore'
      <2>1. \A k \in Keys : flows[k].last_seen \in Nat /\ flows[k].last_seen <= clock
            BY DEF IInv, SeenBefore, TableTypeOK, FlowRecord
      <2> QED  BY <1>1, <1>2, <1>3, <1>5, <1>7, <1>8, <2>1 DEF SeenBefore
<1>14. NoneIsEmpty'
      <2> SUFFICES ASSUME NEW k \in Keys' PROVE Packets(flows'[k]) > 0
          BY DEF NoneIsEmpty, Packets
      <2> QED  BY <1>6, <1>7, <1>8 DEF IInv, NoneIsEmpty
<1>15. SamplesKept'
      <2> SUFFICES ASSUME NEW k \in Keys' PROVE SamplesSoFar(flows'[k])
          BY DEF SamplesKept, SamplesSoFar, Packets
      <2> QED  BY <1>5, <1>7, <1>8 DEF IInv, SamplesKept
<1> QED  BY <1>10, <1>11, <1>12, <1>13, <1>14, <1>15 DEF IInv

LEMMA EvictIdlePreserves == IInv /\ EvictIdle => IInv'
<1> SUFFICES ASSUME IInv, EvictIdle PROVE IInv'
    OBVIOUS
<1>1. /\ Keys' = Keys \ Idle
      /\ \A k \in Keys' : k \in Keys /\ flows'[k] = flows[k]
      BY DEF EvictIdle, Keys
<1>2. IsFiniteSet(Keys') /\ Cardinality(Keys') <= Cardinality(Keys)
      BY <1>1, FS_Subset DEF IInv
<1>3. Cardinality(Keys') \in Nat /\ Cardinality(Keys) \in Nat
      BY <1>2, FS_CardinalityType DEF IInv
<1>4. /\ active_flows' = Cardinality(Keys')
      /\ UNCHANGED <<clock, counted, seen>>
      BY DEF EvictIdle, Keys
<1>5. TableTypeOK'
      BY <1>1, <1>2, <1>3, <1>4, FlowAssumption DEF IInv, TableTypeOK
<1>6. KeysForward' /\ SeenBefore'
      BY <1>1, <1>4 DEF IInv, KeysForward, SeenBefore, IsForward
<1>7. NoneIsEmpty' /\ SamplesKept'
      BY <1>1 DEF IInv, NoneIsEmpty, SamplesKept, SamplesSoFar, Packets
<1> QED  BY <1>2, <1>5, <1>6, <1>7 DEF IInv

\* The steps that leave the table alone.
LEMMA OthersPreserve ==
    ASSUME IInv,
           Tick \/ (\E c \in Client : ReadCount(c) \/ SetGauge(c)) \/ UNCHANGED vars
    PROVE  IInv'
<1>1. flows' = flows /\ seen' = seen
      BY DEF Tick, ReadCount, SetGauge, vars
<1>2. Keys' = Keys
      BY <1>1 DEF Keys
<1>3. clock \in Nat /\ clock' \in Nat /\ clock <= clock'
      BY DEF Tick, ReadCount, SetGauge, vars, IInv, TableTypeOK
<1>4. Cardinality(Keys) \in Nat
      BY FS_CardinalityType DEF IInv
<1>5. counted' \in [Client -> Nat \cup {NoCount}] /\ active_flows' \in Nat
      <2>1. counted \in [Client -> Nat \cup {NoCount}] /\ active_flows \in Nat
            BY DEF IInv, TableTypeOK
      <2>2. ASSUME NEW c \in Client, ReadCount(c) \/ SetGauge(c)
            PROVE  counted' \in [Client -> Nat \cup {NoCount}] /\ active_flows' \in Nat
            BY <1>4, <2>1, <2>2 DEF ReadCount, SetGauge
      <2> QED  BY <2>1, <2>2 DEF Tick, vars
<1>6. TableTypeOK'
      BY <1>1, <1>2, <1>3, <1>5 DEF IInv, TableTypeOK
<1>7. SeenBefore'
      <2>1. \A k \in Keys : flows[k].last_seen \in Nat /\ flows[k].last_seen <= clock
            BY DEF IInv, SeenBefore, TableTypeOK, FlowRecord
      <2> QED  BY <1>1, <1>2, <1>3, <2>1 DEF SeenBefore
<1>8. KeysForward' /\ NoneIsEmpty' /\ SamplesKept'
      BY <1>1, <1>2 DEF IInv, KeysForward, IsForward, NoneIsEmpty, SamplesKept,
                        SamplesSoFar, Packets
<1> QED  BY <1>2, <1>6, <1>7, <1>8 DEF IInv

\* The strengthened invariant of the table holds in every reachable state.
THEOREM InductiveInvariant == Spec => []IInv
<1>1. Init => IInv
      BY InitEstablishes
<1>2. IInv /\ [Next]_vars => IInv'
      BY UpdatePreserves, EvictIdlePreserves, OthersPreserve DEF Next
<1> QED  BY <1>1, <1>2, PTL DEF Spec

-----------------------------------------------------------------------------
(* What follows *)

\* Table, gauge, counts and clock keep their types, and the table its limit of
\* max_flows, in every interleaving of update, evict_idle and snapshots.
THEOREM TableTypes == Spec => []TableTypeOK
<1>1. IInv => TableTypeOK
      BY DEF IInv
<1> QED  BY <1>1, InductiveInvariant, PTL

\* Both directions between two different hosts are one flow, as FlowKey
\* normalises them.
THEOREM DirectionsShareAFlow == Spec => []HostPairsShareAFlow
<1>1. ASSUME IInv PROVE HostPairsShareAFlow
      <2> SUFFICES ASSUME NEW k \in Keys, k.src # k.dst, Reverse(k) \in Keys
                   PROVE  FALSE
          BY DEF HostPairsShareAFlow
      <2>1. k \in FiveTuple
            BY <1>1 DEF IInv, TableTypeOK
      <2>2. IsForward(k) /\ IsForward(Reverse(k))
            BY <1>1 DEF IInv, KeysForward
      <2> QED  BY <2>1, <2>2 DEF IsForward, Reverse, FiveTuple
<1> QED  BY <1>1, InductiveInvariant, PTL

AllSamplesComplete == \A k \in Keys : SamplesComplete(flows[k])

\* Every flow has a size sampled for each of its packets and a gap for each but
\* the first, up to max_samples.
THEOREM SamplesAreComplete == Spec => []AllSamplesComplete
<1>1. ASSUME IInv PROVE AllSamplesComplete
      <2> SUFFICES ASSUME NEW k \in Keys PROVE SamplesComplete(flows[k])
          BY DEF AllSamplesComplete
      <2>1. Packets(flows[k]) > 0 /\ SamplesSoFar(flows[k])
            BY <1>1 DEF IInv, NoneIsEmpty, SamplesKept
      <2>2. Packets(flows[k]) \in Nat
            BY <1>1 DEF IInv, TableTypeOK, FlowRecord, Packets
      <2> QED  BY <2>1, <2>2 DEF SamplesSoFar, SamplesComplete
<1> QED  BY <1>1, InductiveInvariant, PTL

\* update and evict_idle close only flows that were idle too long or, when the
\* table was full, updated the longest ago.
THEOREM OnlyIdleOrOldestAreClosed == Spec => ClosesOnlyIdleOrOldest
<1> DEFINE Kept == \A k \in Keys \ DOMAIN flows' :
                     \/ IsIdle(flows[k])
                     \/ k \in Oldest /\ Cardinality(Keys) = MaxFlows
<1>1. ASSUME IInv, [Next]_vars PROVE [Kept]_vars
      <2> SUFFICES ASSUME NEW k \in Keys, k \notin DOMAIN flows'
                   PROVE  \/ IsIdle(flows[k])
                          \/ k \in Oldest /\ Cardinality(Keys) = MaxFlows
          OBVIOUS
      <2>1. CASE \E p \in Packet : Update(p)
            <3>1. PICK p \in Packet : Update(p)
                  BY <2>1
            <3>2. PICK gone \in Evictable(Normalized(p.tuple)) :
                     DOMAIN flows' = (Keys \ gone) \cup {Normalized(p.tuple)}
                  BY <3>1 DEF Update
            <3>3. k \in gone
                  BY <3>2
            <3>4. NeedsRoom(Normalized(p.tuple)) /\ k \in Oldest
                  BY <3>2, <3>3 DEF Evictable
            <3>5. /\ Cardinality(Keys) \in Nat /\ MaxFlows \in Nat
                  /\ Cardinality(Keys) <= MaxFlows
                  BY <1>1, FS_CardinalityType, FlowAssumption DEF IInv, TableTypeOK
            <3> QED  BY <3>4, <3>5 DEF NeedsRoom
      <2>2. CASE EvictIdle
            BY <2>2 DEF EvictIdle, Idle
      <2>3. CASE \/ Tick \/ UNCHANGED vars
                 \/ \E c \in Client : ReadCount(c) \/ SetGauge(c)
            BY <2>3 DEF Tick, ReadCount, SetGauge, vars, Keys
      <2> QED  BY <1>1, <2>1, <2>2, <2>3 DEF Next
<1> QED
    BY <1>1, InductiveInvariant, PTL DEF Spec, ClosesOnlyIdleOrOldest

-----------------------------------------------------------------------------
(* Traffic *)

PacketsOf == [k \in Keys |-> Packets(flows[k])]

BytesOf == [k \in Keys |-> Bytes(flows[k])]

\* TrafficConserved, part by part.
Conserved ==
    /\ seen.packets = closed.packets + SumFunctionOnSet(PacketsOf, Keys)
    /\ seen.bytes = closed.bytes + SumFunctionOnSet(BytesOf, Keys)

ClosedTypeOK == closed \in [packets : Nat, bytes : Nat]

TInv == IInv /\ ClosedTypeOK /\ Conserved

\* The parts of a record after a packet.
LEMMA TouchedFields ==
    ASSUME NEW record \in FlowRecord, NEW p \in Packet, NEW now \in Nat
    PROVE  LET new == Touched(record, p, now) IN
           /\ Packets(new) = Packets(record) + 1
           /\ Bytes(new) = Bytes(record) + p.payload
           /\ new.first_seen = record.first_seen
           /\ new.last_seen = now
           /\ new.iats = InterArrivals(record, now)
           /\ new.sizes = Sizes(record, p)
<1> DEFINE new == Touched(record, p, now)
           c == Counters(record, p)
<1>1. PacketLen(p) = p.payload /\ PacketLen(p) \in Nat
      BY CastIsExact
<1>2. /\ record.fwd \in Nat /\ record.rev \in Nat
      /\ record.fwd_bytes \in Nat /\ record.rev_bytes \in Nat
      BY DEF FlowRecord
<1>3. /\ new.fwd = c.fwd /\ new.rev = c.rev
      /\ new.fwd_bytes = c.fwd_bytes /\ new.rev_bytes = c.rev_bytes
      /\ new.first_seen = c.first_seen
      /\ new.last_seen = now
      /\ new.iats = InterArrivals(record, now)
      /\ new.sizes = Sizes(record, p)
      BY DEF Touched, Counters, FlowRecord
<1>4. /\ c.first_seen = record.first_seen
      /\ \/ /\ c.fwd = record.fwd + 1 /\ c.rev = record.rev
            /\ c.fwd_bytes = record.fwd_bytes + PacketLen(p)
            /\ c.rev_bytes = record.rev_bytes
         \/ /\ c.fwd = record.fwd /\ c.rev = record.rev + 1
            /\ c.fwd_bytes = record.fwd_bytes
            /\ c.rev_bytes = record.rev_bytes + PacketLen(p)
      BY DEF Counters, FlowRecord
<1> HIDE DEF new, c
<1>5. Packets(new) = Packets(record) + 1 /\ Bytes(new) = Bytes(record) + p.payload
      BY <1>1, <1>2, <1>3, <1>4 DEF Packets, Bytes
<1> QED  BY <1>3, <1>4, <1>5 DEF new

\* What update does to the table: flows are gone to make room for a new one,
\* and the flow with the packet's key, old until then, takes it in.
Updates(p, later, gone, key, old) ==
    /\ clock' = later /\ clock <= later /\ later <= clock + 1
    /\ key \in Keys => gone = {} /\ old = flows[key]
    /\ key \notin Keys => old = NewRecord(later)
    /\ \A k : k \in Keys' <=> k \in (Keys \ gone) \cup {key}
    /\ \A k \in Keys' : k # key => flows'[k] = flows[k]
    /\ flows'[key] = Touched(old, p, clock)
    /\ closed' = Plus(closed, Traffic(gone))

LEMMA UpdateOf ==
    ASSUME IInv, NEW p \in Packet, Update(p)
    PROVE  \E later \in Nat, gone \in SUBSET Keys, key \in FiveTuple, old \in FlowRecord :
              Updates(p, later, gone, key, old)
<1> DEFINE key == Normalized(p.tuple)
<1>1. PICK later \in clock .. (IF key \in Keys THEN clock ELSE Min({clock + 1, MaxTime})),
           gone \in Evictable(key) :
        /\ flows' = [k \in (Keys \ gone) \cup {key} |->
                       IF k # key THEN flows[k]
                       ELSE Touched(IF key \in Keys THEN flows[key] ELSE NewRecord(later),
                                    p, clock)]
        /\ clock' = later
        /\ closed' = Plus(closed, Traffic(gone))
      BY DEF Update
<1> DEFINE old == IF key \in Keys THEN flows[key] ELSE NewRecord(later)
<1>2. clock \in Nat /\ MaxTime \in Nat
      BY FlowAssumption DEF IInv, TableTypeOK
<1>3. later \in Nat /\ clock <= later /\ later <= clock + 1
      <2>1. Min({clock + 1, MaxTime}) \in Int /\ Min({clock + 1, MaxTime}) <= clock + 1
            BY <1>2, MinOfTwo
      <2> QED  BY <1>2, <2>1
<1>4. gone \in SUBSET Keys /\ (key \in Keys => gone = {})
      BY DEF Evictable, NeedsRoom, Oldest
<1>5. old \in FlowRecord
      BY <1>3, NewRecordType DEF IInv, TableTypeOK
<1>6. /\ \A k : k \in Keys' <=> k \in (Keys \ gone) \cup {key}
      /\ \A k \in Keys' : k # key => flows'[k] = flows[k]
      /\ flows'[key] = Touched(old, p, clock)
      BY <1>1 DEF Keys
<1>7. key \in FiveTuple
      BY KeyOf
<1>8. Updates(p, later, gone, key, old)
      BY <1>1, <1>3, <1>4, <1>6 DEF Updates
<1> HIDE DEF key, old
<1> QED  BY <1>3, <1>4, <1>5, <1>7, <1>8

\* What is counted of a part of the table.
LEMMA TrafficOf ==
    ASSUME IsFiniteSet(Keys), NEW keys \in SUBSET Keys
    PROVE  Traffic(keys) = [packets |-> SumFunctionOnSet(PacketsOf, keys),
                            bytes |-> SumFunctionOnSet(BytesOf, keys)]
<1> DEFINE P == [k \in keys |-> Packets(flows[k])]
           B == [k \in keys |-> Bytes(flows[k])]
<1>1. IsFiniteSet(keys)
      BY FS_Subset
<1>2. (\A k \in keys : P[k] = PacketsOf[k]) /\ (\A k \in keys : B[k] = BytesOf[k])
      BY DEF PacketsOf, BytesOf
<1>3. Traffic(keys) = [packets |-> SumFunctionOnSet(P, keys), bytes |-> SumFunctionOnSet(B, keys)]
      BY DEF Traffic, SumFunction
<1> HIDE DEF P, B
<1>4. SumFunctionOnSet(P, keys) = SumFunctionOnSet(PacketsOf, keys)
      BY <1>1, <1>2, SumAgrees
<1>5. SumFunctionOnSet(B, keys) = SumFunctionOnSet(BytesOf, keys)
      BY <1>1, <1>2, SumAgrees
<1> QED  BY <1>3, <1>4, <1>5

LEMMA CountsAreNats ==
    ASSUME TableTypeOK
    PROVE  /\ \A k \in Keys : PacketsOf[k] \in Nat
           /\ \A k \in Keys : BytesOf[k] \in Nat
<1>1. \A record \in FlowRecord : Packets(record) \in Nat /\ Bytes(record) \in Nat
      BY DEF FlowRecord, Packets, Bytes
<1> QED  BY <1>1 DEF TableTypeOK, PacketsOf, BytesOf

\* A sum in which one element gains d, and to which it may be new, while others
\* leave.
LEMMA SumMoves ==
    ASSUME NEW S, IsFiniteSet(S), NEW f, \A k \in S : f[k] \in Int,
           NEW gone \in SUBSET S, NEW e, e \in S => gone = {},
           NEW T, \A k : k \in T <=> k \in (S \ gone) \cup {e},
           NEW h, \A k \in T : k # e => h[k] = f[k],
           NEW d \in Int, h[e] = (IF e \in S THEN f[e] ELSE 0) + d
    PROVE  SumFunctionOnSet(h, T) + SumFunctionOnSet(f, gone) = SumFunctionOnSet(f, S) + d
<1>1. /\ IsFiniteSet(gone) /\ IsFiniteSet(S \ gone)
      /\ SumFunctionOnSet(f, gone) \in Int /\ SumFunctionOnSet(f, S \ gone) \in Int
      BY FS_Subset, SumIsInt
<1>2. SumFunctionOnSet(f, S) = SumFunctionOnSet(f, gone) + SumFunctionOnSet(f, S \ gone)
      BY SumSplits
<1>3. CASE e \in S
      <2>1. gone = {}
            BY <1>3
      <2>2. SumFunctionOnSet(h, T) = SumFunctionOnSet(h, S)
            <3>1. \A k : k \in T <=> k \in S
                  BY <1>3, <2>1
            <3> QED  BY <3>1, SumOfSame
      <2>3. h[e] = f[e] + d
            BY <1>3
      <2>4. \A k \in S \ {e} : h[k] = f[k]
            BY <2>1
      <2>5. \A k \in S : f[k] \in Int /\ h[k] \in Int
            BY <2>3, <2>4
      <2>6. SumFunctionOnSet(h, S) = SumFunctionOnSet(f, S) - f[e] + h[e]
            BY <1>3, <2>4, <2>5, SumChanges
      <2>7. SumFunctionOnSet(f, gone) = 0
            BY <2>1, SumEmpty
      <2>8. SumFunctionOnSet(f, S) \in Int /\ f[e] \in Int
            BY <1>1, <1>2, <1>3
      <2> QED  BY <2>2, <2>3, <2>6, <2>7, <2>8
<1>4. CASE e \notin S
      <2>1. h[e] = d
            BY <1>4
      <2>2. SumFunctionOnSet(h, T) = SumFunctionOnSet(h, (S \ gone) \cup {e})
            BY SumOfSame
      <2>3. \A k \in S \ gone : h[k] = f[k]
            BY <1>4
      <2>4. \A k \in (S \ gone) \cup {e} : h[k] \in Int
            BY <2>1, <2>3
      <2>5. SumFunctionOnSet(h, (S \ gone) \cup {e}) = d + SumFunctionOnSet(h, S \ gone)
            BY <1>1, <1>4, <2>1, <2>4, SumAdds
      <2>6. SumFunctionOnSet(h, S \ gone) = SumFunctionOnSet(f, S \ gone)
            BY <1>1, <2>3, SumAgrees
      <2> QED  BY <1>1, <1>2, <2>2, <2>5, <2>6
<1> QED  BY <1>3, <1>4

\* What update adds to the table and to what was closed is its packet.
LEMMA UpdateConserves ==
    ASSUME TInv, IInv', NEW p \in Packet, Update(p)
    PROVE  TInv'
<1>1. PICK later \in Nat, gone \in SUBSET Keys, key \in FiveTuple, old \in FlowRecord :
         Updates(p, later, gone, key, old)
      BY UpdateOf DEF TInv
<1> DEFINE new == Touched(old, p, clock)
           gonePackets == SumFunctionOnSet(PacketsOf, gone)
           goneBytes == SumFunctionOnSet(BytesOf, gone)
<1>2. p.payload \in Nat
      BY FlowAssumption, SizesFit DEF Segment
<1>3. /\ IsFiniteSet(Keys) /\ TableTypeOK /\ clock \in Nat
      /\ \A k \in Keys : PacketsOf[k] \in Nat /\ BytesOf[k] \in Nat
      BY CountsAreNats DEF TInv, IInv, TableTypeOK
<1>4. Packets(new) = Packets(old) + 1 /\ Bytes(new) = Bytes(old) + p.payload
      BY <1>3, TouchedFields
<1>5. /\ key \in Keys => Packets(old) = PacketsOf[key] /\ Bytes(old) = BytesOf[key]
      /\ key \notin Keys => Packets(old) = 0 /\ Bytes(old) = 0
      BY <1>1 DEF Updates, PacketsOf, BytesOf, NewRecord, Packets, Bytes
<1>6. /\ key \in Keys'
      /\ PacketsOf'[key] = Packets(new) /\ BytesOf'[key] = Bytes(new)
      BY <1>1 DEF Updates, PacketsOf, BytesOf, Packets, Bytes
<1>7. \A k \in Keys' : k # key => PacketsOf'[k] = PacketsOf[k] /\ BytesOf'[k] = BytesOf[k]
      BY <1>1 DEF Updates, PacketsOf, BytesOf, Packets, Bytes
<1>8. /\ PacketsOf'[key] = (IF key \in Keys THEN PacketsOf[key] ELSE 0) + 1
      /\ BytesOf'[key] = (IF key \in Keys THEN BytesOf[key] ELSE 0) + p.payload
      BY <1>4, <1>5, <1>6
<1>9. /\ key \in Keys => gone = {}
      /\ \A k : k \in Keys' <=> k \in (Keys \ gone) \cup {key}
      BY <1>1 DEF Updates
<1>10. SumFunctionOnSet(PacketsOf', Keys') + gonePackets = SumFunctionOnSet(PacketsOf, Keys) + 1
       <2>1. \A k \in Keys : PacketsOf[k] \in Int
             BY <1>3
       <2>2. \A k \in Keys' : k # key => PacketsOf'[k] = PacketsOf[k]
             BY <1>7
       <2>3. 1 \in Int
             OBVIOUS
       <2>4. IsFiniteSet(Keys)
             BY <1>3
       <2>5. PacketsOf'[key] = (IF key \in Keys THEN PacketsOf[key] ELSE 0) + 1
             BY <1>8
       <2> HIDE DEF new, goneBytes
       <2> QED  BY <1>9, <2>1, <2>2, <2>3, <2>4, <2>5, SumMoves
<1>11. SumFunctionOnSet(BytesOf', Keys') + goneBytes
         = SumFunctionOnSet(BytesOf, Keys) + p.payload
       <2>1. \A k \in Keys : BytesOf[k] \in Int
             BY <1>3
       <2>2. \A k \in Keys' : k # key => BytesOf'[k] = BytesOf[k]
             BY <1>7
       <2>3. p.payload \in Int
             BY <1>2
       <2>4. IsFiniteSet(Keys)
             BY <1>3
       <2>5. BytesOf'[key] = (IF key \in Keys THEN BytesOf[key] ELSE 0) + p.payload
             BY <1>8
       <2> HIDE DEF new, gonePackets
       <2> QED  BY <1>9, <2>1, <2>2, <2>3, <2>4, <2>5, SumMoves
<1>12. /\ gonePackets \in Nat /\ goneBytes \in Nat
       /\ SumFunctionOnSet(PacketsOf, Keys) \in Nat
       /\ SumFunctionOnSet(BytesOf, Keys) \in Nat
       <2>1. IsFiniteSet(gone)
             BY <1>3, FS_Subset
       <2>2. /\ \A k \in gone : PacketsOf[k] \in Nat
             /\ \A k \in gone : BytesOf[k] \in Nat
             /\ \A k \in Keys : PacketsOf[k] \in Nat
             /\ \A k \in Keys : BytesOf[k] \in Nat
             BY <1>3
       <2> QED  BY <1>3, <2>1, <2>2, SumIsNat
<1>13. /\ closed' = [packets |-> closed.packets + gonePackets,
                     bytes |-> closed.bytes + goneBytes]
       /\ seen' = [packets |-> seen.packets + 1, bytes |-> seen.bytes + p.payload]
       <2>1. Traffic(gone) = [packets |-> gonePackets, bytes |-> goneBytes]
             BY <1>3, TrafficOf
       <2>2. closed' = Plus(closed, Traffic(gone))
             BY <1>1 DEF Updates
       <2> HIDE DEF gonePackets, goneBytes
       <2> QED  BY <2>1, <2>2 DEF Update, Plus
<1>14. /\ closed.packets \in Nat /\ closed.bytes \in Nat
       /\ seen.packets = closed.packets + SumFunctionOnSet(PacketsOf, Keys)
       /\ seen.bytes = closed.bytes + SumFunctionOnSet(BytesOf, Keys)
       BY DEF TInv, ClosedTypeOK, Conserved
<1> HIDE DEF gonePackets, goneBytes, new
<1>15. ClosedTypeOK'
       BY <1>12, <1>13, <1>14 DEF ClosedTypeOK
<1>16. /\ closed'.packets = closed.packets + gonePackets
       /\ closed'.bytes = closed.bytes + goneBytes
       /\ seen'.packets = seen.packets + 1
       /\ seen'.bytes = seen.bytes + p.payload
       BY <1>13
<1>17. /\ SumFunctionOnSet(PacketsOf', Keys')
            = SumFunctionOnSet(PacketsOf, Keys) + 1 - gonePackets
       /\ SumFunctionOnSet(BytesOf', Keys')
            = SumFunctionOnSet(BytesOf, Keys) + p.payload - goneBytes
       <2>1. /\ SumFunctionOnSet(PacketsOf', Keys') \in Int
             /\ SumFunctionOnSet(BytesOf', Keys') \in Int
             <3>1. IsFiniteSet(Keys')
                   BY DEF IInv
             <3>2. /\ \A k \in Keys' : PacketsOf'[k] \in Int
                   /\ \A k \in Keys' : BytesOf'[k] \in Int
                   BY <1>2, <1>3, <1>7, <1>8, <1>9
             <3> QED  BY <3>1, <3>2, SumIsInt
       <2> QED  BY <1>2, <1>10, <1>11, <1>12, <2>1
<1>18. Conserved'
       BY <1>2, <1>12, <1>14, <1>16, <1>17 DEF Conserved
<1> QED  BY <1>15, <1>18 DEF TInv

\* evict_idle moves its flows from the table to what was closed.
LEMMA EvictIdleConserves ==
    ASSUME TInv, IInv', EvictIdle
    PROVE  TInv'
<1> DEFINE gonePackets == SumFunctionOnSet(PacketsOf, Idle)
           goneBytes == SumFunctionOnSet(BytesOf, Idle)
<1>1. /\ IsFiniteSet(Keys) /\ TableTypeOK /\ Idle \in SUBSET Keys
      /\ IsFiniteSet(Idle) /\ IsFiniteSet(Keys \ Idle)
      BY FS_Subset DEF TInv, IInv, Idle
<1>2. /\ \A k \in Keys : PacketsOf[k] \in Nat
      /\ \A k \in Keys : BytesOf[k] \in Nat
      BY <1>1, CountsAreNats
<1>3. /\ \A k : k \in Keys' <=> k \in Keys \ Idle
      /\ \A k \in Keys' : PacketsOf'[k] = PacketsOf[k] /\ BytesOf'[k] = BytesOf[k]
      BY DEF EvictIdle, Keys, PacketsOf, BytesOf, Packets, Bytes
<1>4. /\ SumFunctionOnSet(PacketsOf', Keys') = SumFunctionOnSet(PacketsOf, Keys \ Idle)
      /\ SumFunctionOnSet(BytesOf', Keys') = SumFunctionOnSet(BytesOf, Keys \ Idle)
      <2>1. /\ SumFunctionOnSet(PacketsOf', Keys') = SumFunctionOnSet(PacketsOf', Keys \ Idle)
            /\ SumFunctionOnSet(BytesOf', Keys') = SumFunctionOnSet(BytesOf', Keys \ Idle)
            BY <1>3, SumOfSame
      <2>2. /\ \A k \in Keys \ Idle : PacketsOf'[k] = PacketsOf[k]
            /\ \A k \in Keys \ Idle : BytesOf'[k] = BytesOf[k]
            BY <1>3
      <2>3. /\ SumFunctionOnSet(PacketsOf', Keys \ Idle) = SumFunctionOnSet(PacketsOf, Keys \ Idle)
            /\ SumFunctionOnSet(BytesOf', Keys \ Idle) = SumFunctionOnSet(BytesOf, Keys \ Idle)
            BY <1>1, <2>2, SumAgrees
      <2> QED  BY <2>1, <2>3
<1>5. /\ SumFunctionOnSet(PacketsOf, Keys)
           = gonePackets + SumFunctionOnSet(PacketsOf, Keys \ Idle)
      /\ SumFunctionOnSet(BytesOf, Keys)
           = goneBytes + SumFunctionOnSet(BytesOf, Keys \ Idle)
      <2>1. (\A k \in Keys : PacketsOf[k] \in Int) /\ (\A k \in Keys : BytesOf[k] \in Int)
            BY <1>2
      <2> QED  BY <1>1, <2>1, SumSplits
<1>6. /\ gonePackets \in Nat /\ goneBytes \in Nat
      /\ SumFunctionOnSet(PacketsOf, Keys \ Idle) \in Nat
      /\ SumFunctionOnSet(BytesOf, Keys \ Idle) \in Nat
      <2>1. /\ \A k \in Idle : PacketsOf[k] \in Nat
            /\ \A k \in Idle : BytesOf[k] \in Nat
            /\ \A k \in Keys \ Idle : PacketsOf[k] \in Nat
            /\ \A k \in Keys \ Idle : BytesOf[k] \in Nat
            BY <1>1, <1>2
      <2> QED  BY <1>1, <2>1, SumIsNat
<1>7. /\ seen' = seen
      /\ closed' = [packets |-> closed.packets + gonePackets,
                    bytes |-> closed.bytes + goneBytes]
      <2>1. Traffic(Idle) = [packets |-> gonePackets, bytes |-> goneBytes]
            BY <1>1, TrafficOf
      <2> HIDE DEF gonePackets, goneBytes
      <2> QED  BY <2>1 DEF EvictIdle, Plus
<1>8. /\ closed.packets \in Nat /\ closed.bytes \in Nat
      /\ seen.packets = closed.packets + SumFunctionOnSet(PacketsOf, Keys)
      /\ seen.bytes = closed.bytes + SumFunctionOnSet(BytesOf, Keys)
      BY DEF TInv, ClosedTypeOK, Conserved
<1> HIDE DEF gonePackets, goneBytes
<1>9. /\ closed'.packets = closed.packets + gonePackets
      /\ closed'.bytes = closed.bytes + goneBytes
      BY <1>7
<1>10. ClosedTypeOK'
       BY <1>6, <1>7, <1>8 DEF ClosedTypeOK
<1>11. Conserved'
       BY <1>4, <1>5, <1>6, <1>7, <1>8, <1>9 DEF Conserved
<1> QED  BY <1>10, <1>11 DEF TInv

LEMMA TrafficInvariance == Spec => []TInv
<1>1. ASSUME Init, IInv PROVE TInv
      <2>1. \A k : k \in Keys <=> k \in {}
            BY <1>1 DEF Init, Keys
      <2>2. SumFunctionOnSet(PacketsOf, Keys) = 0 /\ SumFunctionOnSet(BytesOf, Keys) = 0
            BY <2>1, SumOfSame, SumEmpty
      <2> QED  BY <1>1, <2>2 DEF Init, TInv, ClosedTypeOK, Conserved
<1>2. ASSUME TInv, IInv', [Next]_vars PROVE TInv'
      <2>1. CASE \/ Tick \/ UNCHANGED vars
                 \/ \E c \in Client : ReadCount(c) \/ SetGauge(c)
            <3>1. flows' = flows /\ seen' = seen /\ closed' = closed
                  BY <2>1 DEF Tick, ReadCount, SetGauge, vars
            <3>2. Keys' = Keys /\ PacketsOf' = PacketsOf /\ BytesOf' = BytesOf
                  BY <3>1 DEF Keys, PacketsOf, BytesOf, Packets, Bytes
            <3> QED  BY <1>2, <3>1, <3>2 DEF TInv, ClosedTypeOK, Conserved
      <2> QED  BY <1>2, <2>1, UpdateConserves, EvictIdleConserves DEF Next
<1> QED  BY <1>1, <1>2, InductiveInvariant, PTL DEF Spec

\* Every variable keeps its type, what was closed included.
THEOREM TypeCorrect == Spec => []TypeOK
<1>1. TInv => TypeOK
      BY DEF TInv, IInv, ClosedTypeOK, TypeOK
<1> QED  BY <1>1, TrafficInvariance, PTL

\* Every packet and every byte that came to update is in a live flow or was in
\* one that update or evict_idle closed, once.
THEOREM NoTrafficIsLost == Spec => []TrafficConserved
<1>1. ASSUME TInv PROVE TrafficConserved
      <2>1. Traffic(Keys) = [packets |-> SumFunctionOnSet(PacketsOf, Keys),
                             bytes |-> SumFunctionOnSet(BytesOf, Keys)]
            BY <1>1, TrafficOf DEF TInv, IInv
      <2>2. seen = [packets |-> seen.packets, bytes |-> seen.bytes]
            BY <1>1 DEF TInv, IInv, TableTypeOK
      <2> QED  BY <1>1, <2>1, <2>2 DEF TInv, Conserved, TrafficConserved, Plus
<1> QED  BY <1>1, TrafficInvariance, PTL

-----------------------------------------------------------------------------
(* Samples *)

LEMMA TotalOfNone == ASSUME NEW samples, samples = << >> PROVE Total(samples) = 0
<1>1. SumFunctionOnSet(samples, DOMAIN samples) = SumFunctionOnSet(samples, {})
      <2>1. \A i : i \in DOMAIN samples <=> i \in {}
            OBVIOUS
      <2> QED  BY <2>1, SumOfSame
<1> QED  BY <1>1, SumEmpty DEF Total, SumFunction

LEMMA TotalAppends ==
    ASSUME NEW samples \in Seq(Nat), NEW sample \in Nat
    PROVE  Total(Append(samples, sample)) = Total(samples) + sample
<1> DEFINE n == Len(samples)
           longer == Append(samples, sample)
<1>1. /\ n \in Nat /\ IsFiniteSet(1 .. n) /\ n + 1 \notin 1 .. n
      BY FS_Interval
<1>2. /\ \A i : i \in DOMAIN longer <=> i \in (1 .. n) \cup {n + 1}
      /\ \A i : i \in DOMAIN samples <=> i \in 1 .. n
      /\ \A i \in 1 .. n : longer[i] = samples[i] /\ samples[i] \in Nat
      /\ longer[n + 1] = sample
      OBVIOUS
<1> HIDE DEF n, longer
<1>3. Total(longer) = SumFunctionOnSet(longer, (1 .. n) \cup {n + 1})
      BY <1>2, SumOfSame DEF Total, SumFunction
<1>4. SumFunctionOnSet(longer, (1 .. n) \cup {n + 1})
        = sample + SumFunctionOnSet(longer, 1 .. n)
      <2>1. \A i \in (1 .. n) \cup {n + 1} : longer[i] \in Int
            BY <1>2
      <2> QED  BY <1>1, <1>2, <2>1, SumAdds
<1>5. SumFunctionOnSet(longer, 1 .. n) = SumFunctionOnSet(samples, 1 .. n)
      BY <1>1, <1>2, SumAgrees
<1>6. Total(samples) = SumFunctionOnSet(samples, 1 .. n)
      BY <1>2, SumOfSame DEF Total, SumFunction
<1>7. SumFunctionOnSet(samples, 1 .. n) \in Int
      <2>1. \A i \in 1 .. n : samples[i] \in Int
            BY <1>2
      <2> QED  BY <1>1, <2>1, SumIsInt
<1>8. Total(longer) = Total(samples) + sample
      BY <1>3, <1>4, <1>5, <1>6, <1>7
<1> QED  BY <1>8 DEF longer

LEMMA TotalIsNat == ASSUME NEW samples \in Seq(Nat) PROVE Total(samples) \in Nat
<1>1. IsFiniteSet(DOMAIN samples)
      <2>1. DOMAIN samples = 1 .. Len(samples) /\ Len(samples) \in Nat
            OBVIOUS
      <2> QED  BY <2>1, FS_Interval
<1>2. \A i \in DOMAIN samples : samples[i] \in Nat
      OBVIOUS
<1> QED  BY <1>1, <1>2, SumIsNat DEF Total, SumFunction

\* What the lists add up to after a packet.
LEMMA TouchedAddsUp ==
    ASSUME NEW record \in FlowRecord, NEW p \in Packet, NEW now \in Nat,
           Packets(record) > 0 => record.last_seen <= now,
           Packets(record) = 0 => record.first_seen \in {now, now + 1},
           SamplesSoFar(record), SamplesAddUp(record)
    PROVE  SamplesAddUp(Touched(record, p, now))
<1> DEFINE new == Touched(record, p, now)
<1>1. /\ Packets(new) = Packets(record) + 1
      /\ Bytes(new) = Bytes(record) + p.payload
      /\ new.first_seen = record.first_seen
      /\ new.last_seen = now
      /\ new.iats = InterArrivals(record, now)
      /\ new.sizes = Sizes(record, p)
      BY TouchedFields
<1>2. PacketLen(p) = p.payload /\ p.payload \in Nat /\ MaxSamples \in Nat
      BY CastIsExact, FlowAssumption
<1>3. /\ Packets(record) \in Nat /\ Bytes(record) \in Nat
      /\ record.first_seen \in Nat /\ record.last_seen \in Nat
      /\ record.iats \in Seq(Nat) /\ record.sizes \in Seq(Size)
      BY SizesFit DEF FlowRecord, Packets, Bytes
<1>4. record.sizes \in Seq(Nat)
      BY <1>3, SizesFit
<1> HIDE DEF new
<1>5. ASSUME Len(new.sizes) = Packets(new) PROVE Total(new.sizes) = Bytes(new)
      <2>1. Len(record.sizes) = IF Packets(record) <= MaxSamples THEN Packets(record) ELSE MaxSamples
            BY <1>2, <1>3, MinOfTwo DEF SamplesSoFar
      <2>2. /\ Len(record.sizes) < MaxSamples /\ Len(record.sizes) = Packets(record)
            /\ new.sizes = Append(record.sizes, p.payload)
            BY <1>1, <1>2, <1>3, <1>5, <2>1 DEF Sizes, Sampled
      <2>3. Total(record.sizes) = Bytes(record)
            BY <2>2 DEF SamplesAddUp
      <2>4. Total(new.sizes) = Total(record.sizes) + p.payload
            BY <1>2, <1>4, <2>2, TotalAppends
      <2> QED  BY <1>1, <2>3, <2>4
<1>6. ASSUME Len(new.iats) = Packets(new) - 1
      PROVE  Total(new.iats) - (new.last_seen - new.first_seen) \in {0, 1}
      <2>1. CASE Packets(record) = 0
            <3>1. Len(record.iats) = 0 /\ new.iats = record.iats
                  BY <1>1, <2>1 DEF SamplesSoFar, InterArrivals
            <3>2. new.iats = << >>
                  BY <1>3, <3>1
            <3>3. Total(new.iats) = 0
                  BY <3>2, TotalOfNone
            <3> QED  BY <1>1, <1>3, <2>1, <3>3
      <2>2. CASE Packets(record) > 0
            <3> DEFINE gap == now - record.last_seen
            <3>1. Len(record.iats) = IF Packets(record) - 1 <= MaxSamples
                                     THEN Packets(record) - 1 ELSE MaxSamples
                  BY <1>2, <1>3, <2>2, MinOfTwo DEF SamplesSoFar
            <3>2. gap \in Nat
                  BY <1>3, <2>2
            <3>3. new.iats = Sampled(record.iats, gap)
                  BY <1>1, <2>2 DEF InterArrivals
            <3> HIDE DEF gap
            <3>4. /\ Len(record.iats) = Packets(record) - 1
                  /\ new.iats = Append(record.iats, gap)
                  BY <1>1, <1>2, <1>3, <1>6, <2>2, <3>1, <3>3 DEF Sampled
            <3>5. Total(record.iats) - (record.last_seen - record.first_seen) \in {0, 1}
                  BY <3>4 DEF SamplesAddUp
            <3>6. Total(new.iats) = Total(record.iats) + gap /\ Total(record.iats) \in Nat
                  BY <1>3, <3>2, <3>4, TotalAppends, TotalIsNat
            <3> QED  BY <1>1, <1>3, <3>5, <3>6 DEF gap
      <2> QED  BY <1>3, <2>1, <2>2
<1>7. SamplesAddUp(new)
      BY <1>5, <1>6 DEF SamplesAddUp
<1> QED  BY <1>7 DEF new

\* A gap after the first one is 0 for as long as the flow has not outlasted
\* its own first_seen.
Settled(record) ==
    /\ Packets(record) >= 2 => record.first_seen <= record.last_seen
    /\ record.last_seen <= record.first_seen =>
          \A i \in 2 .. Len(record.iats) : record.iats[i] = 0

LEMMA TouchedSettles ==
    ASSUME NEW record \in FlowRecord, NEW p \in Packet, NEW now \in Nat,
           Packets(record) > 0 => record.last_seen <= now /\ record.first_seen <= now,
           SamplesSoFar(record), Settled(record)
    PROVE  Settled(Touched(record, p, now))
<1> DEFINE new == Touched(record, p, now)
<1>1. /\ Packets(new) = Packets(record) + 1
      /\ new.first_seen = record.first_seen
      /\ new.last_seen = now
      /\ new.iats = InterArrivals(record, now)
      BY TouchedFields
<1>2. /\ Packets(record) \in Nat
      /\ record.first_seen \in Nat /\ record.last_seen \in Nat
      /\ record.iats \in Seq(Nat)
      BY DEF FlowRecord, Packets
<1> HIDE DEF new
<1>3. Packets(new) >= 2 => new.first_seen <= new.last_seen
      BY <1>1, <1>2
<1>4. ASSUME new.last_seen <= new.first_seen, NEW i \in 2 .. Len(new.iats)
      PROVE  new.iats[i] = 0
      <2>1. CASE Packets(record) = 0
            <3>1. new.iats = record.iats /\ Len(record.iats) = 0
                  BY <1>1, <2>1 DEF SamplesSoFar, InterArrivals
            <3> QED  BY <1>4, <3>1
      <2>2. CASE Packets(record) = 1
            <3>1. Len(record.iats) = 0
                  BY <2>2, MinOfTwo, FlowAssumption DEF SamplesSoFar
            <3>2. new.iats = Sampled(record.iats, now - record.last_seen)
                  BY <1>1, <2>2 DEF InterArrivals
            <3>3. Len(new.iats) <= 1
                  BY <1>2, <3>1, <3>2 DEF Sampled
            <3> QED  BY <1>4, <3>1, <3>3
      <2>3. CASE Packets(record) >= 2
            <3>1. /\ record.first_seen <= record.last_seen /\ record.last_seen <= now
                  /\ now <= record.first_seen
                  BY <1>1, <1>2, <1>4, <2>3 DEF Settled
            <3>2. now - record.last_seen = 0 /\ record.last_seen <= record.first_seen
                  BY <1>2, <3>1
            <3>3. \A j \in 2 .. Len(record.iats) : record.iats[j] = 0
                  BY <3>2 DEF Settled
            <3>4. new.iats = record.iats \/ new.iats = Append(record.iats, 0)
                  BY <1>1, <2>3, <3>2 DEF InterArrivals, Sampled
            <3>5. CASE new.iats = record.iats
                  BY <1>4, <3>3, <3>5
            <3>6. CASE new.iats = Append(record.iats, 0)
                  <4>1. Len(new.iats) = Len(record.iats) + 1 /\ Len(record.iats) \in Nat
                        BY <1>2, <3>6
                  <4>2. CASE i = Len(record.iats) + 1
                        BY <1>2, <3>6, <4>2
                  <4>3. CASE i # Len(record.iats) + 1
                        <5>1. i \in 2 .. Len(record.iats)
                              BY <1>4, <4>1, <4>3
                        <5> QED  BY <1>2, <3>3, <3>6, <5>1
                  <4> QED  BY <4>2, <4>3
            <3> QED  BY <3>4, <3>5, <3>6
      <2> QED  BY <1>2, <2>1, <2>2, <2>3
<1>5. Settled(new)
      BY <1>3, <1>4 DEF Settled
<1> QED  BY <1>5 DEF new

-----------------------------------------------------------------------------
(* Records over time *)

\* What is true of each record of the table.
RecordOK(record) ==
    record.first_seen <= clock /\ SamplesAddUp(record) /\ Settled(record)

RInv == IInv /\ \A k \in Keys : RecordOK(flows[k])

LEMMA UpdateKeepsRecords ==
    ASSUME RInv, NEW p \in Packet, Update(p)
    PROVE  \A k \in Keys' : RecordOK(flows[k])'
<1>1. PICK later \in Nat, gone \in SUBSET Keys, key \in FiveTuple, old \in FlowRecord :
         Updates(p, later, gone, key, old)
      BY UpdateOf DEF RInv
<1>2. clock \in Nat /\ clock' = later /\ clock <= later /\ later <= clock + 1
      BY <1>1 DEF Updates, RInv, IInv, TableTypeOK
<1>3. /\ SamplesSoFar(old) /\ SamplesAddUp(old) /\ Settled(old)
      /\ old.first_seen <= later
      /\ Packets(old) > 0 => old.last_seen <= clock /\ old.first_seen <= clock
      /\ Packets(old) = 0 => old.first_seen \in {clock, clock + 1}
      <2>1. CASE key \in Keys
            <3>1. old = flows[key]
                  BY <1>1, <2>1 DEF Updates
            <3>2. old.first_seen \in Nat /\ Packets(old) > 0
                  BY <2>1, <3>1 DEF FlowRecord, RInv, IInv, NoneIsEmpty
            <3> QED  BY <1>2, <2>1, <3>1, <3>2
                     DEF RInv, RecordOK, IInv, SamplesKept, SeenBefore
      <2>2. CASE key \notin Keys
            <3>1. old = NewRecord(later)
                  BY <1>1, <2>2 DEF Updates
            <3>2. SamplesSoFar(old) /\ Packets(old) = 0
                  BY <3>1, NewRecordType
            <3>3. /\ old.first_seen = later /\ old.last_seen = later
                  /\ old.iats = << >> /\ old.sizes = << >> /\ Bytes(old) = 0
                  BY <3>1 DEF NewRecord, Bytes
            <3>4. Total(old.iats) = 0 /\ Total(old.sizes) = 0
                  BY <3>3, TotalOfNone
            <3>5. SamplesAddUp(old) /\ Settled(old)
                  BY <3>2, <3>3, <3>4 DEF SamplesAddUp, Settled
            <3> QED  BY <1>2, <3>2, <3>3, <3>5
      <2> QED  BY <2>1, <2>2
<1>4. SamplesAddUp(Touched(old, p, clock)) /\ Settled(Touched(old, p, clock))
      BY <1>2, <1>3, TouchedAddsUp, TouchedSettles
<1>5. Touched(old, p, clock).first_seen = old.first_seen
      BY <1>2, TouchedFields
<1> SUFFICES ASSUME NEW k \in Keys'
             PROVE  /\ flows'[k].first_seen <= clock'
                    /\ SamplesAddUp(flows'[k]) /\ Settled(flows'[k])
    BY DEF RecordOK, SamplesAddUp, Settled, Packets, Bytes, Total
<1>6. CASE k = key
      BY <1>1, <1>2, <1>3, <1>4, <1>5, <1>6 DEF Updates
<1>7. CASE k # key
      <2>1. k \in Keys /\ flows'[k] = flows[k]
            BY <1>1, <1>7 DEF Updates
      <2>2. flows[k].first_seen \in Nat /\ flows[k].first_seen <= clock
            BY <2>1 DEF RInv, RecordOK, IInv, TableTypeOK, FlowRecord
      <2> QED  BY <1>2, <2>1, <2>2 DEF RInv, RecordOK
<1> QED  BY <1>6, <1>7

LEMMA RecordInvariance == Spec => []RInv
<1>1. ASSUME Init, IInv PROVE RInv
      BY <1>1 DEF Init, RInv, Keys
<1>2. ASSUME RInv, IInv', [Next]_vars PROVE RInv'
      <2>1. ASSUME NEW p \in Packet, Update(p) PROVE RInv'
            BY <1>2, <2>1, UpdateKeepsRecords DEF RInv
      <2>2. CASE \/ Tick \/ EvictIdle \/ UNCHANGED vars
                 \/ \E c \in Client : ReadCount(c) \/ SetGauge(c)
            <3>1. /\ \A k \in Keys' : k \in Keys /\ flows'[k] = flows[k]
                  /\ clock \in Nat /\ clock' \in Nat /\ clock <= clock'
                  BY <1>2, <2>2 DEF Tick, EvictIdle, ReadCount, SetGauge, vars, Keys,
                                    RInv, IInv, TableTypeOK
            <3>2. ASSUME NEW k \in Keys' PROVE RecordOK(flows[k])'
                  <4>1. /\ k \in Keys /\ flows'[k] = flows[k]
                        /\ flows[k].first_seen \in Nat /\ RecordOK(flows[k])
                        BY <1>2, <3>1 DEF RInv, IInv, TableTypeOK, FlowRecord
                  <4> QED  BY <3>1, <4>1 DEF RecordOK, SamplesAddUp, Settled,
                                             Packets, Bytes, Total
            <3> QED  BY <1>2, <3>2 DEF RInv
      <2> QED  BY <1>2, <2>1, <2>2 DEF Next
<1> QED  BY <1>1, <1>2, InductiveInvariant, PTL DEF Spec

\* The parts of a record that update keeps one by one tell of the same
\* packets, whatever the lists, the limits and the readings of the clock.
THEOREM RecordsAreConsistent == Spec => []RecordsConsistent
<1>1. ASSUME RInv, AllSamplesComplete PROVE RecordsConsistent
      BY <1>1 DEF RInv, RecordOK, AllSamplesComplete, RecordsConsistent
<1> QED  BY <1>1, RecordInvariance, SamplesAreComplete, PTL

-----------------------------------------------------------------------------
(* The score *)

LEMMA DivBounds ==
    ASSUME NEW a \in Nat, NEW b \in Nat \ {0}
    PROVE  /\ a \div b \in Nat
           /\ b * (a \div b) <= a
           /\ a < b * (a \div b + 1)
  OBVIOUS

LEMMA ProductIsMonotone ==
    ASSUME NEW m \in Nat, NEW a \in Nat, NEW b \in Nat, a <= b
    PROVE  m * a <= m * b
  OBVIOUS

LEMMA DivAtMost ==
    ASSUME NEW a \in Nat, NEW b \in Nat \ {0}, NEW m \in Nat, a <= b * m
    PROVE  a \div b <= m
<1> DEFINE q == a \div b
<1>1. q \in Nat /\ b * q <= a
      BY DivBounds
<1> HIDE DEF q
<1>2. CASE q >= m + 1
      <2>1. b * (m + 1) <= b * q
            BY <1>1, <1>2, ProductIsMonotone
      <2>2. b * (m + 1) = b * m + b /\ b * m \in Nat /\ b * q \in Nat
            BY <1>1
      <2> QED  BY <1>1, <2>1, <2>2
<1>3. q <= m
      BY <1>1, <1>2
<1> QED  BY <1>3 DEF q

LEMMA DivAtLeast ==
    ASSUME NEW a \in Nat, NEW b \in Nat \ {0}, NEW m \in Nat, b * m <= a
    PROVE  m <= a \div b
<1> DEFINE q == a \div b
<1>1. q \in Nat /\ a < b * (q + 1)
      BY DivBounds
<1> HIDE DEF q
<1>2. CASE q + 1 <= m
      <2>1. b * (q + 1) <= b * m
            BY <1>1, <1>2, ProductIsMonotone
      <2>2. b * m \in Nat /\ b * (q + 1) \in Nat
            BY <1>1
      <2> QED  BY <1>1, <2>1, <2>2
<1>3. m <= q
      BY <1>1, <1>2
<1> QED  BY <1>3 DEF q

LEMMA MinOfNats ==
    ASSUME NEW a \in Nat, NEW b \in Nat
    PROVE  Min({a, b}) \in Nat /\ Min({a, b}) <= a
  BY MinOfTwo

LEMMA AsymmetryBounds ==
    ASSUME NEW fwd \in Nat, NEW rev \in Nat
    PROVE  Asymmetry(fwd, rev) \in Nat /\ Asymmetry(fwd, rev) <= 100
<1> DEFINE gap == IF fwd > rev THEN fwd - rev ELSE rev - fwd
           all == fwd + rev
<1>1. gap \in Nat /\ all \in Nat /\ gap <= all
      OBVIOUS
<1>2. Asymmetry(fwd, rev) = IF all = 0 THEN 0 ELSE (100 * gap) \div all
      BY DEF Asymmetry, Percent
<1> HIDE DEF gap, all
<1>3. 100 * gap \in Nat /\ 100 * gap <= all * 100
      BY <1>1
<1>4. ASSUME all # 0 PROVE (100 * gap) \div all \in Nat /\ (100 * gap) \div all <= 100
      <2>1. all \in Nat \ {0} /\ 100 \in Nat
            BY <1>1, <1>4
      <2>2. (100 * gap) \div all \in Nat
            BY <1>3, <2>1, DivBounds
      <2>3. (100 * gap) \div all <= 100
            BY <1>3, <2>1, DivAtMost
      <2> QED  BY <2>2, <2>3
<1> QED  BY <1>2, <1>4

LEMMA FlagAnomalyBounds ==
    ASSUME NEW flags
    PROVE  FlagAnomaly(flags) \in Nat /\ FlagAnomaly(flags) <= 100
<1> DEFINE all == (IF {"SYN", "FIN"} \subseteq flags THEN 50 ELSE 0)
                  + (IF {"FIN", "PSH", "URG"} \subseteq flags THEN 50 ELSE 0)
                  + (IF flags = {} THEN 30 ELSE 0)
<1>1. all \in Nat
      OBVIOUS
<1>2. FlagAnomaly(flags) = Min({100, all})
      BY DEF FlagAnomaly, Percent
<1> HIDE DEF all
<1>3. 100 \in Nat
      OBVIOUS
<1> QED  BY <1>1, <1>2, <1>3, MinOfNats

LEMMA ConnRateBounds ==
    ASSUME NEW packets \in Nat, NEW first \in Nat, NEW last \in Nat
    PROVE  /\ ConnRate(packets, first, last, Second) \in Nat
           /\ ConnRate(packets, first, last, Second) <= 1000
<1>1. CASE last <= first
      BY <1>1 DEF ConnRate, RateLimit
<1>2. CASE ~(last <= first)
      <2>1. packets * Second \in Nat /\ last - first \in Nat \ {0} /\ 1000 \in Nat
            BY <1>2, FlowAssumption
      <2> DEFINE rate == (packets * Second) \div (last - first)
      <2>2. rate \in Nat
            BY <2>1, DivBounds
      <2>3. ConnRate(packets, first, last, Second) = Min({1000, rate})
            BY <1>2 DEF ConnRate, RateLimit
      <2> HIDE DEF rate
      <2> QED  BY <2>1, <2>2, <2>3, MinOfNats
<1> QED  BY <1>1, <1>2

LEMMA RateOfRecord ==
    ASSUME NEW record, record.fwd \in Nat, record.rev \in Nat,
           record.first_seen \in Nat, record.last_seen \in Nat
    PROVE  LET rate == ConnRate(record.fwd + record.rev, record.first_seen,
                                record.last_seen, Second)
           IN  rate \in Nat /\ rate <= 1000
<1>1. record.fwd + record.rev \in Nat
      OBVIOUS
<1> DEFINE packets == record.fwd + record.rev
           first == record.first_seen
           last == record.last_seen
<1>2. packets \in Nat /\ first \in Nat /\ last \in Nat
      BY <1>1
<1> HIDE DEF packets, first, last
<1>3. ConnRate(packets, first, last, Second) \in Nat
      BY ONLY <1>2, ConnRateBounds
<1>4. ConnRate(packets, first, last, Second) <= 1000
      BY <1>2, ConnRateBounds
<1> QED  BY <1>3, <1>4 DEF packets, first, last

LEMMA VariationBounds ==
    ASSUME NEW samples
    PROVE  /\ Variation(samples) \in Nat /\ Variation(samples) <= 100
           /\ (\A v \in 1 .. 100 : v * v <= SquaredVariation(samples))
                 => Variation(samples) = 100
<1> DEFINE steps == {v \in 1 .. 100 : v * v <= SquaredVariation(samples)}
<1>1. Variation(samples) = Cardinality(steps)
      BY DEF Variation, Percent
<1>2. IsFiniteSet(1 .. 100) /\ Cardinality(1 .. 100) = 100
      <2>1. 1 \in Int /\ 100 \in Int /\ 100 - 1 + 1 = 100 /\ ~(1 > 100)
            OBVIOUS
      <2> QED  BY <2>1, FS_Interval
<1>3. steps \in SUBSET (1 .. 100)
      OBVIOUS
<1>4. (\A v \in 1 .. 100 : v * v <= SquaredVariation(samples)) => steps = 1 .. 100
      OBVIOUS
<1> HIDE DEF steps
<1>5. Cardinality(steps) \in Nat /\ Cardinality(steps) <= 100
      <2>1. IsFiniteSet(steps) /\ Cardinality(steps) <= Cardinality(1 .. 100)
            BY <1>2, <1>3, FS_Subset
      <2> QED  BY <1>2, <2>1, FS_CardinalityType
<1>6. steps = 1 .. 100 => Cardinality(steps) = 100
      BY <1>2
<1> QED  BY <1>1, <1>4, <1>5, <1>6

LEMMA BeaconingBounds ==
    ASSUME NEW iats
    PROVE  Beaconing(iats) \in Nat /\ Beaconing(iats) <= 100
<1>1. Variation(iats) \in Nat /\ Variation(iats) <= 100
      BY VariationBounds
<1> QED  BY <1>1 DEF Beaconing, Percent

\* Of gaps that are 0 from the second on, no two are alike enough: their
\* standard deviation is at least their mean.
LEMMA OneGapIsNoBeacon ==
    ASSUME NEW iats \in Seq(Nat), \A i \in 2 .. Len(iats) : iats[i] = 0
    PROVE  Beaconing(iats) = 0
<1> SUFFICES ASSUME Len(iats) >= 2, Total(iats) # 0 PROVE Variation(iats) = 100
    BY DEF Beaconing, Percent
<1> DEFINE n == Len(iats)
           squares == Squares(iats)
<1>1. /\ n \in Nat /\ n >= 2 /\ IsFiniteSet(1 .. n) /\ 1 \in 1 .. n
      /\ IsFiniteSet((1 .. n) \ {1})
      <2>1. n \in Nat /\ n >= 2 /\ IsFiniteSet(1 .. n) /\ 1 \in 1 .. n
            <3>1. n \in Int /\ 1 \in Int /\ n \in Nat /\ n >= 2
                  OBVIOUS
            <3> HIDE DEF n
            <3> QED  BY <3>1, FS_Interval
      <2> QED  BY <2>1, FS_RemoveElement
<1>2. /\ DOMAIN iats = 1 .. n /\ DOMAIN squares = 1 .. n
      /\ \A i \in 1 .. n : iats[i] \in Nat /\ squares[i] = iats[i] * iats[i]
      BY DEF Squares
<1>3. \A i \in (1 .. n) \ {1} : iats[i] = 0
      BY <1>1
<1>4. \A i \in (1 .. n) \ {1} : squares[i] = 0
      <2>1. 0 * 0 = 0
            OBVIOUS
      <2> QED  BY <1>2, <1>3, <2>1
<1> HIDE DEF n, squares
<1>5. Total(iats) = iats[1]
      <2>1. \A i \in 1 .. n : iats[i] \in Int
            BY <1>2
      <2>2. SumFunctionOnSet(iats, 1 .. n)
              = iats[1] + SumFunctionOnSet(iats, (1 .. n) \ {1})
            BY <1>1, <2>1, SumRemoves
      <2>3. SumFunctionOnSet(iats, (1 .. n) \ {1}) = 0
            BY <1>1, <1>3, SumIsZero
      <2> QED  BY <1>1, <1>2, <2>2, <2>3 DEF Total, SumFunction
<1>6. Total(squares) = iats[1] * iats[1]
      <2>1. \A i \in 1 .. n : squares[i] \in Int
            BY <1>2
      <2>2. SumFunctionOnSet(squares, 1 .. n)
              = squares[1] + SumFunctionOnSet(squares, (1 .. n) \ {1})
            BY <1>1, <2>1, SumRemoves
      <2>3. SumFunctionOnSet(squares, (1 .. n) \ {1}) = 0
            BY <1>1, <1>4, SumIsZero
      <2>4. squares[1] = iats[1] * iats[1] /\ squares[1] \in Int
            BY <1>1, <1>2
      <2> QED  BY <1>2, <2>2, <2>3, <2>4 DEF Total, SumFunction
<1> DEFINE y == iats[1] * iats[1]
<1>7. y \in Nat \ {0}
      <2>1. iats[1] \in Nat /\ iats[1] # 0
            BY <1>1, <1>2, <1>5
      <2> QED  BY <2>1
<1>8. SquaredVariation(iats) = (100 * 100 * (n * y - y)) \div y
      BY <1>5, <1>6 DEF SquaredVariation, Percent, n, squares
<1> HIDE DEF y
<1>9. 10000 <= SquaredVariation(iats)
      <2>1. y * 2 <= y * n
            BY <1>1, <1>7, ProductIsMonotone
      <2>2. n * y = y * n /\ n * y \in Nat
            BY <1>1, <1>7
      <2>3. n * y - y \in Nat /\ y <= n * y - y
            BY <1>7, <2>1, <2>2
      <2> DEFINE d == n * y - y
      <2> HIDE DEF d
      <2>4. 100 * 100 * d \in Nat /\ y * 10000 <= 100 * 100 * d
            BY <1>7, <2>3 DEF d
      <2>5. 10000 \in Nat
            OBVIOUS
      <2>6. 10000 <= (100 * 100 * d) \div y
            BY <1>7, <2>4, <2>5, DivAtLeast
      <2> QED  BY <1>8, <2>6 DEF d
<1>10. \A v \in 1 .. 100 : v * v <= SquaredVariation(iats)
       <2>1. SquaredVariation(iats) \in Int
             BY <1>1, <1>7, <1>8
       <2>2. ASSUME NEW v \in 1 .. 100 PROVE v * v <= 10000
             OBVIOUS
       <2> QED  BY <1>9, <2>1, <2>2
<1> QED  BY <1>10, VariationBounds

\* The terms of the score that do not need a rhythm reach half of it at most.
LEMMA ScoreOfRecord ==
    ASSUME NEW record \in FlowRecord, Packets(record) > 0, SamplesSoFar(record),
           Settled(record)
    PROVE  /\ MlScore(record, Second) \in 0 .. MaxScore
           /\ IsAnomalous(record, Second) =>
                 Packets(record) > 2 /\ record.last_seen > record.first_seen
<1>1. /\ record.fwd \in Nat /\ record.rev \in Nat
      /\ record.fwd_bytes \in Nat /\ record.rev_bytes \in Nat
      /\ record.first_seen \in Nat /\ record.last_seen \in Nat
      /\ record.iats \in Seq(Nat)
      BY DEF FlowRecord
<1> DEFINE b == Beaconing(record.iats)
           a == Asymmetry(record.fwd_bytes, record.rev_bytes)
           f == FlagAnomaly(record.flags)
           c == ConnRate(record.fwd + record.rev, record.first_seen, record.last_seen, Second)
<1>2. b \in Nat /\ b <= 100 /\ a \in Nat /\ a <= 100 /\ f \in Nat /\ f <= 100
      BY <1>1, BeaconingBounds, AsymmetryBounds, FlagAnomalyBounds
<1>3. c \in Nat /\ c <= 1000
      BY <1>1, RateOfRecord
<1>4. MlScore(record, Second) = 25 * b + 15 * a + 25 * f + c
      BY DEF MlScore
<1>5. b # 0 => Len(record.iats) >= 2
      BY <1>1 DEF Beaconing
<1>6. b # 0 => ~(record.last_seen <= record.first_seen)
      BY <1>1, OneGapIsNoBeacon DEF Settled
<1> HIDE DEF b, a, f, c
<1>7. MlScore(record, Second) \in 0 .. MaxScore
      BY <1>2, <1>3, <1>4 DEF MaxScore
<1>8. IsAnomalous(record, Second) => b # 0
      BY <1>2, <1>3, <1>4 DEF IsAnomalous, MaxScore
<1>9. Len(record.iats) >= 2 => Packets(record) > 2
      <2>1. /\ Packets(record) \in Nat /\ MaxSamples \in Nat
            /\ Len(record.iats) = Min({Packets(record) - 1, MaxSamples})
            BY <1>1, FlowAssumption DEF SamplesSoFar, Packets
      <2>2. Min({Packets(record) - 1, MaxSamples}) <= Packets(record) - 1
            BY <2>1, MinOfTwo
      <2> QED  BY <2>1, <2>2
<1> QED  BY <1>1, <1>5, <1>6, <1>7, <1>8, <1>9

\* No flow is reported as anomalous on its flags, its bytes and its rate
\* alone, whichever packets it has had: it takes gaps that repeat.
THEOREM AnomaliesHaveRhythm == Spec => []AnomalyNeedsRhythm
<1>1. ASSUME RInv PROVE AnomalyNeedsRhythm
      BY <1>1, ScoreOfRecord
      DEF RInv, RecordOK, IInv, TableTypeOK, NoneIsEmpty, SamplesKept, AnomalyNeedsRhythm
<1> QED  BY <1>1, RecordInvariance, PTL

=============================================================================
