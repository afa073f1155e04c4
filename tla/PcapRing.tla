------------------------------ MODULE PcapRing ------------------------------
(* The forensic packet ring of src/src/pcap_store/ring_buffer.rs.           *)
(*                                                                          *)
(* push evicts packet after packet until the new one fits, then stores it,  *)
(* all under the pcap_ring mutex.  The eviction loop is kept as the loop it *)
(* is: while `incoming` holds a packet the mutex is taken and only the next *)
(* step of that push can happen.  Two history variables, `pushed` and       *)
(* `offset`, record what arrived, so that the ring's bookkeeping can be     *)
(* compared with it; no action reads them.                                  *)
EXTENDS Integers, Sequences

CONSTANTS
    Packet,        \* the packets the capture thread may hand over
    DataLen,       \* DataLen[p] is the number of bytes of p
    NoPacket,      \* no push is under way
    BufferSizes,   \* the byte capacities the ring may be created with
    FirstCapacity, \* Vec::with_capacity(FirstCapacity), 1024 in the code
    MaxGrowth,     \* how far Vec::push may grow the vector beyond its length
    MaxPushes      \* bound of the model: pushes in a behaviour

ASSUME RingAssumption ==
    /\ DataLen \in [Packet -> Nat]
    /\ NoPacket \notin Packet
    /\ BufferSizes \subseteq Nat
    /\ FirstCapacity \in Nat
    /\ MaxGrowth \in Nat
    /\ MaxPushes \in Nat

VARIABLES
    entries,      \* entries: Vec<RingEntry>, entries[i + 1] for index i
    vec_capacity, \* entries.capacity()
    write_pos,
    count,
    total_bytes,
    max_bytes,
    incoming,     \* the packet push is storing
    pcap_file,    \* what the last flush_to_pcap left on disk
    pushed,       \* history: every packet stored, in order
    offset        \* history: offset[n + 1] is the size of the first n of them

ring == <<entries, vec_capacity, write_pos, count, total_bytes, max_bytes>>
vars == <<ring, incoming, pcap_file, pushed, offset>>

HeaderBytes == 16    \* the pcap record header

EntrySize(p) == DataLen[p] + HeaderBytes

Larger(a, b) == IF a >= b THEN a ELSE b
Smaller(a, b) == IF a <= b THEN a ELSE b
SaturatingSub(a, b) == IF a >= b THEN a - b ELSE 0

Init ==
    /\ entries = << >>
    /\ vec_capacity = FirstCapacity
    /\ write_pos = 0
    /\ count = 0
    /\ total_bytes = 0
    /\ max_bytes \in BufferSizes
    /\ incoming = NoPacket
    /\ pcap_file = [result |-> "none", packets |-> << >>]
    /\ pushed = << >>
    /\ offset = << 0 >>

-----------------------------------------------------------------------------
(* push *)

BeginPush(p) ==
    /\ incoming = NoPacket
    /\ Len(pushed) < MaxPushes
    /\ incoming' = p
    /\ UNCHANGED <<ring, pcap_file, pushed, offset>>

OldestIdx ==
    IF write_pos >= count THEN write_pos - count
                          ELSE Len(entries) - (count - write_pos)

OldestEntry == entries[OldestIdx + 1]

\* Mutant of MustEvict: a packet larger than the ring evicts from an empty one.
MustEvictEmpty(p) == total_bytes + EntrySize(p) > max_bytes

\* Mutant of MustEvict: a packet that fills the ring exactly evicts one more.
MustEvictEarly(p) == total_bytes + EntrySize(p) >= max_bytes /\ count > 0

MustEvict(p) == total_bytes + EntrySize(p) > max_bytes /\ count > 0

BytesAfterEviction == SaturatingSub(total_bytes, EntrySize(OldestEntry))

\* One turn of the eviction loop.  The evicted entry stays in the vector.
EvictOldest ==
    /\ incoming # NoPacket
    /\ MustEvict(incoming)
    /\ total_bytes' = BytesAfterEviction
    /\ count' = count - 1
    /\ UNCHANGED <<entries, vec_capacity, write_pos, max_bytes,
                   incoming, pcap_file, pushed, offset>>

Place(p) ==
    IF write_pos < Len(entries) THEN [entries EXCEPT ![write_pos + 1] = p]
                                ELSE Append(entries, p)

\* Vec reallocates only when it is full; by how much is the allocator's choice.
Capacities(n) == IF n <= vec_capacity THEN {vec_capacity} ELSE n .. n + MaxGrowth

Advance(capacity, length) == (write_pos + 1) % Larger(capacity, length + 1)

Store ==
    /\ incoming # NoPacket
    /\ ~MustEvict(incoming)
    /\ entries' = Place(incoming)
    /\ vec_capacity' \in Capacities(Len(entries'))
    /\ total_bytes' = total_bytes + EntrySize(incoming)
    /\ count' = Smaller(count + 1, Len(entries'))
    /\ write_pos' = Advance(vec_capacity', Len(entries'))
    /\ incoming' = NoPacket
    /\ pushed' = Append(pushed, incoming)
    /\ offset' = Append(offset, offset[Len(offset)] + EntrySize(incoming))
    /\ UNCHANGED <<max_bytes, pcap_file>>

-----------------------------------------------------------------------------
(* flush_to_pcap *)

FlushStart == IF count < Len(entries) THEN 0 ELSE write_pos

\* Mutant of FlushLength: the last packet is left out.
FlushLengthShort == Larger(Smaller(count, Len(entries)) - 1, 0)

FlushLength == Smaller(count, Len(entries))

Flushed == [i \in 1 .. FlushLength |->
              entries[((FlushStart + i - 1) % Len(entries)) + 1]]

FlushSucceeds ==
    /\ incoming = NoPacket
    /\ pcap_file' = [result |-> "ok", packets |-> Flushed]
    /\ UNCHANGED <<ring, incoming, pushed, offset>>

\* File::create fails, or a write_all does after `written` whole packets.
FlushFails ==
    /\ incoming = NoPacket
    /\ \E written \in 0 .. Larger(FlushLength - 1, 0) :
          pcap_file' = [result |-> "err", packets |-> SubSeq(Flushed, 1, written)]
    /\ UNCHANGED <<ring, incoming, pushed, offset>>

-----------------------------------------------------------------------------
Push == (\E p \in Packet : BeginPush(p)) \/ EvictOldest \/ Store

Flush == FlushSucceeds \/ FlushFails

Next == Push \/ Flush

Spec == Init /\ [][Next]_vars

-----------------------------------------------------------------------------
(* Properties *)

File == [result : {"none", "ok", "err"}, packets : Seq(Packet)]

\* Every variable keeps its type, the counters stay within the vector, and push
\* never panics: whenever its loop turns, oldest_idx is an index of the vector.
TypeOK ==
    /\ entries \in Seq(Packet)
    /\ vec_capacity \in Nat
    /\ write_pos \in 0 .. Len(entries)
    /\ count \in 0 .. Len(entries)
    /\ total_bytes \in Nat
    /\ max_bytes \in Nat
    /\ incoming \in Packet \cup {NoPacket}
    /\ pcap_file \in File
    /\ pushed \in Seq(Packet)
    /\ offset \in Seq(Nat)
    /\ incoming # NoPacket /\ MustEvict(incoming) =>
          OldestIdx \in 0 .. Len(entries) - 1

\* Arrivals dropped from the ring so far.
Dropped == Len(pushed) - count

\* Bytes of the packet being pushed.
Pending == IF incoming = NoPacket THEN 0 ELSE EntrySize(incoming)

\* The `count` newest packets: what the ring claims to hold.
LiveWindow == SubSeq(pushed, Dropped + 1, Len(pushed))

\* In the eviction loop oldest_idx is an index of the vector and names the
\* oldest packet that is still counted, at every turn of the loop: push never
\* panics on entries[oldest_idx] and never subtracts the size of another packet.
EvictsOldestLive ==
    count > 0 => /\ OldestIdx \in 0 .. Len(entries) - 1
                 /\ OldestEntry = pushed[Dropped + 1]

\* bytes_used is exactly the size of the counted packets, headers included,
\* at every turn of the loop; the saturating subtraction hides no drift.
BytesExact == total_bytes = offset[Len(pushed) + 1] - offset[Dropped + 1]

\* After a push the ring is within max_bytes unless a single packet that is
\* larger than the whole ring is all it holds.
BytesBounded ==
    incoming = NoPacket => total_bytes <= max_bytes \/ count = 1

\* push evicts no more than it must: the newest packet that was dropped would
\* not have fitted beside those that were kept.
KeepsWhatFits ==
    Dropped > 0 =>
        total_bytes + Pending + EntrySize(pushed[Dropped]) > max_bytes

\* A flushed file holds consecutive arrivals in their order of arrival, whole
\* or cut short by an error: flush_to_pcap's modular index never tears a
\* window in two nor mixes old packets with new ones.
FlushInOrder ==
    \E from \in 0 .. Len(pushed) - Len(pcap_file.packets) :
        pcap_file.packets =
            SubSeq(pushed, from + 1, from + Len(pcap_file.packets))

\* Until the first eviction a successful flush writes everything that arrived.
FlushCompleteUntilEviction ==
    [][pcap_file' # pcap_file /\ pcap_file'.result = "ok" /\ Dropped = 0
          => pcap_file'.packets = pushed]_vars

\* What src/src/pcap_store/mod.rs promises, "On alert trigger, the buffer
\* snapshot is written as a PCAP file": the file holds the packets the ring
\* counts.  The code breaks it as soon as one packet was evicted.
FlushWritesSnapshot ==
    [][pcap_file' # pcap_file /\ pcap_file'.result = "ok"
          => pcap_file'.packets = LiveWindow]_vars

-----------------------------------------------------------------------------
(* Refinement *)

\* The bytes that arrived after the first k packets.
Suffix(k) == offset[Len(offset)] - offset[k + 1]

\* All but the first k packets are the longest run that fits, or the newest.
Window(k) ==
    /\ k \in 0 .. Len(pushed) - 1
    /\ Suffix(k) <= max_bytes \/ k = Len(pushed) - 1
    /\ \A j \in 0 .. k - 1 : ~(Suffix(j) <= max_bytes)

\* Outside the loop of a push, the ring has dropped what it does not count;
\* inside, what it did not count when the push began.
Settled ==
    IF incoming = NoPacket \/ pushed = << >>
    THEN Dropped
    ELSE CHOOSE k \in 0 .. Len(pushed) - 1 : Window(k)

Evidence == INSTANCE EvidenceWindow
    WITH Size <- EntrySize, Limits <- BufferSizes, limit <- max_bytes,
         arrived <- pushed, ends <- offset, dropped <- Settled,
         saved <- pcap_file.packets

\* To an observer that takes the mutex, push keeps the longest run of newest
\* packets that fits in max_bytes, or the newest alone, however many turns its
\* eviction loop takes: it never exceeds the limit with two packets or more,
\* and never evicts one that would have fitted.
KeepsEvidenceWindow == Evidence!Spec

=============================================================================
