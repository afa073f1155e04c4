--------------------------- MODULE PcapRingProofs ---------------------------
(* Proofs about PcapRing for every set of packets, every packet size, every *)
(* ring capacity and every growth policy of the vector: its invariants, and *)
(* that it implements EvidenceWindow.                                       *)
EXTENDS PcapRing, TLAPS

\* The sets the variables are drawn from.
Types ==
    /\ entries \in Seq(Packet)
    /\ vec_capacity \in Nat
    /\ write_pos \in Nat
    /\ count \in Nat
    /\ total_bytes \in Nat
    /\ max_bytes \in Nat
    /\ incoming \in Packet \cup {NoPacket}
    /\ pcap_file \in File
    /\ pushed \in Seq(Packet)
    /\ offset \in Seq(Nat)

\* offset is the running size of the arrivals.
OffsetsRun ==
    /\ Len(offset) = Len(pushed) + 1
    /\ \A n \in 1 .. Len(pushed) : offset[n + 1] = offset[n] + EntrySize(pushed[n])
    /\ \A m, n \in 1 .. Len(offset) : m <= n => offset[m] <= offset[n]

\* write_pos chases the end of the vector and never wraps: entries are never
\* overwritten, so the vector is the whole history of pushes.
NeverWraps ==
    /\ write_pos = Len(entries)
    /\ entries = pushed
    /\ count <= Len(entries)

\* The inductive invariant: the listed invariants are only preserved together,
\* and only because the vector is the history (NeverWraps).
IInv ==
    /\ Types
    /\ NeverWraps
    /\ OffsetsRun
    /\ BytesExact
    /\ BytesBounded
    /\ KeepsWhatFits

\* The size of a packet's record is a positive number.
LEMMA EntrySizeType == \A p \in Packet : EntrySize(p) \in Nat /\ EntrySize(p) > 0
  BY RingAssumption DEF EntrySize, HeaderBytes

\* A new ring satisfies the invariant.
LEMMA InitEstablishes == Init => IInv
  <1> SUFFICES ASSUME Init PROVE IInv
    OBVIOUS
  <1>1. Types
    <2>1. pcap_file \in File
      BY DEF Init, File
    <2>2. max_bytes \in Nat /\ vec_capacity \in Nat
      BY RingAssumption DEF Init
    <2> QED
      BY <2>1, <2>2 DEF Init, Types
  <1>2. NeverWraps /\ OffsetsRun
    BY DEF Init, NeverWraps, OffsetsRun
  <1>3. BytesExact /\ BytesBounded /\ KeepsWhatFits
    <2>1. Dropped = 0 /\ Len(pushed) = 0
      BY DEF Init, Dropped
    <2>2. total_bytes = 0 /\ offset[1] = 0 /\ max_bytes \in Nat
      BY RingAssumption DEF Init
    <2> QED
      BY <2>1, <2>2 DEF BytesExact, BytesBounded, KeepsWhatFits
  <1> QED
    BY <1>1, <1>2, <1>3 DEF IInv

\* The ranges of the ring's counters, and what they have to do with each other.
LEMMA Numbers ==
    ASSUME IInv
    PROVE  /\ Len(pushed) \in Nat
           /\ Len(offset) = Len(pushed) + 1
           /\ count \in Nat /\ count <= Len(pushed)
           /\ Dropped \in Nat /\ Dropped = Len(pushed) - count
           /\ total_bytes \in Nat /\ max_bytes \in Nat
  <1>1. /\ pushed \in Seq(Packet) /\ count \in Nat
        /\ total_bytes \in Nat /\ max_bytes \in Nat
    BY DEF IInv, Types
  <1>2. Len(offset) = Len(pushed) + 1 /\ count <= Len(pushed)
    BY DEF IInv, NeverWraps, OffsetsRun
  <1>3. Len(pushed) \in Nat
    BY <1>1
  <1>4. Dropped \in Nat /\ Dropped = Len(pushed) - count
    BY <1>1, <1>2, <1>3 DEF Dropped
  <1> QED
    BY <1>1, <1>2, <1>3, <1>4

\* What the two histories hold.
LEMMA Contents ==
    ASSUME IInv
    PROVE  /\ pushed \in Seq(Packet)
           /\ \A n \in 1 .. Len(pushed) : pushed[n] \in Packet
           /\ offset \in Seq(Nat)
           /\ \A n \in 1 .. Len(pushed) + 1 : offset[n] \in Nat
  <1>1. pushed \in Seq(Packet) /\ offset \in Seq(Nat)
    BY DEF IInv, Types
  <1> QED
    BY <1>1, Numbers

\* Whenever something is counted, the loop of push looks at the oldest packet
\* that is, and its bytes are part of total_bytes.
LEMMA OldestIsLive ==
    ASSUME IInv, count > 0
    PROVE  /\ OldestIdx = Dropped
           /\ Dropped + 1 \in 1 .. Len(pushed)
           /\ OldestEntry = pushed[Dropped + 1]
           /\ EntrySize(OldestEntry) \in Nat
           /\ total_bytes >= EntrySize(OldestEntry)
           /\ offset[Dropped + 2] = offset[Dropped + 1] + EntrySize(OldestEntry)
  <1>1. OldestIdx = Dropped /\ Dropped + 1 \in 1 .. Len(pushed)
    BY Numbers DEF IInv, NeverWraps, OldestIdx
  <1>2. OldestEntry = pushed[Dropped + 1] /\ EntrySize(OldestEntry) \in Nat
    BY <1>1, Contents, EntrySizeType DEF IInv, NeverWraps, OldestEntry
  <1>3. offset[Dropped + 2] = offset[Dropped + 1] + EntrySize(OldestEntry)
    <2>1. offset[(Dropped + 1) + 1] =
             offset[Dropped + 1] + EntrySize(pushed[Dropped + 1])
      BY <1>1 DEF IInv, OffsetsRun
    <2>2. (Dropped + 1) + 1 = Dropped + 2
      BY Numbers
    <2> QED
      BY <1>2, <2>1, <2>2
  <1>4. offset[Dropped + 2] <= offset[Len(pushed) + 1]
    <2>1. /\ Dropped + 2 \in 1 .. Len(offset)
          /\ Len(pushed) + 1 \in 1 .. Len(offset)
          /\ Dropped + 2 <= Len(pushed) + 1
      BY <1>1, Numbers
    <2> QED
      BY <2>1 DEF IInv, OffsetsRun
  <1>5. /\ offset[Dropped + 1] \in Nat
        /\ offset[Dropped + 2] \in Nat
        /\ offset[Len(pushed) + 1] \in Nat
    <2>1. /\ Dropped + 1 \in 1 .. Len(pushed) + 1
          /\ Dropped + 2 \in 1 .. Len(pushed) + 1
          /\ Len(pushed) + 1 \in 1 .. Len(pushed) + 1
      <3>1. Dropped \in Nat /\ Len(pushed) \in Nat
        BY Numbers
      <3>2. Dropped + 1 <= Len(pushed)
        BY <1>1, <3>1
      <3> QED
        BY <3>1, <3>2
    <2>2. \A n \in 1 .. Len(pushed) + 1 : offset[n] \in Nat
      BY Contents
    <2> QED
      BY <2>1, <2>2
  <1>6. total_bytes = offset[Len(pushed) + 1] - offset[Dropped + 1]
    BY DEF IInv, BytesExact
  <1>7. total_bytes >= EntrySize(OldestEntry)
    BY <1>2, <1>3, <1>4, <1>5, <1>6
  <1> QED
    BY <1>1, <1>2, <1>3, <1>7

\* One turn of the eviction loop preserves the invariant.
LEMMA EvictPreserves == ASSUME IInv, EvictOldest PROVE IInv'
  <1>1. /\ count > 0 /\ count' = count - 1
        /\ incoming \in Packet /\ incoming' = incoming
        /\ total_bytes + EntrySize(incoming) > max_bytes
        /\ UNCHANGED <<entries, vec_capacity, write_pos, max_bytes,
                       pcap_file, pushed, offset>>
    BY DEF EvictOldest, MustEvict, IInv, Types
  <1> DEFINE gone == EntrySize(OldestEntry)
  <1>2. gone \in Nat /\ total_bytes >= gone
    BY <1>1, OldestIsLive
  <1>3. total_bytes' = total_bytes - gone
    BY <1>2, Numbers DEF EvictOldest, BytesAfterEviction, SaturatingSub
  <1>4. Dropped' = Dropped + 1
    <2>1. Dropped' = Len(pushed) - (count - 1)
      BY <1>1 DEF Dropped
    <2> QED
      BY <2>1, Numbers
  <1>5. pushed[Dropped + 1] = OldestEntry
    BY <1>1, OldestIsLive
  <1> HIDE DEF gone
  <1>6. Types'
    BY <1>1, <1>2, <1>3, Numbers DEF IInv, Types
  <1>7. NeverWraps' /\ OffsetsRun'
    BY <1>1, Numbers DEF IInv, NeverWraps, OffsetsRun
  <1>8. BytesExact'
    <2>1. offset'[Dropped' + 1] = offset[Dropped + 1] + gone
      <3>1. Dropped' + 1 = Dropped + 2
        BY <1>4, Numbers
      <3>2. offset' = offset
        BY <1>1
      <3> QED
        BY <1>1, <3>1, <3>2, OldestIsLive DEF gone
    <2>2. offset[Len(pushed) + 1] \in Nat /\ offset[Dropped + 1] \in Nat
      <3>1. /\ Len(pushed) + 1 \in 1 .. Len(pushed) + 1
            /\ Dropped + 1 \in 1 .. Len(pushed) + 1
        BY Numbers
      <3> QED
        BY <3>1, Contents
    <2>3. total_bytes = offset[Len(pushed) + 1] - offset[Dropped + 1]
      BY DEF IInv, BytesExact
    <2>4. total_bytes' = offset'[Len(pushed') + 1] - offset'[Dropped' + 1]
      BY <1>1, <1>2, <1>3, <2>1, <2>2, <2>3
    <2> QED
      BY <2>4 DEF BytesExact
  <1>9. BytesBounded'
    BY <1>1, RingAssumption DEF BytesBounded
  <1>10. KeepsWhatFits'
    <2>1. EntrySize(pushed'[Dropped']) = gone
      BY <1>1, <1>4, <1>5 DEF gone
    <2>2. Pending' = EntrySize(incoming) /\ EntrySize(incoming) \in Nat
      BY <1>1, EntrySizeType, RingAssumption DEF Pending
    <2>3. total_bytes' + Pending' + EntrySize(pushed'[Dropped']) > max_bytes'
      BY <1>1, <1>2, <1>3, <2>1, <2>2, Numbers
    <2> QED
      BY <2>3 DEF KeepsWhatFits
  <1> QED
    BY <1>6, <1>7, <1>8, <1>9, <1>10 DEF IInv

\* Storing a packet appends it: the vector never overwrites and never wraps.
LEMMA StoreAppends ==
    ASSUME IInv, Store
    PROVE  /\ incoming \in Packet
           /\ entries' = Append(entries, incoming)
           /\ pushed' = Append(pushed, incoming)
           /\ vec_capacity' \in Nat
           /\ write_pos' = write_pos + 1
           /\ count' = count + 1
  <1>1. incoming \in Packet /\ pushed' = Append(pushed, incoming)
    BY DEF IInv, Types, Store
  <1>2. /\ entries \in Seq(Packet) /\ Len(entries) \in Nat
        /\ write_pos = Len(entries) /\ count <= Len(entries) /\ count \in Nat
        /\ vec_capacity \in Nat
    BY DEF IInv, Types, NeverWraps
  <1>3. entries' = Append(entries, incoming)
    BY <1>2 DEF Place, Store
  <1>4. Len(entries') = Len(entries) + 1
    BY <1>1, <1>2, <1>3
  <1>5. vec_capacity' \in Nat
    <2>1. vec_capacity' \in Capacities(Len(entries) + 1)
      BY <1>4 DEF Store
    <2> QED
      BY <1>2, <1>4, <2>1, RingAssumption DEF Capacities
  <1>6. write_pos' = write_pos + 1
    <2> DEFINE modulus == Larger(vec_capacity', Len(entries') + 1)
    <2>1. modulus \in Nat /\ modulus > write_pos + 1 /\ write_pos \in Nat
      BY <1>2, <1>4, <1>5 DEF Larger
    <2>2. write_pos' = (write_pos + 1) % modulus
      BY DEF Advance, Store
    <2> HIDE DEF modulus
    <2> QED
      BY <2>1, <2>2
  <1>7. count' = count + 1
    BY <1>2, <1>4 DEF Smaller, Store
  <1> QED
    BY <1>1, <1>3, <1>5, <1>6, <1>7

\* The step that ends push preserves the invariant.
LEMMA StorePreserves == ASSUME IInv, Store PROVE IInv'
  <1> DEFINE size == EntrySize(incoming)
  <1>1. /\ incoming \in Packet /\ incoming' = NoPacket /\ incoming # NoPacket
        /\ total_bytes' = total_bytes + size
        /\ offset' = Append(offset, offset[Len(offset)] + size)
        /\ UNCHANGED <<max_bytes, pcap_file>>
    BY StoreAppends DEF Store
  <1>2. size \in Nat
    BY <1>1, EntrySizeType
  <1>3. total_bytes + size <= max_bytes \/ count = 0
    <2>1. ~(total_bytes + size > max_bytes /\ count > 0)
      BY DEF Store, MustEvict
    <2> HIDE DEF size
    <2> QED
      BY <1>2, <2>1, Numbers
  <1> HIDE DEF size
  <1>4. /\ Len(pushed') = Len(pushed) + 1
        /\ pushed' \in Seq(Packet)
        /\ \A n \in 1 .. Len(pushed) : pushed'[n] = pushed[n]
        /\ pushed'[Len(pushed) + 1] = incoming
    <2>1. pushed' = Append(pushed, incoming) /\ pushed \in Seq(Packet)
      BY StoreAppends, Contents
    <2> QED
      BY <1>1, <2>1
  <1>5. /\ Len(offset') = Len(pushed) + 2
        /\ offset' \in Seq(Nat)
        /\ \A n \in 1 .. Len(pushed) + 1 : offset'[n] = offset[n]
        /\ offset'[Len(pushed) + 2] = offset[Len(pushed) + 1] + size
    <2>1. /\ offset \in Seq(Nat) /\ Len(offset) = Len(pushed) + 1
          /\ Len(pushed) \in Nat
      BY Numbers, Contents
    <2> DEFINE end == offset[Len(pushed) + 1] + size
    <2>2. offset' = Append(offset, end)
      BY <1>1, <2>1
    <2>3. end \in Nat
      BY <1>2, <2>1
    <2> HIDE DEF end
    <2>4. /\ Len(offset') = Len(pushed) + 2
          /\ offset' \in Seq(Nat)
          /\ \A n \in 1 .. Len(pushed) + 1 : offset'[n] = offset[n]
          /\ offset'[Len(pushed) + 2] = end
      BY <2>1, <2>2, <2>3
    <2> QED
      BY <2>4 DEF end
  <1>6. Types'
    <2>1. pcap_file' \in File
      BY <1>1 DEF IInv, Types
    <2>2. entries' \in Seq(Packet)
      <3>1. entries \in Seq(Packet)
        BY DEF IInv, Types
      <3> QED
        BY <3>1, StoreAppends
    <2>3. write_pos' \in Nat /\ count' \in Nat
      BY StoreAppends DEF IInv, Types
    <2>4. total_bytes' \in Nat /\ max_bytes' \in Nat
      BY <1>1, <1>2, Numbers
    <2> QED
      BY <1>1, <1>4, <1>5, <2>1, <2>2, <2>3, <2>4, StoreAppends DEF Types
  <1>7. NeverWraps'
    <2>1. entries' = pushed'
      BY StoreAppends DEF IInv, NeverWraps
    <2>2. write_pos' = Len(pushed) + 1 /\ count' <= Len(pushed) + 1
      BY StoreAppends, Numbers DEF IInv, NeverWraps
    <2> QED
      BY <1>4, <2>1, <2>2 DEF NeverWraps
  <1>8. OffsetsRun'
    <2>1. \A n \in 1 .. Len(pushed') :
             offset'[n + 1] = offset'[n] + EntrySize(pushed'[n])
      <3> SUFFICES ASSUME NEW n \in 1 .. Len(pushed')
                   PROVE  offset'[n + 1] = offset'[n] + EntrySize(pushed'[n])
        OBVIOUS
      <3>1. CASE n = Len(pushed) + 1
        <4>1. pushed'[n] = incoming
          BY <1>4, <3>1
        <4>2. n + 1 = Len(pushed) + 2
          BY <3>1, Numbers
        <4> QED
          <5>1. offset'[n + 1] = offset[Len(pushed) + 1] + size
            BY <1>5, <4>2
          <5>2. offset'[n] = offset[Len(pushed) + 1]
            <6>1. Len(pushed) + 1 \in 1 .. Len(pushed) + 1
              BY Numbers
            <6> QED
              BY <1>5, <3>1, <6>1
          <5> QED
            BY <4>1, <5>1, <5>2 DEF size
      <3>2. CASE n \in 1 .. Len(pushed)
        <4>1. pushed'[n] = pushed[n]
          BY <1>4, <3>2
        <4>2. offset'[n] = offset[n] /\ offset'[n + 1] = offset[n + 1]
          <5>1. n \in 1 .. Len(pushed) + 1 /\ n + 1 \in 1 .. Len(pushed) + 1
            BY <3>2, Numbers
          <5> QED
            BY <1>5, <5>1
        <4> QED
          BY <3>2, <4>1, <4>2 DEF IInv, OffsetsRun
      <3> QED
        BY <1>4, <3>1, <3>2, Numbers
    <2>2. \A m, n \in 1 .. Len(offset') : m <= n => offset'[m] <= offset'[n]
      <3>1. \A m, n \in 1 .. Len(pushed) + 1 : m <= n => offset[m] <= offset[n]
        BY Numbers DEF IInv, OffsetsRun
      <3>2. \A m \in 1 .. Len(pushed) + 1 : offset[m] <= offset[Len(pushed) + 1]
        BY <3>1, Numbers
      <3> SUFFICES ASSUME NEW m \in 1 .. Len(pushed) + 2,
                          NEW n \in 1 .. Len(pushed) + 2,
                          m <= n
                   PROVE  offset'[m] <= offset'[n]
        BY <1>5
      <3>3. \A k \in 1 .. Len(pushed) + 1 : offset[k] \in Nat
        BY Contents
      <3>4. CASE n = Len(pushed) + 2
        <4>1. CASE m = n
          <5>1. Len(pushed) + 1 \in 1 .. Len(pushed) + 1
            BY Numbers
          <5> QED
            BY <1>2, <1>5, <3>3, <3>4, <4>1, <5>1
        <4>2. CASE m # n
          <5>1. /\ m \in 1 .. Len(pushed) + 1
                /\ Len(pushed) + 1 \in 1 .. Len(pushed) + 1
            BY <3>4, <4>2, Numbers
          <5>2. /\ offset'[m] = offset[m] /\ offset[m] \in Nat
                /\ offset[m] <= offset[Len(pushed) + 1]
                /\ offset[Len(pushed) + 1] \in Nat
            BY <1>5, <3>2, <3>3, <5>1
          <5> QED
            BY <1>2, <1>5, <3>4, <5>2
        <4> QED
          BY <4>1, <4>2
      <3>5. CASE n # Len(pushed) + 2
        <4>1. m \in 1 .. Len(pushed) + 1 /\ n \in 1 .. Len(pushed) + 1
          BY <3>5, Numbers
        <4> QED
          BY <1>5, <3>1, <4>1
      <3> QED
        BY <3>4, <3>5
    <2>3. Len(offset') = Len(pushed') + 1
      BY <1>4, <1>5, Numbers
    <2> QED
      BY <2>1, <2>2, <2>3 DEF OffsetsRun
  <1>9. Dropped' = Dropped
    <2>1. Dropped' = Len(pushed') - count'
      BY DEF Dropped
    <2> QED
      BY <1>4, <2>1, StoreAppends, Numbers
  <1>10. BytesExact'
    <2>1. /\ offset'[Dropped' + 1] = offset[Dropped + 1]
          /\ offset'[Len(pushed') + 1] = offset[Len(pushed) + 1] + size
      <3>1. Dropped + 1 \in 1 .. Len(pushed) + 1
        BY Numbers
      <3>2. Len(pushed') + 1 = Len(pushed) + 2
        BY <1>4, Numbers
      <3> QED
        BY <1>5, <1>9, <3>1, <3>2
    <2>2. /\ offset[Len(pushed) + 1] \in Nat
          /\ offset[Dropped + 1] \in Nat
          /\ total_bytes = offset[Len(pushed) + 1] - offset[Dropped + 1]
      <3>1. /\ Len(pushed) + 1 \in 1 .. Len(pushed) + 1
            /\ Dropped + 1 \in 1 .. Len(pushed) + 1
        BY Numbers
      <3> QED
        BY <3>1, Contents DEF IInv, BytesExact
    <2>3. total_bytes' = offset'[Len(pushed') + 1] - offset'[Dropped' + 1]
      <3> DEFINE hi == offset[Len(pushed) + 1]
                 lo == offset[Dropped + 1]
      <3>1. /\ hi \in Nat /\ lo \in Nat /\ total_bytes = hi - lo
            /\ total_bytes' = total_bytes + size
            /\ offset'[Len(pushed') + 1] = hi + size
            /\ offset'[Dropped' + 1] = lo
        BY <1>1, <2>1, <2>2
      <3> HIDE DEF hi, lo
      <3> QED
        BY <1>2, <3>1
    <2> QED
      BY <2>3 DEF BytesExact
  <1>11. BytesBounded'
    BY <1>1, <1>3, StoreAppends, Numbers DEF BytesBounded
  <1>12. KeepsWhatFits'
    <2> SUFFICES ASSUME Dropped' > 0
                 PROVE  total_bytes' + Pending' + EntrySize(pushed'[Dropped'])
                            > max_bytes'
      BY DEF KeepsWhatFits
    <2>1. Dropped \in 1 .. Len(pushed)
      BY <1>9, Numbers
    <2>2. pushed'[Dropped'] = pushed[Dropped]
      BY <1>4, <1>9, <2>1
    <2>3. EntrySize(pushed[Dropped]) \in Nat
      BY <2>1, Contents, EntrySizeType
    <2>4. Pending = size /\ Pending' = 0
      BY <1>1 DEF Pending, size
    <2>5. total_bytes + Pending + EntrySize(pushed[Dropped]) > max_bytes
      BY <1>9 DEF IInv, KeepsWhatFits
    <2>6. EntrySize(pushed'[Dropped']) = EntrySize(pushed[Dropped])
      BY <2>2
    <2> QED
      BY <1>1, <1>2, <2>3, <2>4, <2>5, <2>6, Numbers
  <1> QED
    BY <1>6, <1>7, <1>8, <1>10, <1>11, <1>12 DEF IInv


\* Flushing only writes the file.
LEMMA FlushPreserves == ASSUME IInv, Flush PROVE IInv'
  <1>1. UNCHANGED <<ring, incoming, pushed, offset>>
    BY DEF Flush, FlushSucceeds, FlushFails
  <1>2. pcap_file' \in File
    <2>1. Flushed \in Seq(Packet)
      <3> DEFINE n == FlushLength
      <3>1. /\ n \in Nat /\ n <= Len(entries)
            /\ entries \in Seq(Packet) /\ Len(entries) \in Nat
            /\ FlushStart \in Nat
        BY DEF FlushLength, FlushStart, Smaller, IInv, Types
      <3> HIDE DEF n
      <3>2. \A i \in 1 .. n :
               entries[((FlushStart + i - 1) % Len(entries)) + 1] \in Packet
        <4> SUFFICES ASSUME NEW i \in 1 .. n
                     PROVE  entries[((FlushStart + i - 1) % Len(entries)) + 1]
                                \in Packet
          OBVIOUS
        <4> DEFINE k == FlushStart + i - 1
        <4>1. k \in Nat /\ Len(entries) > 0
          BY <3>1
        <4> HIDE DEF k
        <4>2. (k % Len(entries)) \in 0 .. Len(entries) - 1
          BY <3>1, <4>1
        <4>3. (k % Len(entries)) + 1 \in 1 .. Len(entries)
          BY <3>1, <4>2
        <4> QED
          BY <3>1, <4>3 DEF k
      <3>3. Flushed \in [1 .. n -> Packet]
        BY <3>2 DEF Flushed, n
      <3> QED
        BY <3>1, <3>3
    <2>2. CASE FlushSucceeds
      BY <2>1, <2>2 DEF FlushSucceeds, File
    <2>3. CASE FlushFails
      <3>1. PICK written \in 0 .. Larger(FlushLength - 1, 0) :
               pcap_file' = [result  |-> "err",
                             packets |-> SubSeq(Flushed, 1, written)]
        BY <2>3 DEF FlushFails
      <3>2. Len(Flushed) = FlushLength /\ FlushLength \in Nat
        BY <2>1 DEF Flushed, FlushLength, Smaller, IInv, Types
      <3>3. written \in Nat /\ written <= Len(Flushed)
        BY <3>1, <3>2 DEF Larger
      <3>4. SubSeq(Flushed, 1, written) \in Seq(Packet)
        BY <2>1, <3>3
      <3> QED
        BY <3>1, <3>4 DEF File
    <2> QED
      BY <2>2, <2>3 DEF Flush
  <1>3. Types'
    BY <1>1, <1>2 DEF IInv, Types, ring
  <1>4. NeverWraps' /\ OffsetsRun'
    BY <1>1 DEF IInv, NeverWraps, OffsetsRun, ring
  <1>5. BytesExact' /\ BytesBounded' /\ KeepsWhatFits'
    BY <1>1 DEF IInv, BytesExact, BytesBounded, KeepsWhatFits, Dropped, Pending,
                ring
  <1> QED
    BY <1>3, <1>4, <1>5 DEF IInv

\* Taking the mutex and a stuttering step change nothing the invariant is about,
\* except that a push is now pending.
LEMMA BeginPreserves ==
    ASSUME IInv, NEW p \in Packet, BeginPush(p) PROVE IInv'
  <1>1. incoming' = p /\ incoming = NoPacket /\ p # NoPacket
        /\ UNCHANGED <<ring, pcap_file, pushed, offset>>
    BY RingAssumption DEF BeginPush
  <1>2. Types'
    BY <1>1 DEF IInv, Types, ring
  <1>3. NeverWraps' /\ OffsetsRun' /\ BytesExact' /\ BytesBounded'
    BY <1>1 DEF IInv, NeverWraps, OffsetsRun, BytesExact, BytesBounded, Dropped, ring
  <1>4. KeepsWhatFits'
    <2> SUFFICES ASSUME Dropped > 0
                 PROVE  total_bytes + Pending' + EntrySize(pushed[Dropped])
                            > max_bytes
      BY <1>1 DEF KeepsWhatFits, Dropped, ring
    <2>1. Pending = 0 /\ Pending' = EntrySize(p) /\ EntrySize(p) \in Nat
      BY <1>1, EntrySizeType DEF Pending
    <2>2. EntrySize(pushed[Dropped]) \in Nat
      <3>1. Dropped \in 1 .. Len(pushed)
        BY Numbers
      <3> QED
        BY <3>1, Contents, EntrySizeType
    <2>3. total_bytes + Pending + EntrySize(pushed[Dropped]) > max_bytes
      BY DEF IInv, KeepsWhatFits
    <2> QED
      BY <2>1, <2>2, <2>3, Numbers
  <1> QED
    BY <1>2, <1>3, <1>4 DEF IInv

\* The invariant is inductive.
LEMMA NextPreserves == IInv /\ [Next]_vars => IInv'
  <1> SUFFICES ASSUME IInv, [Next]_vars PROVE IInv'
    OBVIOUS
  <1>1. ASSUME NEW p \in Packet, BeginPush(p) PROVE IInv'
    BY <1>1, BeginPreserves
  <1>2. CASE EvictOldest
    BY <1>2, EvictPreserves
  <1>3. CASE Store
    BY <1>3, StorePreserves
  <1>4. CASE Flush
    BY <1>4, FlushPreserves
  <1>5. CASE UNCHANGED vars
    BY <1>5 DEF vars, ring, IInv, Types, NeverWraps, OffsetsRun, BytesExact,
                BytesBounded, KeepsWhatFits, Dropped, Pending
  <1> QED
    BY <1>1, <1>2, <1>3, <1>4, <1>5 DEF Next, Push

\* Because write_pos never wraps, flush_to_pcap always starts at index 0 in
\* effect and writes the FIRST packets that were ever pushed, as many as the
\* ring counts: the live window only while nothing was evicted.
LEMMA FlushedIsOldest ==
    ASSUME IInv
    PROVE  /\ FlushLength = count
           /\ Flushed = [i \in 1 .. count |-> pushed[i]]
  <1>1. FlushLength = count
    BY Numbers DEF FlushLength, Smaller, IInv, NeverWraps
  <1>2. ASSUME NEW i \in 1 .. count
        PROVE  entries[((FlushStart + i - 1) % Len(entries)) + 1] = pushed[i]
    <2> DEFINE j == i - 1
               length == Len(entries)
    <2>1. /\ j \in Nat /\ j < length /\ length \in Nat
          /\ FlushStart = 0 \/ FlushStart = length
      BY Numbers DEF FlushStart, IInv, NeverWraps
    <2>2. FlushStart + i - 1 = FlushStart + j
      BY <2>1
    <2> HIDE DEF j, length
    <2>3. (0 + j) % length = j /\ (length + j) % length = j
      BY <2>1
    <2>4. (FlushStart + i - 1) % length = j
      BY <2>1, <2>2, <2>3
    <2> QED
      BY <2>4 DEF IInv, NeverWraps, j, length
  <1>3. Flushed = [i \in 1 .. count |-> pushed[i]]
    BY <1>1, <1>2 DEF Flushed
  <1> QED
    BY <1>1, <1>3

\* A flush, whole or cut short, writes a prefix of what was ever pushed.
LEMMA FlushWritesPrefix ==
    ASSUME IInv, Flush
    PROVE  \E n \in 0 .. count : pcap_file'.packets = SubSeq(pushed, 1, n)
  <1>1. Flushed = SubSeq(pushed, 1, count) /\ Len(Flushed) = count
    BY FlushedIsOldest, Numbers, Contents
  <1>2. PICK n \in Nat : n <= count /\ pcap_file'.packets = SubSeq(Flushed, 1, n)
    <2>1. CASE FlushSucceeds
      <3>1. pcap_file'.packets = Flushed
        BY <2>1 DEF FlushSucceeds
      <3>2. SubSeq(Flushed, 1, count) = Flushed
        BY <1>1, Numbers, Contents
      <3> QED
        BY <3>1, <3>2, Numbers
    <2>2. CASE FlushFails
      <3>1. PICK w \in 0 .. Larger(FlushLength - 1, 0) :
               pcap_file' = [result  |-> "err",
                             packets |-> SubSeq(Flushed, 1, w)]
        BY <2>2 DEF FlushFails
      <3>2. w \in Nat /\ w <= count
        BY <3>1, FlushedIsOldest, Numbers DEF Larger
      <3> QED
        BY <3>1, <3>2
    <2> QED
      BY <2>1, <2>2 DEF Flush
  <1>3. pcap_file'.packets = SubSeq(pushed, 1, n)
    BY <1>1, <1>2, Numbers, Contents
  <1> QED
    BY <1>2, <1>3, Numbers

\* Every reachable state of the ring satisfies the inductive invariant.
THEOREM InductiveInvariant == Spec => []IInv
  <1> QED
    BY InitEstablishes, NextPreserves, PTL DEF Spec

\* The ring keeps its types for packets and capacities of every size, its
\* counters stay within the vector, and push never indexes outside of it.
THEOREM RingTypes == Spec => []TypeOK
  <1>1. IInv => TypeOK
    <2> SUFFICES ASSUME IInv PROVE TypeOK
      OBVIOUS
    <2>1. Types /\ write_pos = Len(entries) /\ count <= Len(entries)
      BY DEF IInv, NeverWraps
    <2>2. write_pos \in 0 .. Len(entries) /\ count \in 0 .. Len(entries)
      BY <2>1 DEF Types
    <2>3. ASSUME incoming # NoPacket, MustEvict(incoming)
          PROVE  OldestIdx \in 0 .. Len(entries) - 1
      <3>1. count > 0
        BY <2>3 DEF MustEvict
      <3> QED
        BY <2>1, <3>1 DEF Types, OldestIdx
    <2> QED
      BY <2>1, <2>2, <2>3 DEF Types, TypeOK
  <1> QED
    BY <1>1, InductiveInvariant, PTL

\* bytes_used always equals the size of what the ring counts, at every turn of
\* push's loop, whatever the packets and the ring's capacity.
THEOREM BytesAreExact == Spec => []BytesExact
  <1>1. IInv => BytesExact
    BY DEF IInv
  <1> QED
    BY <1>1, InductiveInvariant, PTL

\* The ring is within its byte capacity after every push, unless a single
\* packet is larger than the ring.
THEOREM BytesAreBounded == Spec => []BytesBounded
  <1>1. IInv => BytesBounded
    BY DEF IInv
  <1> QED
    BY <1>1, InductiveInvariant, PTL

\* No push evicts a packet that would still have fitted.
THEOREM NothingEvictedTooEarly == Spec => []KeepsWhatFits
  <1>1. IInv => KeepsWhatFits
    BY DEF IInv
  <1> QED
    BY <1>1, InductiveInvariant, PTL

\* push's loop always reads the oldest counted packet, at an index in range.
THEOREM EvictionReadsOldest == Spec => []EvictsOldestLive
  <1>1. IInv => EvictsOldestLive
    <2> SUFFICES ASSUME IInv, count > 0
                 PROVE  /\ OldestIdx \in 0 .. Len(entries) - 1
                        /\ OldestEntry = pushed[Dropped + 1]
      BY DEF EvictsOldestLive
    <2>1. Len(entries) = Len(pushed)
      BY DEF IInv, NeverWraps
    <2>2. Dropped + 1 \in 1 .. Len(pushed) /\ Dropped \in Nat /\ Len(pushed) \in Nat
      BY OldestIsLive, Numbers
    <2>3. OldestIdx = Dropped /\ OldestEntry = pushed[Dropped + 1]
      BY OldestIsLive
    <2> QED
      BY <2>1, <2>2, <2>3
  <1> QED
    BY <1>1, InductiveInvariant, PTL


\* A file on disk holds a prefix of everything that was ever pushed.
FileIsPrefix ==
    /\ Len(pcap_file.packets) <= Len(pushed)
    /\ pcap_file.packets = SubSeq(pushed, 1, Len(pcap_file.packets))

\* A file holds consecutive arrivals in their order, for every sequence of
\* pushes and flushes; they are always the oldest arrivals there were.
THEOREM FilesAreInOrder == Spec => []FlushInOrder
  <1>1. Init => FileIsPrefix
    BY DEF Init, FileIsPrefix
  <1>2. IInv /\ FileIsPrefix /\ [Next]_vars => FileIsPrefix'
    <2> SUFFICES ASSUME IInv, FileIsPrefix, [Next]_vars PROVE FileIsPrefix'
      OBVIOUS
    <2> DEFINE file == pcap_file.packets
    <2>0. /\ file \in Seq(Packet) /\ pushed \in Seq(Packet)
          /\ Len(file) \in Nat /\ Len(pushed) \in Nat /\ Len(file) <= Len(pushed)
          /\ file = SubSeq(pushed, 1, Len(file))
      BY Numbers, Contents DEF IInv, Types, File, FileIsPrefix
    <2>1. CASE Store
      <3>1. /\ incoming \in Packet
            /\ pushed' = Append(pushed, incoming)
            /\ pcap_file' = pcap_file
        BY <2>1, StoreAppends DEF Store
      <3> HIDE DEF file
      <3>2. SubSeq(pushed', 1, Len(file)) = SubSeq(pushed, 1, Len(file))
        BY <2>0, <3>1
      <3>3. Len(file) <= Len(pushed')
        BY <2>0, <3>1
      <3> QED
        BY <2>0, <3>1, <3>2, <3>3 DEF FileIsPrefix, file
    <2>2. CASE Flush
      <3>2. PICK n \in 0 .. count : pcap_file'.packets = SubSeq(pushed, 1, n)
        BY <2>2, FlushWritesPrefix
      <3>3. Len(SubSeq(pushed, 1, n)) = n /\ n <= Len(pushed)
        BY <3>2, Numbers, Contents
      <3>4. pushed' = pushed
        BY <2>2 DEF Flush, FlushSucceeds, FlushFails
      <3> QED
        BY <3>2, <3>3, <3>4 DEF FileIsPrefix
    <2>3. CASE UNCHANGED <<pcap_file, pushed>>
      BY <2>3 DEF FileIsPrefix
    <2>4. Store \/ Flush \/ UNCHANGED <<pcap_file, pushed>>
      BY DEF Next, Push, BeginPush, EvictOldest, vars
    <2> QED
      BY <2>1, <2>2, <2>3, <2>4
  <1>3. IInv /\ FileIsPrefix => FlushInOrder
    <2> SUFFICES ASSUME IInv, FileIsPrefix PROVE FlushInOrder
      OBVIOUS
    <2>1. 0 \in 0 .. Len(pushed) - Len(pcap_file.packets)
      BY Numbers DEF FileIsPrefix, IInv, Types, File
    <2>2. pcap_file.packets = SubSeq(pushed, 0 + 1, 0 + Len(pcap_file.packets))
      BY DEF FileIsPrefix, IInv, Types, File
    <2> QED
      BY <2>1, <2>2 DEF FlushInOrder
  <1> QED
    BY <1>1, <1>2, <1>3, InductiveInvariant, PTL DEF Spec

\* NeverWraps: for every sequence of pushes write_pos stays at the end of the
\* vector and no slot is used twice, whatever max_bytes is and however Vec
\* grows.  The bytes that the ring accounts are bounded, those it keeps are not.
THEOREM VectorKeepsEverything == Spec => []NeverWraps
  <1>1. IInv => NeverWraps
    BY DEF IInv
  <1> QED
    BY <1>1, InductiveInvariant, PTL

\* FlushCompleteUntilEviction: as long as nothing was evicted a successful
\* flush writes every packet that arrived.
THEOREM FilesAreCompleteUntilEviction == Spec => FlushCompleteUntilEviction
  <1>1. IInv /\ [Next]_vars =>
          [pcap_file' # pcap_file /\ pcap_file'.result = "ok" /\ Dropped = 0
             => pcap_file'.packets = pushed]_vars
    <2> SUFFICES ASSUME IInv, Next, pcap_file' # pcap_file, pcap_file'.result = "ok", Dropped = 0
                 PROVE  pcap_file'.packets = pushed
      OBVIOUS
    <2>1. FlushSucceeds
      BY DEF Next, Push, BeginPush, EvictOldest, Store, Flush, FlushFails
    <2>2. pcap_file'.packets = [i \in 1 .. count |-> pushed[i]]
      BY <2>1, FlushedIsOldest DEF FlushSucceeds
    <2>3. count = Len(pushed)
      BY Numbers DEF Dropped
    <2>4. pushed \in Seq(Packet)
      BY DEF IInv, Types
    <2> QED
      BY <2>2, <2>3, <2>4
  <1> QED
    BY <1>1, InductiveInvariant, PTL DEF Spec, FlushCompleteUntilEviction

-----------------------------------------------------------------------------
(* PcapRing implements EvidenceWindow. *)

\* Between pushes the ring holds the packet that arrived last.
HoldsNewest == incoming = NoPacket /\ pushed # << >> => count > 0

-----------------------------------------------------------------------------

LEMMA InitHoldsNewest == Init => HoldsNewest
  BY DEF Init, HoldsNewest

LEMMA NextHoldsNewest == IInv /\ HoldsNewest /\ [Next]_vars => HoldsNewest'
<1> SUFFICES ASSUME IInv, HoldsNewest, [Next]_vars PROVE HoldsNewest'
    OBVIOUS
<1>1. ASSUME NEW p \in Packet, BeginPush(p) PROVE HoldsNewest'
      BY <1>1, RingAssumption DEF BeginPush, HoldsNewest
<1>2. CASE EvictOldest
      BY <1>2 DEF EvictOldest, HoldsNewest
<1>3. CASE Store
      <2>1. Len(entries') = Len(entries) + 1 /\ Len(entries) \in Nat /\ count \in Nat
            BY <1>3, StoreAppends, Numbers, Contents DEF IInv, Types, NeverWraps
      <2>2. count' = Smaller(count + 1, Len(entries'))
            BY <1>3 DEF Store
      <2> QED  BY <2>1, <2>2 DEF HoldsNewest, Smaller
<1>4. CASE Flush
      BY <1>4 DEF Flush, FlushSucceeds, FlushFails, HoldsNewest, ring
<1>5. CASE UNCHANGED vars
      BY <1>5 DEF vars, ring, HoldsNewest
<1> QED  BY <1>1, <1>2, <1>3, <1>4, <1>5 DEF Next, Push

LEMMA SuffixType ==
    ASSUME IInv, NEW k \in 0 .. Len(pushed)
    PROVE  Suffix(k) = offset[Len(pushed) + 1] - offset[k + 1] /\ Suffix(k) \in Int
<1>1. k + 1 \in 1 .. Len(offset) /\ Len(offset) \in 1 .. Len(offset)
      BY Numbers
<1>2. \A n \in 1 .. Len(offset) : offset[n] \in Int
      BY DEF IInv, Types
<1> QED  BY <1>1, <1>2, Numbers DEF Suffix

\* With any packet that the ring has dropped it would exceed its limit.
LEMMA DroppedDoesNotFit ==
    ASSUME IInv, NEW j \in 0 .. Dropped - 1
    PROVE  Suffix(j) + Pending > max_bytes
<1>1. /\ Dropped \in 1 .. Len(pushed) /\ Len(offset) = Len(pushed) + 1
      /\ Len(pushed) \in Nat
      BY Numbers
<1>2. \A n \in 1 .. Len(offset) : offset[n] \in Int
      BY DEF IInv, Types
<1>3. pushed[Dropped] \in Packet
      BY <1>1, Contents DEF IInv, Types
<1>4. EntrySize(pushed[Dropped]) \in Int
      BY <1>3, EntrySizeType
<1>5. Pending \in Int
      BY EntrySizeType DEF Pending, IInv, Types
<1>6. total_bytes + Pending + EntrySize(pushed[Dropped]) > max_bytes
      BY <1>1 DEF IInv, KeepsWhatFits
<1>7. total_bytes = offset[Len(pushed) + 1] - offset[Dropped + 1]
      BY DEF IInv, BytesExact
<1>8. offset[Dropped + 1] = offset[Dropped] + EntrySize(pushed[Dropped])
      BY <1>1 DEF IInv, OffsetsRun
<1>9. offset[j + 1] <= offset[Dropped]
      BY <1>1 DEF IInv, OffsetsRun
<1>10. /\ offset[j + 1] \in Int /\ offset[Dropped] \in Int
       /\ offset[Dropped + 1] \in Int /\ offset[Len(pushed) + 1] \in Int
       /\ max_bytes \in Int
      BY <1>1, <1>2, Numbers
<1>11. Suffix(j) = offset[Len(pushed) + 1] - offset[j + 1]
      BY <1>1, SuffixType
<1>12. total_bytes \in Int
      BY Numbers
<1> DEFINE all == offset[Len(pushed) + 1]   earlier == offset[j + 1]
           before == offset[Dropped]        first == offset[Dropped + 1]
           size == EntrySize(pushed[Dropped])
           used == total_bytes              pending == Pending
<1>13. /\ all \in Int /\ earlier \in Int /\ before \in Int /\ first \in Int
       /\ size \in Int /\ used \in Int /\ pending \in Int /\ max_bytes \in Int
      BY <1>4, <1>5, <1>10, <1>12
<1>14. /\ used = all - first /\ first = before + size /\ earlier <= before
       /\ used + pending + size > max_bytes
      BY <1>6, <1>7, <1>8, <1>9
<1> HIDE DEF all, earlier, before, first, size, used, pending
<1>15. used + size = all - before
      BY <1>13, <1>14
<1>16. used + size <= all - earlier
      BY <1>13, <1>14, <1>15
<1>17. (all - earlier) + pending > max_bytes
      BY <1>13, <1>14, <1>16
<1> QED  BY <1>11, <1>17 DEF all, earlier, pending

\* Between pushes the ring is a window.
LEMMA RestsOnWindow ==
    ASSUME IInv, HoldsNewest, incoming = NoPacket, pushed # << >>
    PROVE  Window(Dropped)
<1>1. Dropped \in 0 .. Len(pushed) - 1
      BY Numbers DEF HoldsNewest
<1>2. Suffix(Dropped) = total_bytes
      BY Numbers DEF IInv, BytesExact, Suffix
<1>3. total_bytes <= max_bytes \/ Dropped = Len(pushed) - 1
      BY Numbers DEF IInv, BytesBounded
<1>4. \A j \in 0 .. Dropped - 1 : Suffix(j) + Pending > max_bytes
      BY DroppedDoesNotFit
<1>5. Pending = 0
      BY DEF Pending
<1>6. \A j \in 0 .. Dropped - 1 : Suffix(j) \in Int
      BY <1>1, SuffixType, Numbers
<1>7. \A j \in 0 .. Dropped - 1 : ~(Suffix(j) <= max_bytes)
      BY <1>4, <1>5, <1>6, Numbers
<1> QED  BY <1>1, <1>2, <1>3, <1>7 DEF Window

\* There is only one window.
LEMMA WindowIsUnique ==
    ASSUME IInv, NEW k, NEW l, Window(k), Window(l)
    PROVE  k = l
<1>1. k \in Int /\ l \in Int /\ Len(pushed) \in Nat /\ max_bytes \in Int
      BY Numbers DEF Window
<1>3. Suffix(k) \in Int /\ Suffix(l) \in Int
      BY <1>1, SuffixType DEF Window
<1>4. ~(k < l)
      <2> SUFFICES ASSUME k < l PROVE FALSE
          OBVIOUS
      <2>1. k \in 0 .. l - 1 /\ k < Len(pushed) - 1
            BY <1>1 DEF Window
      <2>2. ~(Suffix(k) <= max_bytes) /\ Suffix(k) <= max_bytes
            BY <2>1 DEF Window
      <2> QED  BY <1>1, <1>3, <2>2
<1>5. ~(l < k)
      <2> SUFFICES ASSUME l < k PROVE FALSE
          OBVIOUS
      <2>1. l \in 0 .. k - 1 /\ l < Len(pushed) - 1
            BY <1>1 DEF Window
      <2>2. ~(Suffix(l) <= max_bytes) /\ Suffix(l) <= max_bytes
            BY <2>1 DEF Window
      <2> QED  BY <1>1, <1>3, <2>2
<1> QED  BY <1>1, <1>4, <1>5

\* Inside the loop of a push the observer still sees what the ring held when
\* the push began.
LEMMA BeginningIsUnseen ==
    ASSUME IInv, HoldsNewest, incoming = NoPacket, pushed # << >>
    PROVE  (CHOOSE k \in 0 .. Len(pushed) - 1 : Window(k)) = Dropped
<1>1. Window(Dropped)
      BY RestsOnWindow
<1>2. Dropped \in 0 .. Len(pushed) - 1
      BY <1>1 DEF Window
<1> DEFINE w == CHOOSE k \in 0 .. Len(pushed) - 1 : Window(k)
<1>3. Window(w)
      BY <1>1, <1>2
<1> HIDE DEF w
<1>4. w = Dropped
      BY <1>1, <1>3, WindowIsUnique
<1> QED  BY <1>4 DEF w

-----------------------------------------------------------------------------
(* Every step of the ring is a step of the window, or one that it does not  *)
(* show                                                                     *)

LEMMA InitRefines == Init => Evidence!Init
<1> SUFFICES ASSUME Init PROVE Evidence!Init
    OBVIOUS
<1>1. pushed = << >> /\ count = 0 /\ Len(<< >>) = 0
      BY DEF Init
<1>2. Settled = 0
      BY <1>1 DEF Settled, Dropped
<1> QED  BY <1>2 DEF Init, Evidence!Init

LEMMA BeginPushIsUnseen ==
    ASSUME IInv, HoldsNewest, NEW p \in Packet, BeginPush(p)
    PROVE  UNCHANGED Evidence!vars
<1>1. /\ incoming = NoPacket /\ incoming' # NoPacket
      /\ UNCHANGED <<ring, pcap_file, pushed, offset>>
      BY RingAssumption DEF BeginPush
<1>2. Settled = Dropped /\ Dropped' = Dropped
      BY <1>1 DEF Settled, Dropped, ring
<1>3. CASE pushed = << >>
      <2>1. Settled' = Dropped'
            BY <1>1, <1>3 DEF Settled
      <2> QED  BY <1>1, <1>2, <2>1 DEF Evidence!vars, ring
<1>4. CASE pushed # << >>
      <2>1. Settled' = (CHOOSE k \in 0 .. Len(pushed) - 1 : Window(k))'
            BY <1>1, <1>4 DEF Settled
      <2>2. (CHOOSE k \in 0 .. Len(pushed) - 1 : Window(k))'
              = CHOOSE k \in 0 .. Len(pushed) - 1 : Window(k)
            BY <1>1 DEF Window, Suffix, ring
      <2>3. Settled' = Settled
            BY <1>1, <1>2, <1>4, <2>1, <2>2, BeginningIsUnseen
      <2> QED  BY <1>1, <2>3 DEF Evidence!vars, ring
<1> QED  BY <1>3, <1>4

LEMMA EvictionIsUnseen ==
    ASSUME IInv, EvictOldest
    PROVE  UNCHANGED Evidence!vars
<1>1. /\ incoming # NoPacket /\ count > 0
      /\ UNCHANGED <<max_bytes, incoming, pcap_file, pushed, offset>>
      BY DEF EvictOldest, MustEvict
<1>2. pushed # << >>
      BY <1>1, Numbers
<1>3. Settled' = Settled
      BY <1>1, <1>2 DEF Settled, Window, Suffix
<1> QED  BY <1>1, <1>3 DEF Evidence!vars

LEMMA StoreArrives ==
    ASSUME IInv, IInv', HoldsNewest', Store
    PROVE  incoming \in Packet /\ Evidence!Arrive(incoming)
<1>1. /\ incoming \in Packet /\ incoming' = NoPacket
      /\ pushed' = Append(pushed, incoming)
      /\ offset' = Append(offset, offset[Len(offset)] + EntrySize(incoming))
      /\ UNCHANGED <<max_bytes, pcap_file>>
      BY StoreAppends DEF Store
<1>2. /\ pushed \in Seq(Packet) /\ Len(pushed) \in Nat
      /\ Len(pushed') = Len(pushed) + 1 /\ pushed'[Len(pushed) + 1] = incoming
      <2>1. pushed \in Seq(Packet)
            BY DEF IInv, Types
      <2> QED  BY <1>1, <2>1
<1>0. pushed' # << >>
      BY <1>2
<1>3. Window(Dropped)'
      <2>1. IInv' /\ HoldsNewest' /\ (incoming = NoPacket)' /\ (pushed # << >>)'
            BY <1>0, <1>1
      <2> QED  BY <2>1, RestsOnWindow, PTL
<1>4. Settled' = Dropped'
      BY <1>1 DEF Settled
<1>5. Len(offset') = Len(pushed') + 1
      BY DEF IInv, OffsetsRun
<1>6. Dropped' \in 0 .. Len(pushed)
      BY <1>2, <1>3 DEF Window
<1>7. Evidence!IsWindow(Dropped', offset')
      <2>1. Len(offset') - 2 = Len(pushed') - 1
            BY <1>2, <1>5
      <2> QED  BY <1>1, <1>3, <2>1 DEF Window, Suffix, Evidence!IsWindow, Evidence!Fits
<1> QED  BY <1>1, <1>4, <1>6, <1>7 DEF Evidence!Arrive

LEMMA FlushSaves ==
    ASSUME IInv, Flush
    PROVE  Evidence!Save
<1>1. /\ incoming = NoPacket
      /\ UNCHANGED <<ring, incoming, pushed, offset>>
      BY DEF Flush, FlushSucceeds, FlushFails
<1>2. Settled = Dropped /\ Settled' = Settled
      BY <1>1 DEF Settled, Dropped, ring
<1>3. PICK n \in 0 .. count : pcap_file'.packets = SubSeq(pushed, 1, n)
      BY FlushWritesPrefix
<1>4. n \in 0 .. Len(pushed) - Settled /\ 0 + n <= Len(pushed) /\ 0 \in 0 .. Len(pushed)
      BY <1>2, <1>3, Numbers
<1>5. pcap_file'.packets = SubSeq(pushed, 0 + 1, 0 + n)
      BY <1>3
<1> QED  BY <1>1, <1>2, <1>4, <1>5 DEF Evidence!Save, ring

LEMMA NextRefines ==
    IInv /\ IInv' /\ HoldsNewest /\ HoldsNewest' /\ [Next]_vars
        => [Evidence!Next]_(Evidence!vars)
<1> SUFFICES ASSUME IInv, IInv', HoldsNewest, HoldsNewest', [Next]_vars
             PROVE  Evidence!Next \/ UNCHANGED Evidence!vars
    OBVIOUS
<1>1. ASSUME NEW p \in Packet, BeginPush(p) PROVE UNCHANGED Evidence!vars
      BY <1>1, BeginPushIsUnseen
<1>2. CASE EvictOldest
      BY <1>2, EvictionIsUnseen
<1>3. CASE Store
      BY <1>3, StoreArrives DEF Evidence!Next
<1>4. CASE Flush
      BY <1>4, FlushSaves DEF Evidence!Next
<1>5. CASE UNCHANGED vars
      BY <1>5 DEF vars, ring, Evidence!vars, Settled, Window, Suffix, Dropped
<1> QED  BY <1>1, <1>2, <1>3, <1>4, <1>5 DEF Next, Push

\* The ring implements the window of newest packets: whatever arrives, and
\* however often its loop turns, between pushes it has dropped exactly the
\* packets that no longer fit.
THEOREM RingKeepsEvidenceWindow == Spec => KeepsEvidenceWindow
<1>1. Spec => []HoldsNewest
      <2>1. Init => HoldsNewest
            BY InitHoldsNewest
      <2>2. IInv /\ HoldsNewest /\ [Next]_vars => HoldsNewest'
            BY NextHoldsNewest
      <2> QED  BY <2>1, <2>2, InductiveInvariant, PTL DEF Spec
<1>2. Init => Evidence!Init
      BY InitRefines
<1>3. IInv /\ IInv' /\ HoldsNewest /\ HoldsNewest' /\ [Next]_vars
        => [Evidence!Next]_(Evidence!vars)
      BY NextRefines
<1> QED
    BY <1>1, <1>2, <1>3, InductiveInvariant, PTL
    DEF Spec, KeepsEvidenceWindow, Evidence!Spec

=============================================================================
