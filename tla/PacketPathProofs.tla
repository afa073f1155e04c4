-------------------------- MODULE PacketPathProofs --------------------------
(* Proofs about PacketPath, for any frames, any number of HTTP tasks and    *)
(* any sizes of the two rings.                                              *)
EXTENDS PacketPath, FiniteSetTheorems, TLAPS

\* Where the thread has a packet in hand, where it has passed the switch, and
\* where a rule matched.
HasPacket == at # "receive"

Admitted == at \in {"count", "evaluate", "event", "capture", "show"}

Matched == at \in {"event", "capture"}

\* The packet in hand is the newest, and is counted and inspected in that order.
InHand ==
    /\ HasPacket => Current \in 1 .. MaxPackets
    /\ at = "evaluate" => Current \in packets_total
    /\ Matched => Current \in inspected

\* The forensic ring has been given every arrival in order, and each capture
\* as many of the first of them as the ring counted.
Arrived(n) == [k \in 1 .. n |-> k]

Evidenced == evidence = Arrived(Current)

\* Every counted packet with addresses is inspected, but the one on its way.
Inspected ==
    \A n \in Due : n \in inspected \/ (at = "evaluate" /\ n = Current)

\* What a snapshot has read: first the total, then the engine.
Reports ==
    \A c \in Client :
        /\ Len(report[c].reads) > 0 => report[c].due <= Cardinality(inspected) + 1
        /\ Len(report[c].reads) > 1 => report[c].due <= report[c].inspected + 1

\* A switch that is off has shown a packet only if none is in flight.
Sharp ==
    \A s \in Switch :
        /\ overdue[s] <= 1
        /\ Admitted /\ CurrentSwitch = s /\ ~enabled[s] => overdue[s] = 0

\* Packets enter both rings in the order of their arrival.
Ranked(queue) ==
    \A i, j \in DOMAIN queue : i < j => queue[i].packet < queue[j].packet

RowsRanked ==
    /\ Ranked(rows)
    /\ \A r \in Range(rows) :
          r.packet <= Current /\ (HasPacket => r.packet < Current)

EventsRanked ==
    /\ Ranked(events)
    /\ \A e \in Range(events) :
          /\ e.packet <= Current
          /\ at \in {"dissect", "count", "evaluate", "event"} => e.packet < Current

\* Once it is pushed, the event of the packet in hand is what its row will be;
\* and at the view, a packet that has not passed has one.
EventAnnounces ==
    /\ at \in {"capture", "show"} =>
          \A e \in Range(events) : e.packet = Current => e = Row
    /\ at = "capture" => Row \in Range(events)
    /\ at = "show" => verdict = "pass" \/ Row \in Range(events)

Views == RowsRanked /\ EventsRanked /\ EventAnnounces /\ ViewsAgree

IInv ==
    /\ TypeOK /\ InHand /\ Evidenced /\ AlertsEvidencedUntilEviction
    /\ Inspected /\ Reports /\ Sharp /\ Views

-----------------------------------------------------------------------------
(* Lemmas about the data *)

LEMMA SeqGrows ==
    ASSUME NEW m \in Nat, NEW n \in Nat, m <= n
    PROVE  Seq(1 .. m) \subseteq Seq(1 .. n)
  OBVIOUS

LEMMA ArrivedType ==
    ASSUME NEW n \in Nat
    PROVE  Arrived(n) \in Seq(1 .. n) /\ Len(Arrived(n)) = n
  BY DEF Arrived

LEMMA ArrivedGrows ==
    ASSUME NEW n \in Nat
    PROVE  Append(Arrived(n), n + 1) = Arrived(n + 1)
  BY DEF Arrived

\* A ring holds as many entries as it may, each of them one it was given.
LEMMA RingType ==
    ASSUME NEW S, NEW queue \in Seq(S), NEW entry \in S,
           NEW size \in Nat \ {0}, Len(queue) <= size
    PROVE  Ring(queue, size, entry) \in Seq(S) /\ Len(Ring(queue, size, entry)) <= size
  <1>1. CASE Len(queue) >= size
        BY <1>1 DEF Ring
  <1>2. CASE Len(queue) < size
        BY <1>2 DEF Ring
  <1> QED  BY <1>1, <1>2

LEMMA EntryPackets == \A e \in Entry : e.packet \in Int
  BY DEF Entry

\* What a ring forgets is older than all it remembers.
LEMMA RingForgetsOldest ==
    ASSUME NEW queue \in Seq(Entry), NEW entry \in Entry,
           NEW size \in Nat \ {0}, Len(queue) <= size, Ranked(queue),
           \A e \in Range(queue) : e.packet < entry.packet
    PROVE  LET new == Ring(queue, size, entry) IN
           /\ Ranked(new)
           /\ entry \in Range(new)
           /\ Range(new) \subseteq Range(queue) \cup {entry}
           /\ Len(queue) = size => Len(new) = size
           /\ \A e \in Range(queue) :
                 \/ e \in Range(new)
                 \/ Len(new) = size /\ \A r \in Range(new) : e.packet < r.packet
<1> DEFINE new == Ring(queue, size, entry)
<1>1. \A i \in 1 .. Len(queue) :
         /\ queue[i] \in Entry /\ queue[i].packet \in Int
         /\ queue[i].packet < entry.packet
      <2>1. \A i \in 1 .. Len(queue) : queue[i] \in Entry /\ queue[i] \in Range(queue)
            BY DEF Range
      <2>2. \A e \in Entry : e.packet \in Int
            BY EntryPackets
      <2> QED  BY <2>1, <2>2
<1>2. CASE Len(queue) < size
      <2>1. new = Append(queue, entry)
            BY <1>2 DEF Ring
      <2>2. /\ Len(new) = Len(queue) + 1 /\ DOMAIN new = 1 .. Len(queue) + 1
            /\ \A i \in 1 .. Len(queue) : new[i] = queue[i]
            /\ new[Len(queue) + 1] = entry
            BY <2>1
      <2>3. Range(new) = Range(queue) \cup {entry}
            BY <2>2 DEF Range
      <2>4. Ranked(new)
            BY <1>1, <2>2 DEF Ranked
      <2> QED  BY <1>2, <2>3, <2>4
<1>3. CASE Len(queue) = size
      <2>1. new = Append(Tail(queue), entry)
            BY <1>3 DEF Ring
      <2>2. /\ Len(new) = size /\ DOMAIN new = 1 .. size
            /\ \A i \in 1 .. size - 1 : new[i] = queue[i + 1]
            /\ new[size] = entry
            BY <1>3, <2>1
      <2>3. \A i \in 1 .. size : new[i] = entry \/ (i + 1 \in 1 .. size /\ new[i] = queue[i + 1])
            BY <2>2
      <2>4. Range(new) \subseteq Range(queue) \cup {entry} /\ entry \in Range(new)
            BY <1>3, <2>2, <2>3 DEF Range
      <2>5. Ranked(new)
            <3> SUFFICES ASSUME NEW i \in 1 .. size, NEW j \in 1 .. size, i < j
                         PROVE  new[i].packet < new[j].packet
                BY <2>2 DEF Ranked
            <3>1. /\ i \in 1 .. size - 1
                  /\ i + 1 \in 1 .. Len(queue) /\ new[i] = queue[i + 1]
                  BY <1>3, <2>2
            <3>2. CASE j = size
                  BY <1>1, <2>2, <3>1, <3>2
            <3>3. CASE j # size
                  <4>1. j + 1 \in 1 .. Len(queue) /\ new[j] = queue[j + 1] /\ i + 1 < j + 1
                        BY <1>3, <2>2, <3>3
                  <4> QED  BY <3>1, <4>1 DEF Ranked
            <3> QED  BY <3>2, <3>3
      <2>6. ASSUME NEW i \in 1 .. size
            PROVE  queue[i] \in Range(new) \/ \A r \in Range(new) : queue[i].packet < r.packet
            <3>1. CASE i > 1
                  <4>1. i - 1 \in 1 .. size - 1 /\ (i - 1) + 1 = i /\ i - 1 \in DOMAIN new
                        BY <2>2, <3>1
                  <4>2. new[i - 1] = queue[i]
                        BY <2>2, <4>1
                  <4>3. new[i - 1] \in Range(new)
                        BY <4>1 DEF Range
                  <4> QED  BY <4>2, <4>3
            <3>2. CASE i = 1
                  <4>1. ASSUME NEW j \in 1 .. size PROVE queue[1].packet < new[j].packet
                        <5>1. 1 \in 1 .. Len(queue)
                              BY <1>3
                        <5>2. CASE new[j] = entry
                              BY <1>1, <5>1, <5>2
                        <5>3. CASE j + 1 \in 1 .. size /\ new[j] = queue[j + 1]
                              <6>1. j + 1 \in DOMAIN queue /\ 1 \in DOMAIN queue /\ 1 < j + 1
                                    BY <1>3, <5>3
                              <6> QED  BY <5>3, <6>1 DEF Ranked
                        <5> QED  BY <2>3, <5>2, <5>3
                  <4> QED  BY <2>2, <3>2, <4>1 DEF Range
            <3> QED  BY <3>1, <3>2
      <2>7. \A e \in Range(queue) :
              e \in Range(new) \/ \A r \in Range(new) : e.packet < r.packet
            <3>1. \A e \in Range(queue) : \E i \in 1 .. size : e = queue[i]
                  BY <1>3 DEF Range
            <3> QED  BY <2>6, <3>1
      <2> HIDE DEF new
      <2>8. Len(new) = size
            BY <2>2
      <2> QED  BY <2>4, <2>5, <2>7, <2>8 DEF new
<1> QED  BY <1>2, <1>3

LEMMA EffectiveType ==
    ASSUME NEW p \in Packet
    PROVE  Effective(p) \in Verdict
  BY PathAssumption DEF Effective, IsMatched, PacketType, Verdict

LEMMA AtMostOne ==
    ASSUME NEW n \in Nat, n + 1 <= 2
    PROVE  n \in {0, 1}
  OBVIOUS

\* The arrivals that are counted are finitely many.
LEMMA CountedIsFinite ==
    ASSUME TypeOK
    PROVE  /\ IsFiniteSet(inspected) /\ Cardinality(inspected) \in Nat
           /\ IsFiniteSet(Due) /\ Cardinality(Due) \in Nat
  <1>1. IsFiniteSet(1 .. Current)
        BY FS_Interval DEF TypeOK, Current
  <1>2. inspected \in SUBSET (1 .. Current) /\ Due \in SUBSET (1 .. Current)
        BY DEF TypeOK, Due
  <1> QED  BY <1>1, <1>2, FS_Subset, FS_CardinalityType

\* At most one packet is due that is not inspected yet.
LEMMA DueLags ==
    ASSUME TypeOK, Inspected
    PROVE  Cardinality(Due) <= Cardinality(inspected) + 1
  <1>1. Due \in SUBSET (inspected \cup {Current})
        BY DEF Inspected
  <1>2. /\ IsFiniteSet(inspected \cup {Current})
        /\ Cardinality(inspected \cup {Current}) <= Cardinality(inspected) + 1
        /\ Cardinality(inspected \cup {Current}) \in Nat
        BY CountedIsFinite, FS_AddElement, FS_CardinalityType
  <1>3. Cardinality(Due) <= Cardinality(inspected \cup {Current})
        BY <1>1, <1>2, FS_Subset
  <1> QED  BY <1>2, <1>3, CountedIsFinite

-----------------------------------------------------------------------------
(* Types, and what is in hand *)

LEMMA InitTypes == Init => TypeOK /\ InHand
  <1> SUFFICES ASSUME Init PROVE TypeOK /\ InHand
      OBVIOUS
  <1>1. << >> \in Seq(Packet) /\ Len(<< >>) = 0 /\ << >> \in Seq(Entry)
        OBVIOUS
  <1>2. evidence \in Seq(1 .. Current)
        BY DEF Init
  <1>3. NoReport \in Report
        BY DEF NoReport, Report
  <1>4. report \in [Client -> Report]
        BY <1>3 DEF Init
  <1>5. files \subseteq [trigger : inspected, evicted : Nat, packets : Seq(1 .. Current)]
        BY DEF Init
  <1>6. overdue \in [Switch -> Nat]
        BY DEF Init
  <1>7. QED
        BY <1>1, <1>2, <1>4, <1>5, <1>6, PathAssumption
        DEF Init, TypeOK, InHand, HasPacket, Matched, Verdict, Current

\* The files stay what they are when more packets arrive or are inspected.
LEMMA FilesKeepTheirType ==
    ASSUME NEW F, NEW S, NEW T, NEW m \in Nat, NEW n \in Nat,
           F \subseteq [trigger : S, evicted : Nat, packets : Seq(1 .. m)],
           S \subseteq T, m <= n
    PROVE  F \subseteq [trigger : T, evicted : Nat, packets : Seq(1 .. n)]
  BY SeqGrows

\* A flush takes what it writes from the vector.
LEMMA FlushedType ==
    ASSUME TypeOK, Evidenced
    PROVE  Flushed \in Seq(1 .. Current) /\ dropped \in Nat
  <1>1. /\ evidence \in Seq(1 .. Current) /\ Current \in Nat
        /\ dropped \in 0 .. Current
        BY DEF TypeOK, Current
  <1>2. Len(evidence) = Current
        BY <1>1, ArrivedType DEF Evidenced
  <1>3. Len(evidence) - dropped \in Nat /\ Len(evidence) - dropped <= Len(evidence)
        BY <1>1, <1>2
  <1> QED  BY <1>1, <1>3 DEF Flushed

LEMMA StepTypes == TypeOK /\ InHand /\ Evidenced /\ [Next]_vars => TypeOK' /\ InHand'
<1> SUFFICES ASSUME TypeOK, InHand, Evidenced, [Next]_vars PROVE TypeOK' /\ InHand'
    OBVIOUS
<1>len. Current \in Nat
        BY DEF TypeOK, Current
<1>1. ASSUME NEW p \in Packet, Receive(p) PROVE TypeOK' /\ InHand'
      <2> USE <1>1, <1>len
      <2>1. /\ arrivals' \in Seq(Packet) /\ Len(arrivals') = Current + 1
            /\ Current' = Current + 1 /\ Current' <= MaxPackets
            BY PathAssumption DEF Receive, TypeOK, Current
      <2>2. evidence' \in Seq(1 .. Current')
            <3>1. evidence \in Seq(1 .. Current')
                  BY <2>1, SeqGrows DEF TypeOK
            <3>2. Current + 1 \in 1 .. Current'
                  BY <2>1
            <3>3. QED  BY <3>1, <3>2 DEF Receive, Recorded
      <2>3. files' \subseteq [trigger : inspected', evicted : Nat, packets : Seq(1 .. Current')]
            BY <2>1, FilesKeepTheirType DEF Receive, TypeOK
      <2>4. inspected' \subseteq packets_total' /\ packets_total' \subseteq 1 .. Current'
            BY <2>1 DEF Receive, TypeOK
      <2>5. dropped' \in 0 .. Current'
            <3>1. dropped \in 0 .. Current /\ dropped' \in dropped .. Current
                  BY DEF Receive, DroppedFor, TypeOK
            <3>2. QED  BY <2>1, <3>1
      <2>6. TypeOK'
            BY <2>1, <2>2, <2>3, <2>4, <2>5 DEF Receive, Goto, TypeOK
      <2>7. QED  BY <2>1, <2>6 DEF Receive, Goto, InHand, HasPacket, Matched
<1>2. ASSUME Malformed PROVE TypeOK' /\ InHand'
      <2>1. Current' = Current /\ Current \in 1 .. Current
            BY <1>2, <1>len DEF Malformed, Goto, InHand, HasPacket, Current
      <2>2. QED  BY <1>2, <2>1 DEF Malformed, Goto, TypeOK, InHand, HasPacket, Matched
<1>3. ASSUME ReadSwitch PROVE TypeOK' /\ InHand'
      <2>1. Current' = Current
            BY <1>3 DEF ReadSwitch, Current
      <2>2. QED  BY <1>3, <2>1 DEF ReadSwitch, TypeOK, InHand, HasPacket, Matched
<1>4. ASSUME Count PROVE TypeOK' /\ InHand'
      <2>1. Current' = Current /\ Current \in 1 .. Current
            BY <1>4, <1>len DEF Count, InHand, HasPacket, Current
      <2>2. QED
            BY <1>4, <2>1 DEF Count, InitialVerdict, Verdict, TypeOK, InHand, HasPacket, Matched
<1>5. ASSUME Evaluate PROVE TypeOK' /\ InHand'
      <2>1. Current' = Current
            BY <1>5 DEF Evaluate, Current
      <2>2. CurrentPacket \in Packet
            BY <1>5, <1>len DEF Evaluate, TypeOK, InHand, HasPacket, Current, CurrentPacket
      <2>3. verdict' \in Verdict
            BY <1>5, <2>2, EffectiveType DEF Evaluate
      <2>4. inspected' \subseteq packets_total' /\ inspected \subseteq inspected'
            BY <1>5 DEF Evaluate, TypeOK, InHand
      <2>5. files' \subseteq [trigger : inspected', evicted : Nat, packets : Seq(1 .. Current')]
            BY <1>5, <1>len, <2>1, <2>4, FilesKeepTheirType DEF Evaluate, TypeOK
      <2>6. TypeOK'
            BY <1>5, <2>1, <2>3, <2>4, <2>5 DEF Evaluate, TypeOK
      <2>7. QED  BY <1>5, <2>1, <2>6 DEF Evaluate, InHand, HasPacket, Matched
<1>6. ASSUME PushEvent PROVE TypeOK' /\ InHand'
      <2>1. Current' = Current /\ Current \in 1 .. MaxPackets
            BY <1>6 DEF PushEvent, Goto, InHand, HasPacket, Current
      <2>2. [packet |-> Current, verdict |-> verdict] \in Entry
            BY <2>1 DEF Entry, TypeOK
      <2>3. events' \in Seq(Entry) /\ Len(events') <= MaxEvents
            BY <1>6, <2>2, RingType, PathAssumption DEF PushEvent, TypeOK
      <2>4. QED
            BY <1>6, <2>1, <2>3 DEF PushEvent, Goto, TypeOK, InHand, HasPacket, Matched
<1>7. ASSUME Capture PROVE TypeOK' /\ InHand'
      <2>1. Current' = Current
            BY <1>7 DEF Capture, Current
      <2>2. [trigger |-> Current, evicted |-> dropped, packets |-> Flushed]
                \in [trigger : inspected, evicted : Nat, packets : Seq(1 .. Current)]
            <3>1. Flushed \in Seq(1 .. Current) /\ dropped \in Nat
                  BY <1>len, FlushedType
            <3>2. Current \in inspected
                  BY <1>7 DEF Capture, Goto, InHand, Matched
            <3>3. QED  BY <3>1, <3>2
      <2>3. files' \subseteq [trigger : inspected', evicted : Nat, packets : Seq(1 .. Current')]
            BY <1>7, <2>1, <2>2 DEF Capture, TypeOK
      <2>4. TypeOK'
            BY <1>7, <2>1, <2>3 DEF Capture, Goto, TypeOK
      <2>5. QED  BY <1>7, <2>1, <2>4 DEF Capture, Goto, InHand, HasPacket, Matched
<1>8. ASSUME NoCapture PROVE TypeOK' /\ InHand'
      <2>1. Current' = Current
            BY <1>8 DEF NoCapture, Current
      <2>2. QED  BY <1>8, <2>1 DEF NoCapture, Goto, TypeOK, InHand, HasPacket, Matched
<1>9. ASSUME Show PROVE TypeOK' /\ InHand'
      <2>1. Current' = Current /\ Current \in 1 .. MaxPackets
            BY <1>9 DEF Show, Goto, InHand, HasPacket, Current
      <2>2. Row \in Entry
            BY <2>1 DEF Row, Entry, TypeOK
      <2>3. rows' \in Seq(Entry) /\ Len(rows') <= MaxRows
            BY <1>9, <2>2, RingType, PathAssumption DEF Show, TypeOK
      <2>4. overdue' \in [Switch -> Nat]
            BY <1>9 DEF Show, TypeOK
      <2>5. QED
            BY <1>9, <2>1, <2>3, <2>4 DEF Show, Goto, TypeOK, InHand, HasPacket, Matched
<1>10. ASSUME NEW s \in Switch, NEW state \in BOOLEAN, ToggleDissector(s, state)
       PROVE TypeOK' /\ InHand'
      <2>1. Current' = Current
            BY <1>10 DEF ToggleDissector, path, Current
      <2>2. enabled' \in [Switch -> BOOLEAN] /\ overdue' \in [Switch -> Nat]
            BY <1>10 DEF ToggleDissector, TypeOK
      <2>3. QED
            BY <1>10, <2>1, <2>2 DEF ToggleDissector, path, TypeOK, InHand, HasPacket, Matched
<1>11. ASSUME NEW m \in {"tap", "inline"}, SetMode(m) PROVE TypeOK' /\ InHand'
      <2>1. Current' = Current
            BY <1>11 DEF SetMode, path, Current
      <2>2. QED  BY <1>11, <2>1 DEF SetMode, path, TypeOK, InHand, HasPacket, Matched
<1>12. ASSUME NEW c \in Client, ReadTotal(c) \/ ReadEngine(c) \/ Answer(c)
       PROVE TypeOK' /\ InHand'
      <2>1. Current' = Current /\ UNCHANGED path
            BY <1>12 DEF ReadTotal, ReadEngine, Answer, path, Current
      <2>2. report[c] \in Report
            BY DEF TypeOK
      <2>3. /\ [reads |-> Append(report[c].reads, "packets_total"),
                due |-> Cardinality(Due), inspected |-> report[c].inspected] \in Report
            /\ [reads |-> Append(report[c].reads, "inspected"),
                due |-> report[c].due, inspected |-> Cardinality(inspected)] \in Report
            /\ NoReport \in Report
            BY <2>2, CountedIsFinite DEF Report, NoReport
      <2>4. report' \in [Client -> Report]
            BY <1>12, <2>3 DEF ReadTotal, ReadEngine, Answer, TypeOK
      <2>5. UNCHANGED <<enabled, mode, overdue>>
            BY <1>12 DEF ReadTotal, ReadEngine, Answer
      <2>6. QED  BY <2>1, <2>4, <2>5 DEF path, TypeOK, InHand, HasPacket, Matched
<1>13. ASSUME UNCHANGED vars PROVE TypeOK' /\ InHand'
      <2>1. Current' = Current
            BY <1>13 DEF vars, Current
      <2>2. QED  BY <1>13, <2>1 DEF vars, TypeOK, InHand, HasPacket, Matched
<1>14. QED
      BY <1>1, <1>2, <1>3, <1>4, <1>5, <1>6, <1>7, <1>8, <1>9, <1>10, <1>11, <1>12, <1>13
      DEF Next, Thread, Handlers

-----------------------------------------------------------------------------
(* The evidence of an alert *)

LEMMA InitEvidence == Init => Evidenced /\ AlertsEvidencedUntilEviction
  <1>1. Arrived(0) = << >>
        BY DEF Arrived
  <1> QED  BY <1>1 DEF Init, Evidenced, AlertsEvidencedUntilEviction, Current

\* Only Receive touches the ring and the arrivals, and only Capture the files.
LEMMA StepEvidence ==
    TypeOK /\ InHand /\ Evidenced /\ AlertsEvidencedUntilEviction /\ [Next]_vars
        => Evidenced' /\ AlertsEvidencedUntilEviction'
<1> SUFFICES ASSUME TypeOK, InHand, Evidenced, AlertsEvidencedUntilEviction, [Next]_vars
             PROVE  Evidenced' /\ AlertsEvidencedUntilEviction'
    OBVIOUS
<1>1. ASSUME NEW p \in Packet, Receive(p) PROVE Evidenced' /\ AlertsEvidencedUntilEviction'
      <2>1. Current \in Nat /\ Current' = Current + 1
            BY <1>1 DEF Receive, TypeOK, Current
      <2>2. evidence' = Arrived(Current + 1)
            BY <1>1, <2>1, ArrivedGrows DEF Receive, Recorded, Evidenced
      <2>3. QED  BY <1>1, <2>1, <2>2 DEF Receive, Evidenced, AlertsEvidencedUntilEviction
<1>2. ASSUME Capture PROVE Evidenced' /\ AlertsEvidencedUntilEviction'
      <2>1. Current' = Current /\ evidence' = evidence
            BY <1>2 DEF Capture, Current
      <2>2. Current \in Nat \ {0} /\ dropped \in 0 .. Current
            BY <1>2 DEF Capture, Goto, InHand, HasPacket, TypeOK, Current
      <2>3. Evidenced'
            BY <2>1 DEF Evidenced
      <2>4. Flushed = Arrived(Current - dropped)
            BY <2>2 DEF Flushed, Evidenced, Arrived
      <2>5. ASSUME NEW f \in files'
            PROVE  /\ f.packets = [n \in 1 .. f.trigger - f.evicted |-> n]
                   /\ f.trigger \in Range(f.packets) <=> f.evicted = 0
            <3>1. CASE f \in files
                  BY <3>1 DEF AlertsEvidencedUntilEviction
            <3>2. CASE f = [trigger |-> Current, evicted |-> dropped, packets |-> Flushed]
                  <4>1. /\ f.trigger = Current /\ f.evicted = dropped
                        /\ f.packets = [n \in 1 .. Current - dropped |-> n]
                        BY <2>4, <3>2 DEF Arrived
                  <4>2. Range(f.packets) = 1 .. Current - dropped
                        BY <4>1 DEF Range
                  <4>3. QED  BY <2>2, <4>1, <4>2
            <3>3. QED  BY <1>2, <3>1, <3>2 DEF Capture
      <2>6. QED  BY <2>3, <2>5 DEF AlertsEvidencedUntilEviction
<1>3. CASE UNCHANGED <<arrivals, evidence, files>>
      <2>1. Current' = Current
            BY <1>3 DEF Current
      <2>2. QED  BY <1>3, <2>1 DEF Evidenced, AlertsEvidencedUntilEviction
<1>4. ASSUME Malformed \/ ReadSwitch \/ Count \/ Evaluate \/ PushEvent \/ NoCapture \/ Show
      PROVE  UNCHANGED <<arrivals, evidence, files>>
      BY <1>4 DEF Malformed, ReadSwitch, Count, Evaluate, PushEvent, NoCapture, Show
<1>5. ASSUME Handlers PROVE UNCHANGED <<arrivals, evidence, files>>
      BY <1>5 DEF Handlers, ToggleDissector, SetMode, ReadTotal, ReadEngine, Answer, path
<1>6. ASSUME UNCHANGED vars PROVE UNCHANGED <<arrivals, evidence, files>>
      BY <1>6 DEF vars
<1>7. QED  BY <1>1, <1>2, <1>3, <1>4, <1>5, <1>6 DEF Next, Thread

-----------------------------------------------------------------------------
(* The account of a snapshot *)

LEMMA InitReports == Init => Inspected /\ Reports
  <1> SUFFICES ASSUME Init PROVE Inspected /\ Reports
      OBVIOUS
  <1>1. Due = {}
        BY DEF Init, Due
  <1>2. Reports
        BY DEF Init, Reports, NoReport
  <1> QED  BY <1>1, <1>2 DEF Inspected

\* A packet that is counted goes on to the engine if it has addresses.
LEMMA StepInspected ==
    TypeOK /\ InHand /\ Inspected /\ [Next]_vars => Inspected'
<1> SUFFICES ASSUME TypeOK, InHand, Inspected, [Next]_vars PROVE Inspected'
    OBVIOUS
<1>1. ASSUME NEW p \in Packet, Receive(p) PROVE Inspected'
      <2>1. \A n \in packets_total : arrivals'[n] = arrivals[n]
            BY <1>1 DEF Receive, TypeOK, Current
      <2>2. Due' = Due
            BY <1>1, <2>1 DEF Receive, Due
      <2>3. QED  BY <1>1, <2>2 DEF Receive, Goto, Inspected
<1>2. ASSUME Malformed PROVE Inspected'
      <2>1. CurrentPacket \in Packet
            BY <1>2 DEF Malformed, Goto, TypeOK, InHand, HasPacket, Current, CurrentPacket
      <2>2. ~CurrentPacket.addressed
            BY <1>2, <2>1, PathAssumption DEF Malformed
      <2>3. Due' = Due
            BY <1>2, <2>2 DEF Malformed, Due, CurrentPacket
      <2>4. QED  BY <1>2, <2>3 DEF Malformed, Goto, Inspected
<1>3. ASSUME Count PROVE Inspected'
      <2>1. Due' = Due \cup (IF CurrentPacket.addressed THEN {Current} ELSE {})
            BY <1>3 DEF Count, Due, CurrentPacket
      <2>2. Current' = Current
            BY <1>3 DEF Count, Current
      <2>3. QED  BY <1>3, <2>1, <2>2 DEF Count, Inspected
<1>4. ASSUME Evaluate PROVE Inspected'
      <2>1. Due' = Due /\ Current' = Current
            BY <1>4 DEF Evaluate, Due, Current
      <2>2. QED  BY <1>4, <2>1 DEF Evaluate, Inspected
<1>5. ASSUME UNCHANGED <<arrivals, packets_total, inspected>>, at # "evaluate"
      PROVE  Inspected'
      <2>1. Due' = Due
            BY <1>5 DEF Due
      <2>2. QED  BY <1>5, <2>1 DEF Inspected
<1>6. ASSUME UNCHANGED <<arrivals, packets_total, inspected, at>> PROVE Inspected'
      <2>1. Due' = Due /\ Current' = Current
            BY <1>6 DEF Due, Current
      <2>2. QED  BY <1>6, <2>1 DEF Inspected
<1>7. ASSUME ReadSwitch \/ PushEvent \/ Capture \/ NoCapture \/ Show
      PROVE  UNCHANGED <<arrivals, packets_total, inspected>> /\ at # "evaluate"
      BY <1>7 DEF ReadSwitch, PushEvent, Capture, NoCapture, Show, Goto
<1>8. ASSUME Handlers \/ UNCHANGED vars
      PROVE  UNCHANGED <<arrivals, packets_total, inspected, at>>
      BY <1>8 DEF Handlers, ToggleDissector, SetMode, ReadTotal, ReadEngine, Answer, path, vars
<1>9. QED  BY <1>1, <1>2, <1>3, <1>4, <1>5, <1>6, <1>7, <1>8 DEF Next, Thread

LEMMA StepReports ==
    TypeOK /\ Inspected /\ Reports /\ [Next]_vars => Reports'
<1> SUFFICES ASSUME TypeOK, Inspected, Reports, [Next]_vars PROVE Reports'
    OBVIOUS
<1>1. ASSUME UNCHANGED <<report, inspected>> PROVE Reports'
      BY <1>1 DEF Reports
<1>2. ASSUME Evaluate PROVE Reports'
      <2>1. Cardinality(inspected) <= Cardinality(inspected \cup {Current})
            BY CountedIsFinite, FS_AddElement
      <2>2. Cardinality(inspected \cup {Current}) \in Nat /\ Cardinality(inspected) \in Nat
            BY CountedIsFinite, FS_AddElement, FS_CardinalityType
      <2>3. \A c \in Client : report[c].due \in Nat
            BY DEF TypeOK, Report
      <2>4. inspected' = inspected \cup {Current} /\ report' = report
            BY <1>2 DEF Evaluate
      <2>5. QED  BY <2>1, <2>2, <2>3, <2>4 DEF Reports
<1>3. ASSUME NEW c \in Client, ReadTotal(c) \/ ReadEngine(c) \/ Answer(c) PROVE Reports'
      <2>1. inspected' = inspected
            BY <1>3 DEF ReadTotal, ReadEngine, Answer, path
      <2>2. \A b \in Client : b # c => report'[b] = report[b]
            BY <1>3 DEF ReadTotal, ReadEngine, Answer, TypeOK
      <2>3. report[c].reads \in Seq({"packets_total", "inspected"})
            BY DEF TypeOK, Report
      <2>4. /\ Len(report'[c].reads) > 0 => report'[c].due <= Cardinality(inspected) + 1
            /\ Len(report'[c].reads) > 1 => report'[c].due <= report'[c].inspected + 1
            <3>1. CASE ReadTotal(c)
                  <4>1. Len(report[c].reads) = 0
                        BY <3>1, <2>3 DEF ReadTotal, NextRead, Reads
                  <4>2. /\ report'[c].reads = Append(report[c].reads, "packets_total")
                        /\ report'[c].due = Cardinality(Due)
                        BY <3>1 DEF ReadTotal, TypeOK
                  <4>3. QED  BY <2>3, <4>1, <4>2, DueLags
            <3>2. CASE ReadEngine(c)
                  <4>1. Len(report[c].reads) = 1
                        <5>1. Len(report[c].reads) \in {0, 1}
                              <6>1. NextRead(c) <= 2
                                    BY <3>2 DEF ReadEngine
                              <6>2. Len(report[c].reads) \in Nat
                                    BY <2>3
                              <6>3. QED  BY <6>1, <6>2, AtMostOne DEF NextRead
                        <5>2. Reads[Len(report[c].reads) + 1] = "inspected"
                              BY <3>2 DEF ReadEngine, NextRead
                        <5>3. Reads[1] = "packets_total"
                              BY DEF Reads
                        <5>4. QED  BY <5>1, <5>2, <5>3
                  <4>2. /\ report'[c].due = report[c].due
                        /\ report'[c].inspected = Cardinality(inspected)
                        BY <3>2 DEF ReadEngine, TypeOK
                  <4>3. report[c].due <= Cardinality(inspected) + 1
                        BY <4>1 DEF Reports
                  <4>4. QED  BY <4>2, <4>3
            <3>3. CASE Answer(c)
                  <4>1. report'[c] = NoReport
                        BY <3>3 DEF Answer, TypeOK
                  <4>2. QED  BY <4>1 DEF NoReport
            <3>4. QED  BY <1>3, <3>1, <3>2, <3>3
      <2>5. QED  BY <2>1, <2>2, <2>4 DEF Reports
<1>4. ASSUME NEW p \in Packet, Receive(p) PROVE UNCHANGED <<report, inspected>>
      BY <1>4 DEF Receive
<1>5. ASSUME Malformed \/ ReadSwitch \/ Count \/ PushEvent \/ Capture \/ NoCapture \/ Show
      PROVE  UNCHANGED <<report, inspected>>
      BY <1>5 DEF Malformed, ReadSwitch, Count, PushEvent, Capture, NoCapture, Show
<1>6. ASSUME NEW s \in Switch, NEW state \in BOOLEAN, ToggleDissector(s, state)
      PROVE  UNCHANGED <<report, inspected>>
      BY <1>6 DEF ToggleDissector, path
<1>7. ASSUME NEW m \in {"tap", "inline"}, SetMode(m) PROVE UNCHANGED <<report, inspected>>
      BY <1>7 DEF SetMode, path
<1>8. ASSUME UNCHANGED vars PROVE UNCHANGED <<report, inspected>>
      BY <1>8 DEF vars
<1>9. QED
      BY <1>1, <1>2, <1>3, <1>4, <1>5, <1>6, <1>7, <1>8 DEF Next, Thread, Handlers

-----------------------------------------------------------------------------
(* The switches *)

LEMMA InitSharp == Init => Sharp
  BY DEF Init, Sharp, Admitted

\* ReadSwitch admits a packet whose switch is on; Show counts it against a
\* switch that has fallen since, and nothing else is in flight then.
LEMMA StepSharp == TypeOK /\ Sharp /\ [Next]_vars => Sharp'
<1> SUFFICES ASSUME TypeOK, Sharp, [Next]_vars PROVE Sharp'
    OBVIOUS
<1>1. ASSUME NEW p \in Packet, Receive(p) PROVE Sharp'
      BY <1>1 DEF Receive, Goto, Sharp, Admitted
<1>2. ASSUME Malformed PROVE Sharp'
      BY <1>2 DEF Malformed, Goto, Sharp, Admitted
<1>3. ASSUME ReadSwitch PROVE Sharp'
      <2>1. CurrentSwitch' = CurrentSwitch
            BY <1>3 DEF ReadSwitch, CurrentSwitch, CurrentPacket, Current
      <2>2. at' = "count" => CurrentSwitch = "none" \/ enabled[CurrentSwitch]
            BY <1>3 DEF ReadSwitch, IsEnabled, CurrentSwitch
      <2>3. "none" \notin Switch
            BY DEF Switch
      <2>4. at' \in {"count", "receive"} /\ UNCHANGED <<enabled, overdue>>
            BY <1>3 DEF ReadSwitch
      <2>5. QED  BY <2>1, <2>2, <2>3, <2>4 DEF Sharp, Admitted
<1>4. ASSUME Count \/ Evaluate \/ PushEvent \/ Capture \/ NoCapture PROVE Sharp'
      <2>1. UNCHANGED <<arrivals, enabled, overdue>> /\ Admitted
            BY <1>4 DEF Count, Evaluate, PushEvent, Capture, NoCapture, Goto, Admitted
      <2>2. CurrentSwitch' = CurrentSwitch
            BY <2>1 DEF CurrentSwitch, CurrentPacket, Current
      <2>3. QED  BY <2>1, <2>2 DEF Sharp
<1>5. ASSUME Show PROVE Sharp'
      <2>1. Admitted /\ ~Admitted'
            BY <1>5 DEF Show, Goto, Admitted
      <2>2. \A s \in Switch :
              overdue'[s] = IF s = CurrentSwitch /\ ~enabled[s] THEN overdue[s] + 1
                                                               ELSE overdue[s]
            BY <1>5 DEF Show
      <2>3. QED  BY <2>1, <2>2 DEF Sharp
<1>6. ASSUME NEW s \in Switch, NEW state \in BOOLEAN, ToggleDissector(s, state) PROVE Sharp'
      <2>1. CurrentSwitch' = CurrentSwitch /\ Admitted' = Admitted
            BY <1>6 DEF ToggleDissector, path, CurrentSwitch, CurrentPacket, Current, Admitted
      <2>2. \A r \in Switch :
              /\ enabled'[r] = (IF r = s THEN state ELSE enabled[r])
              /\ overdue'[r] = (IF r = s /\ state # enabled[s] THEN 0 ELSE overdue[r])
            BY <1>6 DEF ToggleDissector, TypeOK
      <2>3. \A r \in Switch : enabled[r] \in BOOLEAN
            BY DEF TypeOK
      <2>4. QED  BY <2>1, <2>2, <2>3 DEF Sharp
<1>7. ASSUME UNCHANGED <<arrivals, at, enabled, overdue>> PROVE Sharp'
      <2>1. CurrentSwitch' = CurrentSwitch /\ Admitted' = Admitted
            BY <1>7 DEF CurrentSwitch, CurrentPacket, Current, Admitted
      <2>2. QED  BY <1>7, <2>1 DEF Sharp
<1>8. ASSUME NEW m \in {"tap", "inline"}, SetMode(m)
      PROVE  UNCHANGED <<arrivals, at, enabled, overdue>>
      BY <1>8 DEF SetMode, path
<1>9. ASSUME NEW c \in Client, ReadTotal(c) \/ ReadEngine(c) \/ Answer(c)
      PROVE  UNCHANGED <<arrivals, at, enabled, overdue>>
      BY <1>9 DEF ReadTotal, ReadEngine, Answer, path
<1>10. ASSUME UNCHANGED vars PROVE UNCHANGED <<arrivals, at, enabled, overdue>>
      BY <1>10 DEF vars
<1>11. QED
      BY <1>1, <1>2, <1>3, <1>4, <1>5, <1>6, <1>7, <1>8, <1>9, <1>10 DEF Next, Thread, Handlers

-----------------------------------------------------------------------------
(* The event list and the packet view *)

LEMMA InitViews == Init => Views
  BY DEF Init, Views, RowsRanked, EventsRanked, Ranked, EventAnnounces, ViewsAgree,
         EventsAreShown, RowsAreExplained, Range, HasPacket

LEMMA StepViews == TypeOK /\ InHand /\ Views /\ [Next]_vars => Views'
<1> SUFFICES ASSUME TypeOK, InHand, Views, [Next]_vars PROVE Views'
    OBVIOUS
<1> USE DEF Views, ViewsAgree
<1>types. /\ Current \in Nat
          /\ \A r \in Range(rows) : r \in Entry /\ r.packet \in Int
          /\ \A e \in Range(events) : e \in Entry /\ e.packet \in Int
      <2>1. \A r \in Range(rows) : r \in Entry
            BY DEF TypeOK, Range
      <2>2. \A e \in Range(events) : e \in Entry
            BY DEF TypeOK, Range
      <2>3. Current \in Nat
            BY DEF TypeOK, Current
      <2> QED  BY <2>1, <2>2, <2>3, EntryPackets
<1>1. ASSUME UNCHANGED <<arrivals, rows, events, verdict, at>> PROVE Views'
      <2>1. Current' = Current /\ Row' = Row
            BY <1>1 DEF Current, Row
      <2> QED
          BY <1>1, <2>1 DEF RowsRanked, EventsRanked, Ranked, EventAnnounces,
                            EventsAreShown, RowsAreExplained, Range, HasPacket
<1>2. ASSUME NEW p \in Packet, Receive(p) PROVE Views'
      <2>1. /\ Current' = Current + 1 /\ rows' = rows /\ events' = events
            /\ at = "receive" /\ at' = "dissect"
            BY <1>2 DEF Receive, Goto, TypeOK, Current
      <2>2. RowsRanked' /\ EventsRanked'
            BY <1>types, <2>1 DEF RowsRanked, EventsRanked, Ranked, Range
      <2>3. EventAnnounces'
            BY <2>1 DEF EventAnnounces
      <2>4. EventsAreShown' /\ RowsAreExplained'
            BY <2>1 DEF EventsAreShown, RowsAreExplained, Range
      <2> QED  BY <2>2, <2>3, <2>4
<1>3. ASSUME Malformed \/ ReadSwitch \/ Count \/ Evaluate PROVE Views'
      <2>1. /\ UNCHANGED <<arrivals, rows, events>>
            /\ at \in {"dissect", "count", "evaluate"}
            /\ at' \in {"receive", "count", "evaluate", "event", "show"}
            /\ at' = "show" => verdict' = "pass"
            BY <1>3 DEF Malformed, ReadSwitch, Count, Evaluate, Goto, InitialVerdict, Effective
      <2>2. Current' = Current
            BY <2>1 DEF Current
      <2>3. RowsRanked' /\ EventsRanked'
            BY <2>1, <2>2 DEF RowsRanked, EventsRanked, Ranked, Range, HasPacket
      <2>4. \A e \in Range(events) : e.packet # Current
            BY <1>types, <2>1 DEF EventsRanked
      <2>5. EventAnnounces'
            BY <2>1, <2>2, <2>4 DEF EventAnnounces, Range
      <2>6. EventsAreShown' /\ RowsAreExplained'
            BY <2>1, <2>2 DEF EventsAreShown, RowsAreExplained, Range
      <2> QED  BY <2>3, <2>5, <2>6
<1>4. ASSUME PushEvent PROVE Views'
      <2>1. /\ UNCHANGED <<arrivals, rows, verdict>> /\ at = "event" /\ at' = "capture"
            /\ events' = Ring(events, MaxEvents, Row)
            BY <1>4 DEF PushEvent, Goto, Row
      <2>2. Current' = Current /\ Row' = Row
            BY <2>1 DEF Current, Row
      <2>3. Row \in Entry /\ Row.packet = Current
            BY <2>1 DEF Row, Entry, TypeOK, InHand, HasPacket
      <2>4. \A e \in Range(events) : e.packet < Row.packet
            BY <2>1, <2>3 DEF EventsRanked
      <2>5. /\ events \in Seq(Entry) /\ Len(events) <= MaxEvents
            /\ MaxEvents \in Nat \ {0} /\ Ranked(events)
            BY PathAssumption DEF TypeOK, EventsRanked
      <2>6. /\ Ranked(events') /\ Row \in Range(events')
            /\ Range(events') \subseteq Range(events) \cup {Row}
            /\ Len(events) = MaxEvents => Len(events') = MaxEvents
            /\ \A e \in Range(events) :
                  \/ e \in Range(events')
                  \/ /\ Len(events') = MaxEvents
                     /\ \A r \in Range(events') : e.packet < r.packet
            BY <2>1, <2>3, <2>4, <2>5, RingForgetsOldest
      <2>7. EventsRanked'
            BY <1>types, <2>1, <2>2, <2>3, <2>4, <2>6 DEF EventsRanked
      <2>8. RowsRanked'
            BY <2>1, <2>2 DEF RowsRanked, Ranked, Range, HasPacket
      <2>9. EventAnnounces'
            BY <1>types, <2>1, <2>2, <2>3, <2>4, <2>6 DEF EventAnnounces
      <2>10. EventsAreShown'
            <3> SUFFICES ASSUME NEW e \in Range(events')
                         PROVE  \/ e \in Range(rows)
                                \/ e.packet = Current
                                \/ /\ Len(rows) = MaxRows
                                   /\ \A r \in Range(rows) : e.packet < r.packet
                BY <2>1, <2>2 DEF EventsAreShown
            <3> QED  BY <2>3, <2>6 DEF EventsAreShown
      <2>11. RowsAreExplained'
            <3> SUFFICES ASSUME NEW r \in Range(rows), r.verdict # "pass"
                         PROVE  \/ r \in Range(events')
                                \/ /\ Len(events') = MaxEvents
                                   /\ \A e \in Range(events') : r.packet < e.packet
                BY <2>1 DEF RowsAreExplained
            <3>1. r.packet < Row.packet
                  BY <2>1, <2>3 DEF RowsRanked, HasPacket
            <3> QED  BY <2>6, <3>1 DEF RowsAreExplained
      <2> QED  BY <2>7, <2>8, <2>9, <2>10, <2>11
<1>5. ASSUME Capture \/ NoCapture PROVE Views'
      <2>1. /\ UNCHANGED <<arrivals, rows, events, verdict>>
            /\ at = "capture" /\ at' = "show"
            BY <1>5 DEF Capture, NoCapture, Goto
      <2>2. Current' = Current /\ Row' = Row
            BY <2>1 DEF Current, Row
      <2> QED
          BY <2>1, <2>2 DEF RowsRanked, EventsRanked, Ranked, EventAnnounces,
                            EventsAreShown, RowsAreExplained, Range, HasPacket
<1>6. ASSUME Show PROVE Views'
      <2>1. /\ UNCHANGED <<arrivals, events, verdict>> /\ at = "show" /\ at' = "receive"
            /\ rows' = Ring(rows, MaxRows, Row)
            BY <1>6 DEF Show, Goto
      <2>2. Current' = Current
            BY <2>1 DEF Current
      <2>3. Row \in Entry /\ Row.packet = Current /\ Row.verdict = verdict
            BY <2>1 DEF Row, Entry, TypeOK, InHand, HasPacket
      <2>4. \A r \in Range(rows) : r.packet < Row.packet
            BY <2>1, <2>3 DEF RowsRanked, HasPacket
      <2>5. /\ rows \in Seq(Entry) /\ Len(rows) <= MaxRows
            /\ MaxRows \in Nat \ {0} /\ Ranked(rows)
            BY PathAssumption DEF TypeOK, RowsRanked
      <2>6. /\ Ranked(rows') /\ Row \in Range(rows')
            /\ Range(rows') \subseteq Range(rows) \cup {Row}
            /\ Len(rows) = MaxRows => Len(rows') = MaxRows
            /\ \A r \in Range(rows) :
                  \/ r \in Range(rows')
                  \/ Len(rows') = MaxRows /\ \A s \in Range(rows') : r.packet < s.packet
            BY <2>1, <2>3, <2>4, <2>5, RingForgetsOldest
      <2>7. RowsRanked'
            BY <1>types, <2>1, <2>2, <2>3, <2>4, <2>6 DEF RowsRanked, HasPacket
      <2>8. EventsRanked'
            BY <2>1, <2>2 DEF EventsRanked, Ranked, Range
      <2>9. EventAnnounces'
            BY <2>1 DEF EventAnnounces
      <2>10. EventsAreShown'
            <3> SUFFICES ASSUME NEW e \in Range(events)
                         PROVE  \/ e \in Range(rows')
                                \/ /\ Len(rows') = MaxRows
                                   /\ \A r \in Range(rows') : e.packet < r.packet
                BY <2>1 DEF EventsAreShown, Range
            <3>1. CASE e.packet = Current
                  BY <2>1, <2>6, <3>1 DEF EventAnnounces
            <3>2. CASE e.packet # Current
                  <4>1. e.packet < Row.packet
                        BY <1>types, <2>3, <3>2 DEF EventsRanked
                  <4>2. \/ e \in Range(rows)
                        \/ Len(rows) = MaxRows /\ \A r \in Range(rows) : e.packet < r.packet
                        BY <3>2 DEF EventsAreShown
                  <4> QED  BY <2>6, <4>1, <4>2
            <3> QED  BY <3>1, <3>2
      <2>11. RowsAreExplained'
            BY <2>1, <2>3, <2>6 DEF RowsAreExplained, EventAnnounces
      <2> QED  BY <2>7, <2>8, <2>9, <2>10, <2>11
<1>7. ASSUME Handlers \/ UNCHANGED vars
      PROVE  UNCHANGED <<arrivals, rows, events, verdict, at>>
      BY <1>7 DEF Handlers, ToggleDissector, SetMode, ReadTotal, ReadEngine, Answer, path, vars
<1>8. QED  BY <1>1, <1>2, <1>3, <1>4, <1>5, <1>6, <1>7 DEF Next, Thread

-----------------------------------------------------------------------------
(* Theorems *)

\* The conjunction of all of the above is an inductive invariant.
THEOREM InductiveInvariant == Spec => []IInv
  <1>1. Init => IInv
        BY InitTypes, InitEvidence, InitReports, InitSharp, InitViews DEF IInv
  <1>2. IInv /\ [Next]_vars => IInv'
        BY StepTypes, StepEvidence, StepInspected, StepReports, StepSharp, StepViews
        DEF IInv
  <1> QED  BY <1>1, <1>2, PTL DEF Spec

\* TypeOK: both rings keep their size, and nothing is counted before it came.
THEOREM PathTypes == Spec => []TypeOK
  <1>1. IInv => TypeOK
        BY DEF IInv
  <1> QED  BY <1>1, InductiveInvariant, PTL

\* ToggleIsSharp: after a dissector is switched off at most one more of its
\* packets is shown, for any number of toggles.
THEOREM TogglesAreSharp == Spec => []ToggleIsSharp
  <1>1. IInv => ToggleIsSharp
        BY DEF IInv, Sharp, ToggleIsSharp
  <1> QED  BY <1>1, InductiveInvariant, PTL

\* SnapshotAccountsForPackets: an answer of snapshot lags by one packet, for
\* any number of tasks and however far the thread gets between two reads.
THEOREM SnapshotsLagByOne == Spec => []SnapshotAccountsForPackets
  <1>1. ASSUME IInv PROVE SnapshotAccountsForPackets
        <2>1. \A c \in Client : report[c].reads \in Seq({"packets_total", "inspected"})
              BY <1>1 DEF IInv, TypeOK, Report
        <2> QED  BY <1>1, <2>1 DEF IInv, Reports, SnapshotAccountsForPackets, NextRead
  <1> QED  BY <1>1, InductiveInvariant, PTL

\* ViewsAgree: the event list and the packet view tell one story, for any
\* sizes of the two rings and whenever the mode changes.
THEOREM EventsAndRowsAgree == Spec => []ViewsAgree
  <1>1. IInv => ViewsAgree
        BY DEF IInv, Views
  <1> QED  BY <1>1, InductiveInvariant, PTL

\* AlertsEvidencedUntilEviction: what a capture triggered by an alert holds:
\* its trigger and all that came before, if the ring has evicted nothing, and
\* otherwise as many of the oldest arrivals as it counts, not its trigger.
THEOREM CapturesHoldTheirCauseUntilEviction == Spec => []AlertsEvidencedUntilEviction
  <1>1. IInv => AlertsEvidencedUntilEviction
        BY DEF IInv
  <1> QED  BY <1>1, InductiveInvariant, PTL

=============================================================================
