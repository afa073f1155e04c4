------------------------- MODULE CaptureThreadProofs -------------------------
(* Proofs about what runs on the capture thread: its loop (CaptureLoop),    *)
(* the parser it calls on each frame (Dissector), and the rule engine it    *)
(* shares with the HTTP handlers (IpsEngine).                               *)
EXTENDS CaptureLoop, Dissector, IpsEngine, FunctionTheorems, SequenceTheorems, Sums

-----------------------------------------------------------------------------
(* CaptureLoop, for any interfaces, devices and number of HTTP tasks        *)

\* A packet counts as late only while capture is disabled; and after a late
\* one the thread is on its way to the outer loop, or waits there.
LateThenOut ==
    /\ capture_enabled => late = 0
    /\ late # 0 => late = 1 /\ at \in {"inner", "outer"}

\* In the inner loop a provider of the thread's interface is open.
ProviderOpen ==
    IF at \in InnerLoop THEN provider = iface ELSE provider = NoDevice

LoopInv == LoopTypeOK /\ LateThenOut /\ ProviderOpen

-----------------------------------------------------------------------------

\* The thread starts outside the inner loop with capture enabled.
LEMMA LoopStarts == LoopInit => LoopInv
<1> SUFFICES ASSUME LoopInit PROVE LoopInv
    OBVIOUS
<1>1. LoopTypeOK
      <2>1. capture_enabled \in BOOLEAN /\ restart_capture \in BOOLEAN
            BY DEF LoopInit
      <2>2. request \in [Client -> Device \cup {NoDevice}]
            BY DEF LoopInit
      <2>3. late \in 0 .. LateMax
            BY DEF LoopInit, LateMax
      <2> QED  BY <2>1, <2>2, <2>3 DEF LoopInit, LoopTypeOK
<1>2. LateThenOut
      BY DEF LoopInit, LateThenOut
<1>3. ProviderOpen
      BY DEF LoopInit, ProviderOpen, InnerLoop
<1> QED  BY <1>1, <1>2, <1>3 DEF LoopInv

\* Each step of the capture thread preserves the invariant.
LEMMA CapturePreserves == LoopInv /\ Capture => LoopInv'
<1> SUFFICES ASSUME LoopInv, Capture PROVE LoopInv'
    OBVIOUS
<1> USE LoopAssumption
    DEF LoopInv, LoopTypeOK, LateThenOut, ProviderOpen, InnerLoop, LateMax, Goto, shared
<1>1. CASE CheckEnabled
      BY <1>1 DEF CheckEnabled
<1>2. CASE ReadInterface
      BY <1>2 DEF ReadInterface
<1>3. CASE ClearRestart
      BY <1>3 DEF ClearRestart
<1>4. CASE OpenSucceeds
      BY <1>4 DEF OpenSucceeds, CanOpen
<1>5. CASE OpenFails
      BY <1>5 DEF OpenFails
<1>6. CASE CheckToggle
      BY <1>6 DEF CheckToggle, AfterToggleCheck, ProviderAfter
<1>7. CASE CheckRestart
      BY <1>7 DEF CheckRestart, AfterRestartCheck, ProviderAfter
<1>8. CASE Handle
      <2>1. late = 0
            BY <1>8 DEF Handle
      <2> QED  BY <1>8, <2>1 DEF Handle
<1>9. CASE NothingRead
      BY <1>9 DEF NothingRead
<1> QED  BY <1>1, <1>2, <1>3, <1>4, <1>5, <1>6, <1>7, <1>8, <1>9 DEF Capture, Open, Receive

\* Each step of an HTTP handler preserves the invariant, whatever the thread
\* is at.
LEMMA HandlerPreserves == ASSUME NEW c \in Client PROVE LoopInv /\ Handler(c) => LoopInv'
<1> SUFFICES ASSUME LoopInv, Handler(c) PROVE LoopInv'
    OBVIOUS
<1> USE LoopAssumption
    DEF LoopInv, LoopTypeOK, LateThenOut, ProviderOpen, InnerLoop, LateMax, thread
<1>1. ASSUME NEW enabled \in BOOLEAN, SetEnabled(enabled) PROVE LoopInv'
      BY <1>1 DEF SetEnabled
<1>2. ASSUME NEW name \in Iface, WriteInterface(c, name) PROVE LoopInv'
      BY <1>2 DEF WriteInterface
<1>3. CASE RaiseRestart(c)
      BY <1>3 DEF RaiseRestart
<1> QED  BY <1>1, <1>2, <1>3 DEF Handler

-----------------------------------------------------------------------------

\* The strengthened invariant holds however requests and the thread interleave.
THEOREM LoopInvariant == LoopSpec => []LoopInv
<1>1. LoopInv /\ [LoopNext]_loop_vars => LoopInv'
      <2> SUFFICES ASSUME LoopInv, [LoopNext]_loop_vars PROVE LoopInv'
          OBVIOUS
      <2>1. CASE LoopNext
            BY <2>1, CapturePreserves, HandlerPreserves DEF LoopNext
      <2>2. CASE UNCHANGED loop_vars
            BY <2>2 DEF loop_vars, LoopInv, LoopTypeOK, LateThenOut, ProviderOpen
      <2> QED  BY <2>1, <2>2
<1> QED  BY <1>1, LoopStarts, PTL DEF LoopSpec

\* LoopTypeOK: in particular the thread never has a provider open for an interface
\* that is not a device.
THEOREM LoopTypes == LoopSpec => []LoopTypeOK
BY LoopInvariant, PTL DEF LoopInv

\* QuietAfterDisable: after the toggle at most one more packet is handled, for
\* any number of HTTP tasks that toggle and switch.
THEOREM QuietAfterToggle == LoopSpec => []QuietAfterDisable
<1>1. LoopInv => QuietAfterDisable
      BY DEF LoopInv, LoopTypeOK, LateThenOut, QuietAfterDisable, LateMax
<1> QED  BY <1>1, LoopInvariant, PTL


-----------------------------------------------------------------------------
(* Dissector, for every set of frame lengths and every value that the       *)
(* length fields of a frame may hold                                        *)

UpperHeader == {"vlan", "ipv4", "ipv6", "tcp", "udp", "icmp", "icmpv6"}

\* What the parser knows where it stands.  The header dissectors know that
\* they start within the frame, the TLS walk that there is a payload, that its
\* limit lies within that payload, and that the next length field does.
Position ==
    /\ stage = "ethernet" => offset = 0
    /\ stage \in UpperHeader => offset <= data_len
    /\ stage \in TlsStage => payload_len > 0
    /\ stage \in TlsStage \ {"tls_record"} => limit <= data_len - payload_offset
    /\ stage \in {"tls_session", "tls_compression"} => offset + 1 <= limit
    /\ stage \in {"tls_ciphers", "tls_extensions"} => offset + 2 <= limit

ParserInv == ParserTypeOK /\ ReadsInBounds /\ PayloadInFrame /\ Position

\* Addresses come with the IP header and a name with the header after it: below
\* IP there are no addresses yet, and behind the transport header both are there.
Named ==
    /\ addressed \in BOOLEAN
    /\ stage \in {"ethernet", "vlan", "ipv4", "ipv6"} => addressed = FALSE
    /\ stage \notin Header /\ addressed = TRUE => protocol_name # ""

-----------------------------------------------------------------------------

\* The parser starts at the first byte of a frame with nothing read.
LEMMA ParserStarts == ParseInit => ParserInv
<1> SUFFICES ASSUME ParseInit PROVE ParserInv
    OBVIOUS
<1>1. data_len \in FrameLength /\ data_len \in Nat
      BY DissectorAssumption DEF ParseInit
<1>2. ParserTypeOK
      BY <1>1 DEF ParseInit, ParserTypeOK, Stage, Header, Transport
<1>3. ReadsInBounds /\ PayloadInFrame
      <2>1. read = 0 /\ payload_len = 0
            BY DEF ParseInit
      <2> QED  BY <1>1, <2>1 DEF ReadsInBounds, PayloadInFrame
<1>4. Position
      BY <1>1 DEF ParseInit, Position, UpperHeader, TlsStage
<1> QED  BY <1>2, <1>3, <1>4 DEF ParserInv

\* The Ethernet and IP headers: whatever type or header length they name, the
\* next header starts within the frame.
LEMMA NetworkPreserves == ParserInv /\ Network => ParserInv'
<1> SUFFICES ASSUME ParserInv, Network PROVE ParserInv'
    OBVIOUS
<1>0. data_len \in Nat /\ offset \in Nat /\ limit \in Nat
      BY DissectorAssumption DEF ParserInv, ParserTypeOK
<1> USE DEF ParserInv, ParserTypeOK, ReadsInBounds, PayloadInFrame, Position, Stage, Header,
            TlsStage, Transport, Unknown, UpperHeader
<1>a. ASSUME NEW header, NEW len, NEW next \in {"rejected", "done"}, NEW name,
             CutShort(header, len, next, name)
      PROVE  ParserInv'
      BY <1>0, <1>a DEF CutShort, layer3, layer4
<1>1. CASE Reject \/ ShortNetwork
      BY <1>a, <1>1 DEF Reject, ShortNetwork
<1>2. ASSUME NEW header, NEW len \in Nat, LinkHeader(header, len, {"vlan", "ipv4", "ipv6", Unknown})
      PROVE  ParserInv'
      <2>1. /\ offset' = offset + len /\ read' = offset + len /\ offset + len <= data_len
            /\ UNCHANGED <<data_len, limit>>
            BY <1>0, <1>2 DEF LinkHeader, Fits
      <2>2. UNCHANGED <<ip_proto, addressed, src_port, dst_port, payload_offset, payload_len>>
            BY <1>2 DEF LinkHeader, layer3, layer4
      <2>3. stage' \in {"vlan", "ipv4", "ipv6", "done"}
            BY <1>2 DEF LinkHeader
      <2> QED  BY <1>0, <2>1, <2>2, <2>3
<1>3. CASE Ethernet \/ Vlan
      BY <1>2, <1>3 DEF Ethernet, Vlan, LinkHeader
<1>4. ASSUME NEW proto \in Transport, NEW start \in Nat, start <= data_len,
             ToTransport(proto, start), UNCHANGED <<data_len, limit>>,
             read' \in Nat, read' <= data_len
      PROVE  ParserInv'
      BY <1>0, <1>4 DEF ToTransport, SaturatingSub, layer4
<1>5. CASE Ipv4
      <2>1. PICK ihl \in {4 * n : n \in Nibble} :
               \/ /\ IsBadIhl(ihl)
                  /\ read' = offset + 1
                  /\ stage' = "done"
                  /\ UNCHANGED <<offset, meta>>
               \/ /\ ~IsBadIhl(ihl)
                  /\ read' = offset + 20
                  /\ \E proto \in Transport : ToTransport(proto, offset + ihl)
            BY <1>5 DEF Ipv4
      <2>2. /\ ihl \in Nat /\ offset + ihl \in Nat /\ offset + 20 <= data_len
            /\ UNCHANGED <<data_len, limit>>
            BY <1>0, <1>5, DissectorAssumption DEF Ipv4, Fits
      <2>3. CASE IsBadIhl(ihl)
            BY <1>0, <2>1, <2>2, <2>3 DEF meta, layer3, layer4
      <2>4. CASE ~IsBadIhl(ihl)
            <3>1. PICK proto \in Transport : ToTransport(proto, offset + ihl)
                  BY <2>1, <2>4
            <3>2. offset + ihl <= data_len
                  BY <1>0, <2>2, <2>4 DEF IsBadIhl
            <3>3. read' \in Nat /\ read' <= data_len
                  BY <1>0, <2>1, <2>2, <2>4
            <3> QED  BY <1>4, <2>2, <3>1, <3>2, <3>3
      <2> QED  BY <2>3, <2>4
<1>6. CASE Ipv6
      <2>1. PICK proto \in Transport : ToTransport(proto, offset + 40)
            BY <1>6 DEF Ipv6
      <2>2. /\ offset + 40 \in Nat /\ offset + 40 <= data_len /\ read' = offset + 40
            /\ UNCHANGED <<data_len, limit>>
            BY <1>0, <1>6 DEF Ipv6, Fits
      <2> QED  BY <1>0, <1>4, <2>1, <2>2
<1> QED  BY <1>1, <1>3, <1>5, <1>6 DEF Network

\* The headers above IP and the identification: the payload they report lies
\* in the frame, and the TLS walk begins only when there is some.
LEMMA UpperPreserves == ParserInv /\ Upper => ParserInv'
<1> SUFFICES ASSUME ParserInv, Upper PROVE ParserInv'
    OBVIOUS
<1>0. data_len \in Nat /\ offset \in Nat /\ limit \in Nat
      BY DissectorAssumption DEF ParserInv, ParserTypeOK
<1> USE DEF ParserInv, ParserTypeOK, ReadsInBounds, PayloadInFrame, Position, Stage, Header,
            TlsStage, UpperHeader
<1>1. CASE ShortTransport
      BY <1>0, <1>1 DEF ShortTransport, CutShort, layer3, layer4
<1>2. ASSUME NEW name, NEW src \in Nat, NEW dst \in Nat, NEW start \in Nat, NEW len \in Nat,
             len > 0 => start + len <= data_len,
             NEW n \in Nat, offset + n <= data_len, Parsed(name, n, src, dst, start, len)
      PROVE  ParserInv'
      BY <1>0, <1>2 DEF Parsed, layer3
<1>3. CASE Tcp
      <2>1. PICK src, dst \in Port, words \in Nibble :
               Parsed("tcp", 16, src, dst, offset + Greatest(4 * words, 20),
                      SaturatingSub(data_len, offset + Greatest(4 * words, 20)))
            BY <1>3 DEF Tcp
      <2> DEFINE start == offset + Greatest(4 * words, 20)
      <2>2. start \in Nat /\ src \in Nat /\ dst \in Nat
            BY <1>0, DissectorAssumption DEF Greatest
      <2> HIDE DEF start
      <2>3. /\ SaturatingSub(data_len, start) \in Nat
            /\ SaturatingSub(data_len, start) > 0 => start + SaturatingSub(data_len, start) <= data_len
            BY <1>0, <2>2 DEF SaturatingSub
      <2>4. offset + 16 <= data_len
            BY <1>0, <1>3 DEF Tcp, Fits
      <2>5. Parsed("tcp", 16, src, dst, start, SaturatingSub(data_len, start))
            BY <2>1 DEF start
      <2> QED  BY <1>2, <2>2, <2>3, <2>4, <2>5
<1>4. CASE Udp
      <2>1. PICK src, dst \in Port, udp_len \in WordValue :
               Parsed("udp", 6, src, dst, offset + 8, UdpPayload(udp_len, offset + 8))
            BY <1>4 DEF Udp
      <2>2. src \in Nat /\ dst \in Nat /\ udp_len \in Nat
            BY DissectorAssumption
      <2>3. offset + 8 <= data_len /\ offset + 8 \in Nat
            BY <1>0, <1>4 DEF Udp, Fits
      <2>4. /\ UdpPayload(udp_len, offset + 8) \in Nat
            /\ offset + 8 + UdpPayload(udp_len, offset + 8) <= data_len
            BY <1>0, <2>2, <2>3 DEF UdpPayload, SaturatingSub, Least
      <2>5. offset + 6 <= data_len
            BY <1>0, <2>3
      <2> QED  BY <1>2, <2>1, <2>2, <2>3, <2>4, <2>5
<1>5. CASE Icmp
      <2> DEFINE start == offset + Least(8, data_len - offset)
      <2>1. offset + 4 <= data_len /\ offset + 2 <= data_len
            BY <1>0, <1>5 DEF Icmp, Fits
      <2>2. start \in Nat /\ start <= data_len
            BY <1>0, <2>1 DEF Least
      <2>3. Parsed(stage, 2, src_port, dst_port, start, SaturatingSub(data_len, start))
            BY <1>5 DEF Icmp
      <2> HIDE DEF start
      <2>4. /\ SaturatingSub(data_len, start) \in Nat
            /\ start + SaturatingSub(data_len, start) <= data_len
            BY <1>0, <2>2 DEF SaturatingSub
      <2>5. src_port \in Nat /\ dst_port \in Nat
            OBVIOUS
      <2> QED  BY <1>2, <2>1, <2>2, <2>3, <2>4, <2>5
<1>6. CASE Identify
      <2>1. stage' = "tls_record" => payload_len > 0
            BY <1>6 DEF Identify, WantsTls
      <2>2. stage' \in {"tls_record", "http", "done"}
            BY <1>6 DEF Identify
      <2> QED  BY <1>0, <1>6, <2>1, <2>2 DEF Identify, layer3, layer4
<1>7. CASE Http
      BY <1>0, <1>7 DEF Http, layer3, layer4
<1> QED  BY <1>1, <1>3, <1>4, <1>5, <1>6, <1>7 DEF Upper

\* The TLS walk: the limit stays within the payload, and a stage is entered
\* only when the length field that it reads is there.
LEMMA TlsPreserves == ParserInv /\ Tls => ParserInv'
<1> SUFFICES ASSUME ParserInv, Tls PROVE ParserInv'
    OBVIOUS
<1>0. data_len \in Nat /\ offset \in Nat /\ limit \in Nat /\ payload_offset \in Nat
      /\ payload_len \in Nat
      BY DissectorAssumption DEF ParserInv, ParserTypeOK
<1> USE DEF ParserInv, ParserTypeOK, ReadsInBounds, PayloadInFrame, Position, Stage, Header,
            TlsStage, UpperHeader, Touch
<1>1. CASE TlsRecord
      <2>1. PICK record_len \in WordValue, is_client_hello \in BOOLEAN :
               /\ limit' = Least(5 + record_len, PayloadBytes)
               /\ stage' = IF PayloadBytes >= 9 /\ is_client_hello /\ 43 < limit'
                           THEN "tls_session" ELSE "done"
               /\ Touch(IF PayloadBytes < 5 THEN 0 ELSE IF PayloadBytes < 9 THEN 5 ELSE 6)
            BY <1>1 DEF TlsRecord
      <2>2. stage = "tls_record" /\ offset' = 43 /\ UNCHANGED <<data_len, meta>>
            BY <1>1 DEF TlsRecord
      <2>3. PayloadBytes \in Nat /\ payload_offset + PayloadBytes = data_len
            BY <1>0, <2>2 DEF PayloadBytes
      <2>4. limit' \in Nat /\ limit' <= PayloadBytes
            BY <2>1, <2>3, DissectorAssumption DEF Least
      <2>5. read' \in Nat /\ read' <= data_len
            BY <1>0, <2>1, <2>3
      <2>6. stage' = "done" \/ (stage' = "tls_session" /\ 43 < limit')
            BY <2>1
      <2> QED  BY <1>0, <2>2, <2>3, <2>4, <2>5, <2>6 DEF meta, layer3, layer4
<1>2. ASSUME NEW width \in {1, 2}, NEW next_width \in {1, 2}, NEW values \in SUBSET Nat,
             NEW field \in TlsStage \ {"tls_record"}, offset + width <= limit,
             NEW next \in {"tls_ciphers", "tls_compression", "tls_extensions"},
             next = "tls_compression" <=> next_width = 1,
             SkipField(field, width, values, next, next_width)
      PROVE  ParserInv'
      <2>1. PICK n \in values :
               /\ offset' = offset + width + n
               /\ stage' = IF Overruns(offset', next_width) THEN "done" ELSE next
            BY <1>2 DEF SkipField
      <2>2. /\ stage = field /\ read' = payload_offset + (offset + width)
            /\ UNCHANGED <<data_len, limit, meta>>
            BY <1>2 DEF SkipField
      <2>3. offset' \in Nat
            BY <1>0, <1>2, <2>1
      <2>4. read' \in Nat /\ read' <= data_len
            BY <1>0, <1>2, <2>2
      <2>5. stage' = "done" \/ (stage' = next /\ offset' + next_width <= limit)
            BY <1>0, <2>1, <2>3 DEF Overruns
      <2> QED  BY <1>0, <1>2, <2>2, <2>3, <2>4, <2>5 DEF meta, layer3, layer4
<1>3. CASE TlsSession
      BY <1>2, <1>3, DissectorAssumption DEF TlsSession, SkipField
<1>4. CASE TlsCiphers
      BY <1>2, <1>4, DissectorAssumption DEF TlsCiphers, SkipField
<1>5. CASE TlsCompression
      BY <1>2, <1>5, DissectorAssumption DEF TlsCompression, SkipField
<1>6. CASE TlsExtensions
      <2>1. PICK n \in WordValue : limit' = Least(offset + 2 + n, limit)
            BY <1>6 DEF TlsExtensions
      <2>2. limit' \in Nat /\ limit' <= limit
            BY <1>0, <2>1, DissectorAssumption DEF Least
      <2> QED  BY <1>0, <1>6, <2>2 DEF TlsExtensions, meta, layer3, layer4
<1>7. CASE TlsExtension
      <2>1. PICK ext_len \in WordValue :
               \/ /\ Touch(offset + 4)
                  /\ offset' = AfterExtension(ext_len)
                  /\ UNCHANGED stage
               \/ /\ IsSni(ext_len)
                  /\ \E name_len \in WordValue :
                        \/ /\ offset + 9 + name_len <= limit
                           /\ Touch(offset + 9 + name_len)
                           /\ stage' = "done"
                           /\ UNCHANGED offset
                        \/ /\ offset + 9 + name_len > limit
                           /\ Touch(offset + 9)
                           /\ offset' = AfterExtension(ext_len)
                           /\ UNCHANGED stage
            BY <1>7 DEF TlsExtension
      <2>2. stage = "tls_extension" /\ offset + 4 <= limit /\ UNCHANGED <<data_len, limit, meta>>
            BY <1>7 DEF TlsExtension
      <2>3. ext_len \in Nat /\ AfterExtension(ext_len) \in Nat
            BY <1>0, DissectorAssumption DEF AfterExtension
      <2>4. read' \in Nat /\ read' <= data_len
            BY <1>0, <2>1, <2>2, <2>3, DissectorAssumption DEF IsSni
      <2>5. offset' \in Nat /\ stage' \in {"tls_extension", "done"}
            BY <1>0, <2>1, <2>2, <2>3
      <2> QED  BY <1>0, <2>2, <2>4, <2>5 DEF meta, layer3, layer4
<1>8. CASE TlsEnd
      BY <1>0, <1>8 DEF TlsEnd, meta, layer3, layer4
<1> QED  BY <1>1, <1>3, <1>4, <1>5, <1>6, <1>7, <1>8 DEF Tls

-----------------------------------------------------------------------------

\* The strengthened invariant holds in every state of every parse.
THEOREM ParserInvariant == ParseSpec => []ParserInv
<1>1. ParserInv /\ [ParseNext]_parse_vars => ParserInv'
      <2> SUFFICES ASSUME ParserInv, [ParseNext]_parse_vars PROVE ParserInv'
          OBVIOUS
      <2>1. CASE ParseNext
            BY <2>1, NetworkPreserves, UpperPreserves, TlsPreserves DEF ParseNext
      <2>2. CASE UNCHANGED parse_vars
            BY <2>2 DEF parse_vars, meta, layer3, layer4, ParserInv, ParserTypeOK, ReadsInBounds,
                        PayloadInFrame, Position
      <2> QED  BY <2>1, <2>2
<1> QED  BY <1>1, ParserStarts, PTL DEF ParseSpec

\* ParserTypeOK: no offset and no length that dissect_packet computes is negative.
THEOREM ParserTypes == ParseSpec => []ParserTypeOK
BY ParserInvariant, PTL DEF ParserInv

\* ReadsInBounds: no frame makes dissect_packet index behind its end, for any
\* frame length and any value of the frame's length fields.
THEOREM NoReadOutOfBounds == ParseSpec => []ReadsInBounds
BY ParserInvariant, PTL DEF ParserInv

\* PayloadInFrame: the payload handed to the flow table lies in the frame.
THEOREM PayloadStaysInFrame == ParseSpec => []PayloadInFrame
BY ParserInvariant, PTL DEF ParserInv

\* WalkAdvances: no step of dissect_packet comes back to where it was, whatever
\* lengths the frame holds; the walk over the TLS extensions gains four bytes a
\* turn.
THEOREM EveryStepAdvances == ParseSpec => WalkAdvances
<1>1. ParserInv /\ [ParseNext]_parse_vars => [stage' = stage => offset' >= offset + 4]_parse_vars
      <2> SUFFICES ASSUME ParserInv, ParseNext, stage' = stage PROVE offset' >= offset + 4
          OBVIOUS
      <2>0. offset \in Nat
            BY DEF ParserInv, ParserTypeOK
      <2> USE DEF Unknown, Transport
      <2>1. ~Network
            BY DEF Network, Reject, ShortNetwork, CutShort, Ethernet, Vlan, LinkHeader, Ipv4, Ipv6,
                   ToTransport
      <2>2. ~Upper
            BY DEF Upper, ShortTransport, CutShort, Tcp, Udp, Icmp, Parsed, Identify, Http
      <2>3. ~(TlsRecord \/ TlsSession \/ TlsCiphers \/ TlsCompression \/ TlsExtensions \/ TlsEnd)
            BY DEF TlsRecord, TlsSession, TlsCiphers, TlsCompression, SkipField, TlsExtensions,
                   TlsEnd
      <2>4. TlsExtension
            BY <2>1, <2>2, <2>3 DEF ParseNext, Tls
      <2>5. PICK ext_len \in WordValue : offset' = AfterExtension(ext_len)
            BY <2>4 DEF TlsExtension
      <2> QED  BY <2>0, <2>5, DissectorAssumption DEF AfterExtension
<1> QED  BY <1>1, ParserInvariant, PTL DEF ParseSpec, WalkAdvances

-----------------------------------------------------------------------------

\* The Ethernet and IP headers: a frame that ends in one of them has no
\* addresses, and an IP header hands over to a protocol or names the frame.
LEMMA NetworkNames == Named /\ Network => Named'
<1> SUFFICES ASSUME Named, Network PROVE Named'
    OBVIOUS
<1> USE DEF Named, Header, Unknown, layer3
<1>1. CASE Reject \/ ShortNetwork
      <2>1. stage \in {"ethernet", "vlan", "ipv4", "ipv6"} /\ stage' \in {"rejected", "done"}
            BY <1>1 DEF Reject, ShortNetwork, CutShort
      <2>2. addressed' = addressed
            BY <1>1 DEF Reject, ShortNetwork, CutShort
      <2> QED  BY <2>1, <2>2
<1>2. CASE Ethernet \/ Vlan
      BY <1>2 DEF Ethernet, Vlan, LinkHeader
<1>3. ASSUME NEW proto \in Transport, NEW start, ToTransport(proto, start)
      PROVE  Named'
      BY <1>3 DEF ToTransport, Transport
<1>4. CASE Ipv4
      <2>1. \/ stage = "ipv4" /\ stage' = "done" /\ addressed' = addressed
            \/ \E proto \in Transport, n \in Nibble : ToTransport(proto, offset + 4 * n)
            BY <1>4 DEF Ipv4, meta
      <2>2. ASSUME NEW proto \in Transport, NEW n \in Nibble, ToTransport(proto, offset + 4 * n)
            PROVE  Named'
            BY <1>3, <2>2
      <2>3. CASE stage = "ipv4" /\ stage' = "done" /\ addressed' = addressed
            BY <2>3
      <2> QED  BY <2>1, <2>2, <2>3
<1>5. CASE Ipv6
      BY <1>3, <1>5 DEF Ipv6
<1> QED  BY <1>1, <1>2, <1>4, <1>5 DEF Network

LEMMA TcpNames == TcpName \in {"tls", "http", "dns", protocol_name}
  BY DEF TcpName

LEMMA UdpNames == UdpName \in {"dns", "ntp", "dhcp", "quic", protocol_name}
  BY DEF UdpName

\* Every way out of a transport header, cut short or whole, gives a name, and
\* the identification replaces a name only by another.
LEMMA UpperNames == Named /\ Upper => Named'
<1> SUFFICES ASSUME Named, Upper PROVE Named'
    OBVIOUS
<1> USE DEF Named, Header, layer3
<1>1. CASE ShortTransport
      BY <1>1 DEF ShortTransport, CutShort
<1>2. ASSUME NEW name, name # "", NEW n, NEW src, NEW dst, NEW start, NEW len,
             Parsed(name, n, src, dst, start, len)
      PROVE  Named'
      BY <1>2 DEF Parsed
<1>3. CASE Tcp
      BY <1>2, <1>3 DEF Tcp
<1>4. CASE Udp
      BY <1>2, <1>4 DEF Udp
<1>5. CASE Icmp
      BY <1>2, <1>5 DEF Icmp
<1>6. CASE Identify
      BY <1>6, TcpNames, UdpNames DEF Identify
<1>7. CASE Http
      BY <1>7 DEF Http
<1> QED  BY <1>1, <1>3, <1>4, <1>5, <1>6, <1>7 DEF Upper

\* The TLS walk changes neither.
LEMMA TlsNames == Named /\ Tls => Named'
  BY DEF Named, Header, Tls, TlsRecord, TlsSession, TlsCiphers, TlsCompression, SkipField,
         TlsExtensions, TlsExtension, TlsEnd, meta, layer3

\* AddressedIsNamed: a frame that dissect_packet hands to the flow table and the
\* rules has a protocol name, wherever it is cut off.
THEOREM AddressedFramesAreNamed == ParseSpec => []AddressedIsNamed
<1>1. ParseInit => Named
      BY DEF ParseInit, Named, Header
<1>2. Named /\ [ParseNext]_parse_vars => Named'
      <2> SUFFICES ASSUME Named, [ParseNext]_parse_vars PROVE Named'
          OBVIOUS
      <2>1. CASE ParseNext
            BY <2>1, NetworkNames, UpperNames, TlsNames DEF ParseNext
      <2>2. CASE UNCHANGED parse_vars
            BY <2>2 DEF parse_vars, meta, layer3, Named
      <2> QED  BY <2>1, <2>2
<1>3. Named => AddressedIsNamed
      BY DEF Named, Header, AddressedIsNamed
<1> QED  BY <1>1, <1>2, <1>3, PTL DEF ParseSpec


-----------------------------------------------------------------------------
(* IpsEngine, for any rules, packets, tasks and capacity of the event ring. *)
(* First, what rules.retain leaves.                                         *)

\* No two rules have the same id.
Distinct(s) == \A j, k \in 1 .. Len(s) : s[j].id = s[k].id => j = k

IdsOf(s) == {s[k].id : k \in 1 .. Len(s)}

\* What rules.retain makes of one more rule.
Retain(kept, rule, id) == IF rule.id = id THEN kept ELSE Append(kept, rule)

\* g is the recursive function of Retained, for the first m rules of s.
Keeping(g, s, id, m) ==
    g = [n \in 0 .. m |-> IF n = 0 THEN << >> ELSE Retain(g[n - 1], s[n], id)]

\* r is what is left of the first n rules of s without those of this id.
LeftOf(r, s, id, n) ==
    /\ Distinct(r)
    /\ \A i : i \in IdsOf(r) <=> i # id /\ \E k \in 1 .. n : s[k].id = i

-----------------------------------------------------------------------------

LEMMA IdsCount ==
    ASSUME NEW S, NEW s \in Seq(S), Distinct(s)
    PROVE  IsFiniteSet(IdsOf(s)) /\ Cardinality(IdsOf(s)) = Len(s)
<1> DEFINE f == [k \in 1 .. Len(s) |-> s[k].id]
<1>1. f \in Bijection(1 .. Len(s), IdsOf(s))
      BY DEF Bijection, Injection, Surjection, IsInjective, IdsOf, Distinct
<1>2. ExistsBijection(1 .. Len(s), IdsOf(s))
      BY <1>1 DEF ExistsBijection
<1>3. Len(s) \in Nat
      OBVIOUS
<1>4. IsFiniteSet(1 .. Len(s)) /\ Cardinality(1 .. Len(s)) = Len(s)
      BY <1>3, FS_Interval
<1> QED  BY <1>2, <1>4, FS_Bijection

LEMMA IdsOfAppend ==
    ASSUME NEW S, NEW s \in Seq(S), NEW e \in S
    PROVE  /\ \A i : i \in IdsOf(Append(s, e)) <=> i \in IdsOf(s) \/ i = e.id
           /\ Distinct(s) /\ e.id \notin IdsOf(s) => Distinct(Append(s, e))
<1> DEFINE r == Append(s, e)
<1>1. /\ Len(s) \in Nat /\ Len(r) = Len(s) + 1 /\ r[Len(s) + 1] = e
      /\ \A k \in 1 .. Len(s) : r[k] = s[k]
      BY AppendProperties
<1> HIDE DEF r
<1>2. \A k : k \in 1 .. Len(r) <=> k \in 1 .. Len(s) \/ k = Len(s) + 1
      BY <1>1
<1>3. \A i : i \in IdsOf(r) <=> i \in IdsOf(s) \/ i = e.id
      BY <1>1, <1>2 DEF IdsOf
<1>4. Distinct(s) /\ e.id \notin IdsOf(s) => Distinct(r)
      BY <1>1, <1>2 DEF IdsOf, Distinct
<1> QED  BY <1>3, <1>4 DEF r

LEMMA KeepingExists ==
    ASSUME NEW s, NEW id, NEW m \in Nat PROVE \E g : Keeping(g, s, id, m)
<1> DEFINE A == {n \in Nat : \E g : Keeping(g, s, id, n)}
<1>1. 0 \in A
      <2>1. Keeping([n \in 0 .. 0 |-> << >>], s, id, 0)
            BY DEF Keeping
      <2> QED  BY <2>1
<1>2. ASSUME NEW n \in A PROVE n + 1 \in A
      <2>1. PICK g : Keeping(g, s, id, n)
            OBVIOUS
      <2> DEFINE h == [k \in 0 .. n + 1 |-> IF k = 0 THEN << >>
                                            ELSE Retain(g[k - 1], s[k], id)]
      <2>2. \A k \in 0 .. n : h[k] = g[k]
            BY <2>1 DEF Keeping
      <2>3. \A k \in 0 .. n + 1 : k # 0 => k - 1 \in 0 .. n
            OBVIOUS
      <2>4. Keeping(h, s, id, n + 1)
            BY <2>2, <2>3 DEF Keeping
      <2> QED  BY <2>4
<1> HIDE DEF A
<1>3. A = Nat
      BY <1>1, <1>2, Induction DEF A
<1> QED  BY <1>3 DEF A

LEMMA KeepingKeeps ==
    ASSUME NEW S, NEW s \in Seq(S), Distinct(s), NEW id,
           NEW g, Keeping(g, s, id, Len(s))
    PROVE  g[Len(s)] \in Seq(S) /\ LeftOf(g[Len(s)], s, id, Len(s))
<1> DEFINE A == {n \in Nat : n <= Len(s) => g[n] \in Seq(S) /\ LeftOf(g[n], s, id, n)}
<1>0. Len(s) \in Nat
      OBVIOUS
<1>1. 0 \in A
      <2>1. g[0] = << >>
            BY <1>0 DEF Keeping
      <2>2. << >> \in Seq(S) /\ Len(<< >>) = 0
            OBVIOUS
      <2>3. LeftOf(<< >>, s, id, 0)
            BY <2>2 DEF LeftOf, Distinct, IdsOf
      <2> QED  BY <2>1, <2>2, <2>3
<1>2. ASSUME NEW n \in A PROVE n + 1 \in A
      <2> SUFFICES ASSUME n + 1 <= Len(s)
                   PROVE  g[n + 1] \in Seq(S) /\ LeftOf(g[n + 1], s, id, n + 1)
          OBVIOUS
      <2>1. g[n] \in Seq(S) /\ LeftOf(g[n], s, id, n)
            BY <1>0
      <2>2. g[n + 1] = Retain(g[n], s[n + 1], id)
            BY <1>0 DEF Keeping
      <2>3. \A k : k \in 1 .. n + 1 <=> k \in 1 .. n \/ k = n + 1
            OBVIOUS
      <2>4. CASE s[n + 1].id = id
            BY <2>1, <2>2, <2>3, <2>4 DEF LeftOf, Retain
      <2>5. CASE s[n + 1].id # id
            <3>1. s[n + 1] \in S
                  BY <1>0
            <3>2. s[n + 1].id \notin IdsOf(g[n])
                  BY <1>0, <2>1 DEF LeftOf, Distinct
            <3>3. g[n + 1] = Append(g[n], s[n + 1])
                  BY <2>2, <2>5 DEF Retain
            <3>4. /\ \A i : i \in IdsOf(g[n + 1]) <=> i \in IdsOf(g[n]) \/ i = s[n + 1].id
                  /\ Distinct(g[n + 1])
                  BY <2>1, <3>1, <3>2, <3>3, IdsOfAppend DEF LeftOf
            <3>5. g[n + 1] \in Seq(S)
                  BY <2>1, <3>1, <3>3
            <3> QED  BY <2>1, <2>3, <2>5, <3>4, <3>5 DEF LeftOf
      <2> QED  BY <2>4, <2>5
<1> HIDE DEF A
<1>3. A = Nat
      BY <1>1, <1>2, Induction DEF A
<1> QED  BY <1>0, <1>3 DEF A

\* rules.retain leaves the rules of every other id, each as it was, and no
\* rule of this one.
LEMMA RetainedFacts ==
    ASSUME NEW S, rules \in Seq(S), Distinct(rules), NEW id
    PROVE  /\ Retained(id) \in Seq(S)
           /\ Distinct(Retained(id))
           /\ \A i : i \in IdsOf(Retained(id)) <=> i \in Ids /\ i # id
<1>1. Retained(id) = (CHOOSE g : Keeping(g, rules, id, Len(rules)))[Len(rules)]
      BY DEF Retained, Keeping, Retain
<1>2. \E g : Keeping(g, rules, id, Len(rules))
      <2>1. Len(rules) \in Nat
            OBVIOUS
      <2> QED  BY <2>1, KeepingExists
<1> DEFINE g == CHOOSE g : Keeping(g, rules, id, Len(rules))
<1>3. Keeping(g, rules, id, Len(rules)) /\ Retained(id) = g[Len(rules)]
      BY <1>1, <1>2
<1> HIDE DEF g
<1>4. Retained(id) \in Seq(S) /\ LeftOf(Retained(id), rules, id, Len(rules))
      BY <1>3, KeepingKeeps
<1> QED  BY <1>4 DEF LeftOf, Ids

-----------------------------------------------------------------------------
(* The rules and what a packet does to the counters *)

LEMMA RulesAreTyped ==
    \A rule \in Rule : rule.action \in Verdict
<1>1. \A id, action, criteria : MkRule(id, action, criteria).action = action
      BY DEF MkRule
<1>2. \A k \in 1 .. Len(DefaultRules) : DefaultRules[k].action \in Verdict
      BY <1>1 DEF DefaultRules, Verdict
<1> QED  BY <1>2, IpsAssumption DEF Rule

LEMMA DefaultRulesAreDistinct ==
    DefaultRules \in Seq(Rule) /\ Distinct(DefaultRules)
<1>1. \A id, action, criteria : MkRule(id, action, criteria).id = id
      BY DEF MkRule
<1>2. /\ Len(DefaultRules) = 5
      /\ DefaultRules[1].id = "GE-NET-001" /\ DefaultRules[2].id = "GE-NET-002"
      /\ DefaultRules[3].id = "GE-NET-003" /\ DefaultRules[4].id = "GE-OT-001"
      /\ DefaultRules[5].id = "GE-OT-002"
      BY <1>1 DEF DefaultRules
<1>3. Distinct(DefaultRules)
      BY <1>2 DEF Distinct
<1>4. DefaultRules \in Seq(Rule)
      <2>1. \A k \in 1 .. 5 : DefaultRules[k] \in Rule
            BY <1>2 DEF Rule
      <2>2. DefaultRules = <<DefaultRules[1], DefaultRules[2], DefaultRules[3],
                             DefaultRules[4], DefaultRules[5]>>
            BY DEF DefaultRules
      <2>3. <<DefaultRules[1], DefaultRules[2], DefaultRules[3],
              DefaultRules[4], DefaultRules[5]>> \in Seq(Rule)
            BY <2>1
      <2> QED  BY <2>2, <2>3, Zenon
<1> QED  BY <1>3, <1>4

LEMMA CountedFacts ==
    ASSUME stats \in Statistics, NEW verdict \in Verdict, NEW n \in Nat
    PROVE  /\ Counted(verdict, n) \in Statistics
           /\ Counted(verdict, n).inspected = stats.inspected + 1
           /\ Counted(verdict, n).matched = stats.matched + n
           /\ Counted(verdict, n).passed = stats.passed + (IF verdict = "Pass" THEN 1 ELSE 0)
           /\ Counted(verdict, n).dropped = stats.dropped + (IF verdict = "Drop" THEN 1 ELSE 0)
           /\ Counted(verdict, n).alerted = stats.alerted + (IF verdict = "Alert" THEN 1 ELSE 0)
<1> DEFINE inspected == stats.inspected
           passed == stats.passed
           dropped == stats.dropped
           alerted == stats.alerted
           matched == stats.matched
<1>1. /\ inspected \in Nat /\ passed \in Nat /\ dropped \in Nat /\ alerted \in Nat
      /\ matched \in Nat
      BY DEF Statistics
<1>2. DOMAIN stats = {"inspected", "passed", "dropped", "alerted", "matched"}
      BY DEF Statistics
<1>3. Counted(verdict, n) =
         [f \in {"inspected", "passed", "dropped", "alerted", "matched"} |->
            CASE f = "inspected" -> inspected + 1
              [] f = "passed"    -> IF verdict = "Pass" THEN passed + 1 ELSE passed
              [] f = "dropped"   -> IF verdict = "Drop" THEN dropped + 1 ELSE dropped
              [] f = "alerted"   -> IF verdict = "Alert" THEN alerted + 1 ELSE alerted
              [] f = "matched"   -> matched + n]
      BY <1>2 DEF Counted, inspected, passed, dropped, alerted, matched
<1>4. /\ Counted(verdict, n).inspected = inspected + 1
      /\ Counted(verdict, n).matched = matched + n
      /\ Counted(verdict, n).passed = IF verdict = "Pass" THEN passed + 1 ELSE passed
      /\ Counted(verdict, n).dropped = IF verdict = "Drop" THEN dropped + 1 ELSE dropped
      /\ Counted(verdict, n).alerted = IF verdict = "Alert" THEN alerted + 1 ELSE alerted
      BY <1>3
<1>5. Counted(verdict, n) \in Statistics
      BY <1>1, <1>3 DEF Statistics
<1> QED  BY <1>1, <1>4, <1>5 DEF inspected, passed, dropped, alerted, matched

\* The first rule that matches is one of the rules.
LEMMA FirstMatch ==
    ASSUME rules \in Seq(Rule), NEW p, MatchingRules(p) # {}
    PROVE  Min(MatchingRules(p)) \in 1 .. Len(rules)
<1>1. MatchingRules(p) \in SUBSET Nat
      BY DEF MatchingRules
<1>2. \E m \in MatchingRules(p) : \A k \in MatchingRules(p) : m <= k
      BY <1>1, LeastNumber
<1>3. Min(MatchingRules(p)) \in MatchingRules(p)
      BY <1>2 DEF Min
<1> QED  BY <1>3 DEF MatchingRules

ReportedIn(s, v) == Cardinality({k \in 1 .. Len(s) : s[k].verdict = v})

\* An event more in the log is one more under its verdict.
LEMMA ReportedGrows ==
    ASSUME NEW s \in Seq(IpsEvent), NEW e \in IpsEvent, NEW v
    PROVE  ReportedIn(Append(s, e), v) = ReportedIn(s, v) + (IF e.verdict = v THEN 1 ELSE 0)
<1> DEFINE r == Append(s, e)
           old == {k \in 1 .. Len(s) : s[k].verdict = v}
           new == {k \in 1 .. Len(r) : r[k].verdict = v}
<1>1. /\ Len(s) \in Nat /\ Len(r) = Len(s) + 1 /\ r[Len(s) + 1] = e
      /\ \A k \in 1 .. Len(s) : r[k] = s[k]
      BY AppendProperties
<1>2. IsFiniteSet(old) /\ Cardinality(old) \in Nat
      <2>1. IsFiniteSet(1 .. Len(s)) /\ old \in SUBSET (1 .. Len(s))
            BY <1>1, FS_Interval
      <2> QED  BY <2>1, FS_Subset, FS_CardinalityType
<1>3. Len(s) + 1 \notin old
      BY <1>1
<1>4. ASSUME e.verdict = v PROVE Cardinality(new) = Cardinality(old) + 1
      <2>1. new = old \cup {Len(s) + 1}
            BY <1>1, <1>4
      <2>2. Cardinality(old \cup {Len(s) + 1}) = Cardinality(old) + 1
            BY <1>2, <1>3, FS_AddElement
      <2> QED  BY <2>1, <2>2
<1>5. ASSUME e.verdict # v PROVE Cardinality(new) = Cardinality(old)
      <2>1. new = old
            BY <1>1, <1>5
      <2> QED  BY <2>1, Zenon
<1> HIDE DEF new, old
<1>6. Cardinality(new) = Cardinality(old) + (IF e.verdict = v THEN 1 ELSE 0)
      BY <1>2, <1>4, <1>5
<1> QED  BY <1>6 DEF new, old, r, ReportedIn

-----------------------------------------------------------------------------
(* The invariant *)

\* Every rule has a counter, and the counters with those of the removed rules
\* add up to the matches.
RulesAreCounted ==
    /\ Distinct(rules)
    /\ \A i : i \in DOMAIN rule_hits <=> i \in Ids
    /\ SumFunctionOnSet(rule_hits, DOMAIN rule_hits) + retired = stats.matched

\* The statistics and the history of events tell the same.
VerdictsAreCounted ==
    /\ stats.inspected = stats.passed + stats.dropped + stats.alerted
    /\ Len(log) = stats.matched
    /\ Reported("Drop") = stats.dropped
    /\ Reported("Alert") = stats.alerted

\* The feed holds the last MaxEvents events, or all that there are.
FeedIsNewest ==
    /\ Len(events) = IF Len(log) <= MaxEvents THEN Len(log) ELSE MaxEvents
    /\ \A k \in 1 .. Len(events) : events[k] = log[Len(log) - Len(events) + k]

EngineInv == EngineTypeOK /\ RulesAreCounted /\ VerdictsAreCounted /\ FeedIsNewest

LEMMA OneHitMore ==
    ASSUME NEW f, f \in [DOMAIN f -> Nat], IsFiniteSet(DOMAIN f), NEW e \in DOMAIN f,
           NEW h, h = [f EXCEPT ![e] = @ + 1]
    PROVE  /\ SumFunctionOnSet(f, DOMAIN f) \in Nat
           /\ SumFunctionOnSet(h, DOMAIN h) = SumFunctionOnSet(f, DOMAIN f) + 1
<1> DEFINE S == DOMAIN f
<1>1. /\ h[e] = f[e] + 1 /\ f[e] \in Nat
      /\ \A i \in S : f[i] \in Nat
      /\ \A i \in S : f[i] \in Int /\ h[i] \in Int
      /\ \A i \in S \ {e} : h[i] = f[i]
      OBVIOUS
<1>2. \A i : i \in DOMAIN h <=> i \in S
      OBVIOUS
<1>3. e \in S /\ IsFiniteSet(S)
      OBVIOUS
<1>4. SumFunctionOnSet(h, DOMAIN h) = SumFunctionOnSet(h, S)
      BY <1>2, SumOfSame
<1> HIDE DEF S
<1>5. SumFunctionOnSet(f, S) \in Nat
      BY <1>1, <1>3, SumIsNat
<1>6. SumFunctionOnSet(h, S) = SumFunctionOnSet(f, S) - f[e] + h[e]
      BY ONLY <1>1, <1>3, SumChanges
<1>7. SumFunctionOnSet(h, S) = SumFunctionOnSet(f, S) + 1
      BY <1>1, <1>5, <1>6
<1> QED  BY <1>4, <1>5, <1>7 DEF S

\* A counter that is zero joins.
LEMMA CounterMore ==
    ASSUME NEW f, f \in [DOMAIN f -> Nat], IsFiniteSet(DOMAIN f), NEW e, e \notin DOMAIN f,
           NEW h, DOMAIN h = DOMAIN f \cup {e}, h[e] = 0, \A i \in DOMAIN f : h[i] = f[i]
    PROVE  SumFunctionOnSet(h, DOMAIN h) = SumFunctionOnSet(f, DOMAIN f)
<1> DEFINE S == DOMAIN f
<1>1. /\ IsFiniteSet(S) /\ e \notin S /\ h[e] = 0 /\ \A i \in S : f[i] \in Int
      /\ \A i \in S : f[i] = h[i]
      OBVIOUS
<1>2. \A i : i \in DOMAIN h <=> i \in S \cup {e}
      OBVIOUS
<1>3. SumFunctionOnSet(h, DOMAIN h) = SumFunctionOnSet(h, S \cup {e})
      BY <1>2, SumOfSame
<1> HIDE DEF S
<1>4. \A i \in S \cup {e} : h[i] \in Int
      BY <1>1
<1>5. SumFunctionOnSet(h, S \cup {e}) = h[e] + SumFunctionOnSet(h, S)
      BY <1>1, <1>4, SumAdds
<1>6. SumFunctionOnSet(f, S) = SumFunctionOnSet(h, S) /\ SumFunctionOnSet(h, S) \in Int
      BY <1>1, <1>4, SumAgrees, SumIsInt
<1>7. SumFunctionOnSet(h, S \cup {e}) = SumFunctionOnSet(f, S)
      BY <1>1, <1>5, <1>6
<1> QED  BY <1>3, <1>7 DEF S

\* A counter leaves.
LEMMA CounterLess ==
    ASSUME NEW f, f \in [DOMAIN f -> Nat], IsFiniteSet(DOMAIN f), NEW e \in DOMAIN f,
           NEW h, DOMAIN h = DOMAIN f \ {e}, \A i \in DOMAIN f \ {e} : h[i] = f[i]
    PROVE  /\ SumFunctionOnSet(f, DOMAIN f) = f[e] + SumFunctionOnSet(h, DOMAIN h)
           /\ SumFunctionOnSet(h, DOMAIN h) \in Int
<1> DEFINE S == DOMAIN f
<1>1. /\ IsFiniteSet(S) /\ e \in S /\ \A i \in S : f[i] \in Int
      /\ \A i \in S \ {e} : f[i] = h[i]
      OBVIOUS
<1>2. \A i : i \in DOMAIN h <=> i \in S \ {e}
      OBVIOUS
<1>3. SumFunctionOnSet(h, DOMAIN h) = SumFunctionOnSet(h, S \ {e})
      BY <1>2, SumOfSame
<1> HIDE DEF S
<1>4. IsFiniteSet(S \ {e}) /\ \A i \in S \ {e} : h[i] \in Int
      BY <1>1, FS_Subset
<1>5. SumFunctionOnSet(f, S) = f[e] + SumFunctionOnSet(f, S \ {e})
      BY <1>1, SumRemoves
<1>6. /\ SumFunctionOnSet(f, S \ {e}) = SumFunctionOnSet(h, S \ {e})
      /\ SumFunctionOnSet(h, S \ {e}) \in Int
      BY <1>1, <1>4, SumAgrees, SumIsInt
<1>7. SumFunctionOnSet(f, S) = f[e] + SumFunctionOnSet(h, S \ {e})
      BY <1>5, <1>6
<1> QED  BY <1>3, <1>6, <1>7 DEF S

LEMMA CountersAreFinite ==
    ASSUME rules \in Seq(Rule), RulesAreCounted PROVE IsFiniteSet(DOMAIN rule_hits)
<1>1. IsFiniteSet(IdsOf(rules))
      BY IdsCount DEF RulesAreCounted
<1>2. DOMAIN rule_hits \in SUBSET IdsOf(rules)
      BY DEF RulesAreCounted, Ids, IdsOf
<1> QED  BY <1>1, <1>2, FS_Subset

\* What IpsEventRing::push makes of a ring.
Pushes(ring, pushed, event) ==
    /\ pushed \in Seq(IpsEvent)
    /\ Len(pushed) = IF Len(ring) >= MaxEvents THEN Len(ring) ELSE Len(ring) + 1
    /\ pushed[Len(pushed)] = event
    /\ \A k \in 1 .. Len(pushed) - 1 :
          pushed[k] = ring[IF Len(ring) >= MaxEvents THEN k + 1 ELSE k]

LEMMA PushedFacts ==
    ASSUME NEW ring \in Seq(IpsEvent), NEW event \in IpsEvent
    PROVE  Pushes(ring, Pushed(ring, event), event)
<1>1. CASE Len(ring) >= MaxEvents
      <2>1. ring # << >> /\ Len(ring) \in Nat
            BY <1>1, IpsAssumption
      <2>2. /\ Tail(ring) \in Seq(IpsEvent) /\ Len(Tail(ring)) = Len(ring) - 1
            /\ \A k \in 1 .. Len(ring) - 1 : Tail(ring)[k] = ring[k + 1]
            BY <2>1, HeadTailProperties
      <2>3. Pushed(ring, event) = Append(Tail(ring), event)
            BY <1>1 DEF Pushed
      <2> DEFINE t == Tail(ring)
      <2> HIDE DEF t
      <2>4. /\ Append(t, event) \in Seq(IpsEvent)
            /\ Len(Append(t, event)) = Len(t) + 1
            /\ Append(t, event)[Len(t) + 1] = event
            /\ \A k \in 1 .. Len(t) : Append(t, event)[k] = t[k]
            BY <2>2, AppendProperties DEF t
      <2> QED  BY <1>1, <2>1, <2>2, <2>3, <2>4 DEF Pushes, t
<1>2. CASE ~(Len(ring) >= MaxEvents)
      <2>1. Pushed(ring, event) = Append(ring, event) /\ Len(ring) \in Nat
            BY <1>2 DEF Pushed
      <2>2. /\ Append(ring, event) \in Seq(IpsEvent)
            /\ Len(Append(ring, event)) = Len(ring) + 1
            /\ Append(ring, event)[Len(ring) + 1] = event
            /\ \A k \in 1 .. Len(ring) : Append(ring, event)[k] = ring[k]
            BY AppendProperties
      <2> QED  BY <1>2, <2>1, <2>2 DEF Pushes
<1> QED  BY <1>1, <1>2

\* The engine starts with its default rules and empty counters.
LEMMA EngineStarts == IpsInit => EngineInv
<1> SUFFICES ASSUME IpsInit PROVE EngineInv
    OBVIOUS
<1> USE DEF IpsInit
<1>1. rules = DefaultRules /\ rules \in Seq(Rule) /\ Distinct(rules)
      BY DefaultRulesAreDistinct
<1>2. DOMAIN rule_hits = Ids /\ \A i \in Ids : rule_hits[i] = 0
      BY <1>1 DEF Ids
<1>3. SumFunctionOnSet(rule_hits, DOMAIN rule_hits) = 0
      <2>1. IsFiniteSet(DOMAIN rule_hits)
            BY <1>1, <1>2, IdsCount DEF Ids, IdsOf
      <2> QED  BY <1>2, <2>1, SumIsZero
<1>4. EngineTypeOK
      <2>1. rule_hits \in [DOMAIN rule_hits -> Nat]
            BY <1>2
      <2>2. stats \in Statistics
            BY DEF NoStats, Statistics
      <2>3. setting \in [Task -> Mode \cup {NoMode}]
            OBVIOUS
      <2>4. events \in Seq(IpsEvent) /\ Len(events) <= MaxEvents /\ log \in Seq(IpsEvent)
            BY IpsAssumption
      <2> QED  BY <1>1, <2>1, <2>2, <2>3, <2>4 DEF EngineTypeOK
<1>5. RulesAreCounted
      BY <1>1, <1>2, <1>3 DEF RulesAreCounted, NoStats
<1>6. VerdictsAreCounted
      <2>1. {k \in 1 .. Len(log) : log[k].verdict = "Drop"} = {}
            OBVIOUS
      <2>2. {k \in 1 .. Len(log) : log[k].verdict = "Alert"} = {}
            OBVIOUS
      <2>3. Reported("Drop") = 0 /\ Reported("Alert") = 0
            BY <2>1, <2>2, FS_EmptySet DEF Reported
      <2> QED  BY <2>3 DEF VerdictsAreCounted, NoStats
<1>7. FeedIsNewest
      BY IpsAssumption DEF FeedIsNewest
<1> QED  BY <1>4, <1>5, <1>6, <1>7 DEF EngineInv

\* Whatever leaves statistics, feed and history alone.
LEMMA ReportsStay ==
    ASSUME VerdictsAreCounted, FeedIsNewest, UNCHANGED <<stats, events, log>>
    PROVE  VerdictsAreCounted' /\ FeedIsNewest'
<1>1. Reported("Drop")' = Reported("Drop") /\ Reported("Alert")' = Reported("Alert")
      BY DEF Reported
<1>2. VerdictsAreCounted'
      BY <1>1 DEF VerdictsAreCounted
<1>3. FeedIsNewest'
      BY DEF FeedIsNewest
<1> QED  BY <1>2, <1>3

\* A packet that matches no rule is counted as passed, and that is all.
LEMMA UnmatchedPreserves ==
    ASSUME EngineInv, NEW p, EvaluateUnmatched(p) PROVE EngineInv'
<1> USE DEF EngineInv, EvaluateUnmatched
<1>1. stats \in Statistics /\ stats' = Counted("Pass", 0)
      BY DEF EngineTypeOK
<1>2. /\ stats' \in Statistics /\ stats'.inspected = stats.inspected + 1
      /\ stats'.matched = stats.matched /\ stats'.passed = stats.passed + 1
      /\ stats'.dropped = stats.dropped /\ stats'.alerted = stats.alerted
      <2>1. "Pass" \in Verdict /\ 0 \in Nat
            BY DEF Verdict
      <2>2. /\ stats.matched \in Nat /\ stats.dropped \in Nat /\ stats.alerted \in Nat
            BY <1>1 DEF Statistics
      <2> HIDE DEF EngineInv, EvaluateUnmatched
      <2> QED  BY <1>1, <2>1, <2>2, CountedFacts
<1>3. EngineTypeOK'
      BY <1>2 DEF EngineTypeOK
<1>4. RulesAreCounted'
      BY <1>2 DEF RulesAreCounted, Ids
<1>5. VerdictsAreCounted'
      <2>1. /\ stats.passed \in Nat /\ stats.dropped \in Nat /\ stats.alerted \in Nat
            BY <1>1 DEF Statistics
      <2>2. Reported("Drop")' = Reported("Drop") /\ Reported("Alert")' = Reported("Alert")
            BY DEF Reported
      <2>3. VerdictsAreCounted /\ UNCHANGED log
            OBVIOUS
      <2> QED  BY ONLY <1>1, <1>2, <2>1, <2>2, <2>3 DEF VerdictsAreCounted
<1>6. FeedIsNewest'
      BY DEF FeedIsNewest
<1> QED  BY <1>3, <1>4, <1>5, <1>6

\* A packet that matches counts for the first rule that matches, and its
\* verdict goes into the statistics and, as an event, into log and feed.
LEMMA MatchedPreserves ==
    ASSUME EngineInv, NEW p, EvaluateMatched(p) PROVE EngineInv'
<1> DEFINE rule == rules[Min(MatchingRules(p))]
           verdict == EffectiveAction(rule.action)
           event == Event(rule, verdict)
<1>0. /\ EngineTypeOK /\ RulesAreCounted /\ VerdictsAreCounted /\ FeedIsNewest
      /\ MatchingRules(p) # {} /\ stats' = Counted(verdict, 1)
      /\ rule_hits' = [rule_hits EXCEPT ![rule.id] = @ + 1]
      /\ events' = Pushed(events, event) /\ log' = Append(log, event)
      /\ UNCHANGED <<mode, rules, config_mode, setting, retired, adds>>
      BY DEF EngineInv, EvaluateMatched
<1>1. /\ rules \in Seq(Rule) /\ rule_hits \in [DOMAIN rule_hits -> Nat]
      /\ stats \in Statistics /\ retired \in Nat
      /\ events \in Seq(IpsEvent) /\ Len(events) <= MaxEvents /\ log \in Seq(IpsEvent)
      BY <1>0 DEF EngineTypeOK
<1>2. rule \in Rule /\ rule.id \in Ids
      BY <1>0, <1>1, FirstMatch DEF Ids
<1>3. verdict \in Verdict
      BY <1>2, RulesAreTyped DEF EffectiveAction, Verdict
<1>4. event \in IpsEvent /\ event.verdict = verdict
      BY <1>2, <1>3 DEF Event, IpsEvent
<1> HIDE DEF rule, verdict, event
<1>5. /\ stats' \in Statistics /\ stats'.inspected = stats.inspected + 1
      /\ stats'.matched = stats.matched + 1
      /\ stats'.passed = stats.passed + (IF verdict = "Pass" THEN 1 ELSE 0)
      /\ stats'.dropped = stats.dropped + (IF verdict = "Drop" THEN 1 ELSE 0)
      /\ stats'.alerted = stats.alerted + (IF verdict = "Alert" THEN 1 ELSE 0)
      <2>1. 1 \in Nat
            OBVIOUS
      <2> QED  BY <1>0, <1>1, <1>3, <2>1, CountedFacts
<1>6. /\ stats.passed \in Nat /\ stats.dropped \in Nat /\ stats.alerted \in Nat
      /\ stats.matched \in Nat /\ stats.inspected \in Nat
      BY <1>1 DEF Statistics
<1>7. rule.id \in DOMAIN rule_hits
      BY <1>0, <1>2 DEF RulesAreCounted
<1>8. /\ Len(log) \in Nat /\ log' \in Seq(IpsEvent) /\ Len(log') = Len(log) + 1
      /\ log'[Len(log) + 1] = event
      /\ \A k \in 1 .. Len(log) : log'[k] = log[k]
      BY <1>0, <1>1, <1>4, AppendProperties
<1>9. Pushes(events, events', event)
      BY <1>0, <1>1, <1>4, PushedFacts
<1>10. EngineTypeOK'
      <2>1. rule_hits' \in [DOMAIN rule_hits' -> Nat]
            BY <1>0, <1>1, <1>7
      <2>2. events' \in Seq(IpsEvent) /\ Len(events') <= MaxEvents
            BY <1>1, <1>9, IpsAssumption DEF Pushes
      <2> QED  BY <1>0, <1>5, <1>8, <2>1, <2>2 DEF EngineTypeOK
<1>11. RulesAreCounted'
      <2>1. DOMAIN rule_hits' = DOMAIN rule_hits /\ Ids' = Ids /\ Distinct(rules')
            BY <1>0 DEF Ids, RulesAreCounted
      <2>2. IsFiniteSet(DOMAIN rule_hits)
            BY <1>0, <1>1, CountersAreFinite
      <2>3. /\ SumFunctionOnSet(rule_hits, DOMAIN rule_hits) \in Nat
            /\ SumFunctionOnSet(rule_hits', DOMAIN rule_hits')
               = SumFunctionOnSet(rule_hits, DOMAIN rule_hits) + 1
            BY <1>0, <1>1, <1>7, <2>2, OneHitMore
      <2>4. SumFunctionOnSet(rule_hits, DOMAIN rule_hits) + retired = stats.matched
            BY <1>0 DEF RulesAreCounted
      <2>5. SumFunctionOnSet(rule_hits', DOMAIN rule_hits') + retired' = stats'.matched
            BY <1>0, <1>1, <1>5, <2>3, <2>4
      <2>6. \A i : i \in DOMAIN rule_hits' <=> i \in Ids'
            BY <1>0, <2>1 DEF RulesAreCounted
      <2> QED  BY <2>1, <2>5, <2>6 DEF RulesAreCounted
<1>12. VerdictsAreCounted'
      <2>1. \A v : /\ Reported(v) = ReportedIn(log, v)
                   /\ Reported(v)' = ReportedIn(log', v)
            BY DEF Reported, ReportedIn
      <2>2. \A v : ReportedIn(log', v) = ReportedIn(log, v) + (IF verdict = v THEN 1 ELSE 0)
            BY <1>0, <1>1, <1>4, ReportedGrows
      <2>3. /\ Reported("Drop")' = Reported("Drop") + (IF verdict = "Drop" THEN 1 ELSE 0)
            /\ Reported("Alert")' = Reported("Alert") + (IF verdict = "Alert" THEN 1 ELSE 0)
            BY <2>1, <2>2
      <2>4. VerdictsAreCounted
            BY <1>0
      <2>5. verdict \in {"Pass", "Drop", "Alert"}
            BY <1>3 DEF Verdict
      <2>6. stats'.inspected = stats'.passed + stats'.dropped + stats'.alerted
            <3>1. stats.inspected = stats.passed + stats.dropped + stats.alerted
                  BY <2>4 DEF VerdictsAreCounted
            <3> QED  BY ONLY <1>5, <1>6, <2>5, <3>1
      <2>7. Len(log') = stats'.matched
            BY ONLY <1>5, <1>8, <2>4 DEF VerdictsAreCounted
      <2>8. Reported("Drop")' = stats'.dropped /\ Reported("Alert")' = stats'.alerted
            BY ONLY <1>5, <2>3, <2>4 DEF VerdictsAreCounted
      <2> QED  BY ONLY <2>6, <2>7, <2>8 DEF VerdictsAreCounted
<1>13. FeedIsNewest'
      <2> DEFINE old == Len(events)
                 new == Len(events')
                 n == Len(log)
      <2>1. /\ old \in Nat /\ n \in Nat /\ Len(log') = n + 1 /\ MaxEvents \in Nat \ {0}
            /\ old = IF n <= MaxEvents THEN n ELSE MaxEvents
            /\ new = IF old >= MaxEvents THEN old ELSE old + 1
            BY <1>0, <1>1, <1>8, <1>9, IpsAssumption DEF FeedIsNewest, Pushes
      <2>2. new = IF n + 1 <= MaxEvents THEN n + 1 ELSE MaxEvents
            BY <2>1
      <2>3. ASSUME NEW k \in 1 .. new - 1 PROVE events'[k] = log'[n + 1 - new + k]
            <3> DEFINE j == IF old >= MaxEvents THEN k + 1 ELSE k
            <3>1. j \in 1 .. old /\ n - old + j = n + 1 - new + k
                  <4> HIDE DEF old, new, n
                  <4>1. k \in Nat /\ 1 <= k /\ k <= new - 1 /\ new \in Nat
                        BY <2>1
                  <4> QED  BY <2>1, <4>1
            <3>2. events'[k] = events[j]
                  BY <1>9 DEF Pushes
            <3> HIDE DEF j
            <3>3. events[j] = log[n - old + j]
                  BY <1>0, <3>1 DEF FeedIsNewest
            <3>4. n - old + j \in 1 .. n
                  BY <2>1, <3>1
            <3> QED  BY <1>8, <3>1, <3>2, <3>3, <3>4
      <2>4. events'[new] = log'[n + 1 - new + new]
            BY <1>8, <1>9, <2>1 DEF Pushes
      <2> HIDE DEF new, n
      <2>5. \A k \in 1 .. new : events'[k] = log'[n + 1 - new + k]
            BY <2>1, <2>3, <2>4
      <2>6. Len(events') = IF Len(log') <= MaxEvents THEN Len(log') ELSE MaxEvents
            BY <2>1, <2>2 DEF new
      <2>7. \A k \in 1 .. Len(events') : events'[k] = log'[Len(log') - Len(events') + k]
            <3> SUFFICES ASSUME NEW k \in 1 .. new PROVE events'[k] = log'[Len(log') - new + k]
                BY DEF new
            <3>1. Len(log') = n + 1 /\ n \in Nat /\ new \in Nat /\ k \in Nat
                  BY <2>1
            <3>2. events'[k] = log'[n + 1 - new + k]
                  BY <2>5
            <3>3. Len(log') - new + k = n + 1 - new + k
                  BY <3>1
            <3> QED  BY <3>2, <3>3
      <2> QED  BY ONLY <2>6, <2>7 DEF FeedIsNewest
<1> QED  BY <1>10, <1>11, <1>12, <1>13 DEF EngineInv

\* A rule that is added has a new id and a new counter, which is zero.
LEMMA AddPreserves ==
    ASSUME EngineInv, NEW rule \in NewRule, AddRule(rule) PROVE EngineInv'
<1>0. /\ EngineTypeOK /\ RulesAreCounted /\ VerdictsAreCounted /\ FeedIsNewest
      /\ rule.id \notin Ids /\ rules' = Append(rules, rule)
      /\ rule_hits' = HitsWith(rule.id) /\ adds' = adds + 1
      /\ UNCHANGED <<mode, stats, config_mode, events, setting, log, retired>>
      BY DEF EngineInv, AddRule, IsNewId
<1>1. /\ rules \in Seq(Rule) /\ rule_hits \in [DOMAIN rule_hits -> Nat] /\ adds \in Nat
      /\ rule \in Rule
      BY <1>0 DEF EngineTypeOK, Rule
<1>2. /\ rules' \in Seq(Rule) /\ Distinct(rules')
      /\ \A i : i \in IdsOf(rules') <=> i \in IdsOf(rules) \/ i = rule.id
      BY <1>0, <1>1, IdsOfAppend DEF RulesAreCounted, Ids, IdsOf
<1>3. Ids = IdsOf(rules) /\ Ids' = IdsOf(rules')
      BY DEF Ids, IdsOf
<1>4. /\ rule.id \notin DOMAIN rule_hits
      /\ DOMAIN rule_hits' = DOMAIN rule_hits \cup {rule.id}
      /\ rule_hits'[rule.id] = 0
      /\ \A i \in DOMAIN rule_hits : rule_hits'[i] = rule_hits[i]
      BY <1>0 DEF RulesAreCounted, HitsWith
<1>5. EngineTypeOK'
      <2>1. rule_hits' \in [DOMAIN rule_hits' -> Nat]
            BY <1>0, <1>1 DEF HitsWith
      <2> QED  BY <1>0, <1>1, <1>2, <2>1 DEF EngineTypeOK
<1>6. RulesAreCounted'
      <2>1. \A i : i \in DOMAIN rule_hits' <=> i \in Ids'
            BY <1>0, <1>2, <1>3, <1>4 DEF RulesAreCounted
      <2>2. SumFunctionOnSet(rule_hits', DOMAIN rule_hits')
               = SumFunctionOnSet(rule_hits, DOMAIN rule_hits)
            <3>1. IsFiniteSet(DOMAIN rule_hits)
                  BY <1>0, <1>1, CountersAreFinite
            <3> QED  BY <1>1, <1>4, <3>1, CounterMore
      <2> QED  BY <1>0, <1>2, <2>1, <2>2 DEF RulesAreCounted
<1>7. VerdictsAreCounted' /\ FeedIsNewest'
      <2>1. UNCHANGED <<stats, events, log>>
            BY <1>0
      <2> QED  BY <1>0, <2>1, ReportsStay
<1> QED  BY <1>5, <1>6, <1>7 DEF EngineInv

\* A rule that is deleted takes its counter with it, and what the counter said
\* goes into the history.
LEMMA DeletePreserves ==
    ASSUME EngineInv, NEW id, DeleteRule(id) PROVE EngineInv'
<1>0. /\ EngineTypeOK /\ RulesAreCounted /\ VerdictsAreCounted /\ FeedIsNewest
      /\ id \in Ids /\ rules' = Retained(id) /\ retired' = retired + rule_hits[id]
      /\ rule_hits' = HitsWithout(id)
      /\ UNCHANGED <<mode, stats, config_mode, events, setting, log, adds>>
      BY DEF EngineInv, DeleteRule
<1>1. /\ rules \in Seq(Rule) /\ rule_hits \in [DOMAIN rule_hits -> Nat] /\ retired \in Nat
      /\ stats \in Statistics
      BY <1>0 DEF EngineTypeOK
<1>2. /\ rules' \in Seq(Rule) /\ Distinct(rules')
      /\ \A i : i \in IdsOf(rules') <=> i \in Ids /\ i # id
      BY <1>0, <1>1, RetainedFacts DEF RulesAreCounted
<1>3. Ids' = IdsOf(rules')
      BY DEF Ids, IdsOf
<1>4. /\ id \in DOMAIN rule_hits /\ rule_hits[id] \in Nat
      /\ DOMAIN rule_hits' = DOMAIN rule_hits \ {id}
      /\ \A i \in DOMAIN rule_hits \ {id} : rule_hits'[i] = rule_hits[i]
      BY <1>0, <1>1 DEF RulesAreCounted, HitsWithout
<1>5. EngineTypeOK'
      <2>1. rule_hits' \in [DOMAIN rule_hits' -> Nat]
            BY <1>0, <1>1 DEF HitsWithout
      <2> QED  BY <1>0, <1>1, <1>2, <1>4, <2>1 DEF EngineTypeOK
<1>6. RulesAreCounted'
      <2>1. \A i : i \in DOMAIN rule_hits' <=> i \in Ids'
            BY <1>0, <1>2, <1>3, <1>4 DEF RulesAreCounted
      <2>2. /\ SumFunctionOnSet(rule_hits, DOMAIN rule_hits)
               = rule_hits[id] + SumFunctionOnSet(rule_hits', DOMAIN rule_hits')
            /\ SumFunctionOnSet(rule_hits', DOMAIN rule_hits') \in Int
            <3>1. IsFiniteSet(DOMAIN rule_hits)
                  BY <1>0, <1>1, CountersAreFinite
            <3> QED  BY <1>1, <1>4, <3>1, CounterLess
      <2>3. SumFunctionOnSet(rule_hits, DOMAIN rule_hits) + retired = stats.matched
            BY <1>0 DEF RulesAreCounted
      <2>4. SumFunctionOnSet(rule_hits', DOMAIN rule_hits') + retired' = stats'.matched
            BY <1>0, <1>1, <1>4, <2>2, <2>3
      <2> QED  BY <1>2, <2>1, <2>4 DEF RulesAreCounted
<1>7. VerdictsAreCounted' /\ FeedIsNewest'
      <2>1. UNCHANGED <<stats, events, log>>
            BY <1>0
      <2> QED  BY <1>0, <2>1, ReportsStay
<1> QED  BY <1>5, <1>6, <1>7 DEF EngineInv

\* A mode change counts nothing.
LEMMA ModePreserves ==
    ASSUME EngineInv, NEW c \in Task, ChangeMode(c) PROVE EngineInv'
<1>1. UNCHANGED <<rules, rule_hits, stats, events, log, retired, adds>>
      BY DEF ChangeMode, SetEngineMode, SetConfigMode, engine
<1>2. EngineTypeOK'
      <2>1. mode' \in Mode /\ config_mode' \in Mode /\ setting' \in [Task -> Mode \cup {NoMode}]
            BY DEF EngineInv, EngineTypeOK, ChangeMode, SetEngineMode, SetConfigMode, engine
      <2> QED  BY <1>1, <2>1 DEF EngineInv, EngineTypeOK
<1>3. RulesAreCounted'
      BY <1>1 DEF EngineInv, RulesAreCounted, Ids
<1> QED  BY <1>1, <1>2, <1>3, ReportsStay DEF EngineInv

-----------------------------------------------------------------------------

\* The strengthened invariant holds however packets, rule changes and mode
\* changes interleave.
THEOREM EngineInvariant == IpsSpec => []EngineInv
<1>1. EngineInv /\ [IpsNext]_ips_vars => EngineInv'
      <2> SUFFICES ASSUME EngineInv, [IpsNext]_ips_vars PROVE EngineInv'
          OBVIOUS
      <2>1. CASE \E p \in Packet : Evaluate(p)
            BY <2>1, UnmatchedPreserves, MatchedPreserves DEF Evaluate
      <2>2. CASE ChangeRules
            BY <2>2, AddPreserves, DeletePreserves DEF ChangeRules
      <2>3. CASE \E c \in Task : ChangeMode(c)
            BY <2>3, ModePreserves
      <2>4. CASE UNCHANGED ips_vars
            <3>1. UNCHANGED <<mode, rules, rule_hits, stats, config_mode, events, setting,
                              log, retired, adds>>
                  BY <2>4 DEF ips_vars, engine
            <3>2. EngineTypeOK' /\ RulesAreCounted'
                  BY <3>1 DEF EngineInv, EngineTypeOK, RulesAreCounted, Ids
            <3> QED  BY <3>1, <3>2, ReportsStay DEF EngineInv
      <2> QED  BY <2>1, <2>2, <2>3, <2>4 DEF IpsNext
<1> QED  BY <1>1, EngineStarts, PTL DEF IpsSpec

\* EngineTypeOK: in particular the event ring keeps its bound.
THEOREM EngineTypes == IpsSpec => []EngineTypeOK
BY EngineInvariant, PTL DEF EngineInv

\* HitsBelongToRules: for any rules that requests add and delete, in any order,
\* and any traffic.
THEOREM HitsStayWithRules == IpsSpec => []HitsBelongToRules
<1>1. EngineInv => HitsBelongToRules
      <2> SUFFICES ASSUME EngineInv PROVE HitsBelongToRules
          OBVIOUS
      <2>1. rules \in Seq(Rule) /\ Distinct(rules)
            BY DEF EngineInv, EngineTypeOK, RulesAreCounted
      <2>2. Cardinality(Ids) = Len(rules)
            BY <2>1, IdsCount DEF Ids, IdsOf
      <2>3. DOMAIN rule_hits = Ids
            BY DEF EngineInv, RulesAreCounted
      <2>4. SumFunction(rule_hits) + retired = stats.matched
            BY DEF EngineInv, RulesAreCounted, SumFunction, SumFunctionOnSet, FoldFunction
      <2> QED  BY <2>2, <2>3, <2>4 DEF HitsBelongToRules
<1> QED  BY <1>1, EngineInvariant, PTL

\* EventsMatchStats: the feed is the end of the history of matches, and the
\* history has the verdicts that the statistics count, for every capacity.
THEOREM EventsFollowStats == IpsSpec => []EventsMatchStats
<1>1. EngineInv => EventsMatchStats
      <2> SUFFICES ASSUME EngineInv PROVE EventsMatchStats
          OBVIOUS
      <2> DEFINE n == Len(log)
                 first == n - Len(events) + 1
      <2>1. /\ events \in Seq(IpsEvent) /\ log \in Seq(IpsEvent)
            /\ n \in Nat /\ Len(events) \in Nat /\ MaxEvents \in Nat
            BY IpsAssumption DEF EngineInv, EngineTypeOK
      <2>2. /\ Len(events) = IF n <= MaxEvents THEN n ELSE MaxEvents
            /\ \A k \in 1 .. Len(events) : events[k] = log[n - Len(events) + k]
            BY DEF EngineInv, FeedIsNewest
      <2>3. Min({n, MaxEvents}) = Len(events)
            BY <2>1, <2>2 DEF Min
      <2>4. events = SubSeq(log, first, n)
            <3>1. first \in Int /\ n \in Int /\ \A i \in first .. n : log[i] \in IpsEvent
                  BY <2>1, <2>2
            <3>2. /\ SubSeq(log, first, n) \in Seq(IpsEvent)
                  /\ Len(SubSeq(log, first, n)) = IF first <= n THEN n - first + 1 ELSE 0
                  /\ \A i \in 1 .. n - first + 1 : SubSeq(log, first, n)[i] = log[first + i - 1]
                  BY <3>1, SubSeqProperties
            <3> DEFINE feed == SubSeq(log, first, n)
            <3> HIDE DEF feed
            <3>3. Len(feed) = Len(events) /\ feed \in Seq(IpsEvent)
                  BY <2>1, <2>2, <3>2 DEF feed
            <3>4. ASSUME NEW i \in 1 .. Len(events) PROVE events[i] = feed[i]
                  <4>1. /\ i \in 1 .. n - first + 1 /\ i \in Int
                        /\ first + i - 1 = n - Len(events) + i
                        BY <2>1
                  <4>2. feed[i] = log[first + i - 1]
                        BY <3>2, <4>1 DEF feed
                  <4> QED  BY <2>2, <4>1, <4>2
            <3>5. events = feed
                  BY <2>1, <3>3, <3>4, SeqEqual
            <3> QED  BY <3>5 DEF feed
      <2>5. events = SubSeq(log, Len(log) - Min({Len(log), MaxEvents}) + 1, Len(log))
            BY <2>3, <2>4
      <2> QED  BY <2>5 DEF EngineInv, VerdictsAreCounted, EventsMatchStats
<1> QED  BY <1>1, EngineInvariant, PTL


=============================================================================
