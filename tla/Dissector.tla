----------------------------- MODULE Dissector -----------------------------
(* dissect_packet of src/src/dissectors/mod.rs with the header dissectors   *)
(* it calls (tcp.rs, udp.rs, icmp.rs, http.rs, tls.rs), as the capture      *)
(* thread runs it on one frame.                                             *)
(*                                                                          *)
(* A frame is its length: a byte's value is chosen where the code reads it. *)
(* Each header, length field and TLS extension is a step, and `read` is one *)
(* past the last byte that the step touches: an index beyond the slice is a *)
(* panic in Rust, and a panic ends the capture thread.                      *)
EXTENDS Integers

CONSTANTS
    FrameLength,  \* lengths a captured frame may have
    Nibble,       \* values of the two 4-bit header lengths
    ByteValue,    \* values of an 8-bit length field
    WordValue,    \* values of a 16-bit length field
    Port          \* port numbers

\* The widths do not matter: offsets are of type usize and never come near it.
ASSUME DissectorAssumption ==
    /\ FrameLength \subseteq Nat
    /\ Nibble \subseteq Nat
    /\ ByteValue \subseteq Nat
    /\ WordValue \subseteq Nat
    /\ Port \subseteq Nat

VARIABLES
    data_len,        \* data.len()
    stage,           \* what is to be parsed next
    offset,          \* where; in the TLS stages, an offset into the payload
    limit,           \* max_offset, and then extensions_end, of dissect_tls
    ip_proto,        \* PacketMetadata, from here ...
    addressed,       \* src_ip and dst_ip are Some
    src_port,
    dst_port,
    payload_offset,
    payload_len,
    protocol_name,   \* ... to here
    read             \* history: one past the last byte read by the last step

layer3 == <<ip_proto, addressed>>
layer4 == <<src_port, dst_port, payload_offset, payload_len>>
meta == <<layer3, layer4, protocol_name>>
parse_vars == <<data_len, stage, offset, limit, meta, read>>

Least(a, b) == IF a <= b THEN a ELSE b
Greatest(a, b) == IF a >= b THEN a ELSE b
SaturatingSub(a, b) == IF a >= b THEN a - b ELSE 0

Unknown == "unknown"    \* an ethertype or an ip_proto the code has no case for

ParseInit ==
    /\ data_len \in FrameLength
    /\ stage = "ethernet"
    /\ offset = 0 /\ limit = 0
    /\ ip_proto = Unknown /\ addressed = FALSE
    /\ src_port = 0 /\ dst_port = 0
    /\ payload_offset = 0 /\ payload_len = 0
    /\ protocol_name = ""
    /\ read = 0

-----------------------------------------------------------------------------
(* Ethernet and IP *)

\* The test every header dissector makes before it reads.
Fits(len) == data_len >= offset + len

\* Mutant of CutShort: the name is left as it was.
CutShortUnnamed(header, len, next, name) ==
    /\ stage = header
    /\ ~Fits(len)
    /\ stage' = next
    /\ read' = 0
    /\ UNCHANGED <<data_len, offset, limit, meta>>

\* The frame ends within a header of `len` bytes.
CutShort(header, len, next, name) ==
    /\ stage = header
    /\ ~Fits(len)
    /\ stage' = next
    /\ protocol_name' = name
    /\ read' = 0
    /\ UNCHANGED <<data_len, offset, limit, layer3, layer4>>

\* dissect_packet returns None.
Reject == CutShort("ethernet", 14, "rejected", "") \/ CutShort("vlan", 4, "rejected", "")

\* dissect_packet returns the metadata as they are.
ShortNetwork == CutShort("ipv4", 20, "done", "") \/ CutShort("ipv6", 40, "done", "")

\* The metadata are named so, and the identification follows.
ShortTransport ==
    \/ CutShort("tcp", 20, "identify", "tcp_truncated")
    \/ CutShort("udp", 8, "identify", "udp_truncated")
    \/ CutShort("icmp", 4, "identify", "icmp_truncated")
    \/ CutShort("icmpv6", 4, "identify", "icmp_truncated")

\* The ethertype decides; a tag in a tagged frame is an unknown ethertype.
LinkHeader(header, len, types) ==
    /\ stage = header
    /\ Fits(len)
    /\ offset' = offset + len
    /\ read' = offset + len
    /\ \E ethertype \in types :
          /\ stage' = IF ethertype = Unknown THEN "done" ELSE ethertype
          /\ protocol_name' = IF ethertype = Unknown THEN "other" ELSE ""
    /\ UNCHANGED <<data_len, limit, layer3, layer4>>

Ethernet == LinkHeader("ethernet", 14, {"vlan", "ipv4", "ipv6", Unknown})

Vlan == LinkHeader("vlan", 4, {"ipv4", "ipv6", Unknown})

Transport == {"tcp", "udp", "icmp", "icmpv6", Unknown}

\* The IP header is whole: the protocol it names is next, at `start`.
ToTransport(proto, start) ==
    /\ offset' = start
    /\ ip_proto' = proto
    /\ addressed' = TRUE
    /\ \/ /\ proto # Unknown
          /\ stage' = proto
          /\ UNCHANGED <<layer4, protocol_name>>
       \/ /\ proto = Unknown
          /\ stage' = "identify"
          /\ protocol_name' = "ip_other"
          /\ payload_offset' = start
          /\ payload_len' = SaturatingSub(data_len, start)
          /\ UNCHANGED <<src_port, dst_port>>

\* ihl < 20 or a header longer than the frame: no addresses.
IsBadIhl(ihl) == ihl < 20 \/ data_len < offset + ihl

Ipv4 ==
    /\ stage = "ipv4"
    /\ Fits(20)
    /\ \E ihl \in {4 * n : n \in Nibble} :
          \/ /\ IsBadIhl(ihl)
             /\ read' = offset + 1
             /\ stage' = "done"
             /\ UNCHANGED <<offset, meta>>
          \/ /\ ~IsBadIhl(ihl)
             /\ read' = offset + 20
             /\ \E proto \in Transport : ToTransport(proto, offset + ihl)
    /\ UNCHANGED <<data_len, limit>>

Ipv6 ==
    /\ stage = "ipv6"
    /\ Fits(40)
    /\ read' = offset + 40
    /\ \E proto \in Transport : ToTransport(proto, offset + 40)
    /\ UNCHANGED <<data_len, limit>>

-----------------------------------------------------------------------------
(* TCP, UDP and ICMP *)

\* Mutant of UdpPayload: the declared length is believed.
UdpPayloadDeclared(udp_len, start) == SaturatingSub(udp_len, 8)

\* Mutant of UdpPayload: a declared length below 8 is not expected.
UdpPayloadUnsaturated(udp_len, start) == Least(udp_len - 8, SaturatingSub(data_len, start))

\* The declared length, capped by what was captured.
UdpPayload(udp_len, start) == Least(SaturatingSub(udp_len, 8), SaturatingSub(data_len, start))

\* What a header of protocol `proto` yields, after reading its first `n` bytes.
Parsed(proto, n, src, dst, start, len) ==
    /\ src_port' = src
    /\ dst_port' = dst
    /\ payload_offset' = start
    /\ payload_len' = len
    /\ protocol_name' = proto
    /\ stage' = "identify"
    /\ read' = offset + n
    /\ UNCHANGED <<data_len, offset, limit, layer3>>

\* data_offset.max(20): a TCP header is at least 20 bytes; it may claim to end
\* beyond the frame, and then there is no payload.
Tcp ==
    /\ stage = "tcp"
    /\ Fits(20)
    /\ \E src, dst \in Port, words \in Nibble :
          LET start == offset + Greatest(4 * words, 20) IN
          Parsed("tcp", 16, src, dst, start, SaturatingSub(data_len, start))

Udp ==
    /\ stage = "udp"
    /\ Fits(8)
    /\ \E src, dst \in Port, udp_len \in WordValue :
          Parsed("udp", 6, src, dst, offset + 8, UdpPayload(udp_len, offset + 8))

\* Type and code, and as much of an eight byte header as there is.
Icmp ==
    /\ stage \in {"icmp", "icmpv6"}
    /\ Fits(4)
    /\ LET start == offset + Least(8, data_len - offset) IN
       Parsed(stage, 2, src_port, dst_port, start, SaturatingSub(data_len, start))

-----------------------------------------------------------------------------
(* Identification by port, and by content where no port is known *)

HasPort(ports) == src_port \in ports \/ dst_port \in ports

TlsPorts == {443, 8443}
HttpPorts == {80, 8080, 8000, 9090, 3000, 3128, 8888}

TcpName ==
    IF HasPort(TlsPorts) THEN "tls"
    ELSE IF HasPort(HttpPorts) THEN "http"
    ELSE IF HasPort({53}) THEN "dns"
    ELSE protocol_name

UdpName ==
    IF HasPort({53, 5353}) THEN "dns"
    ELSE IF HasPort({123}) THEN "ntp"
    ELSE IF HasPort({67, 68}) THEN "dhcp"
    ELSE IF HasPort({443}) THEN "quic"
    ELSE protocol_name

WantsTls == ip_proto = "tcp" /\ HasPort(TlsPorts) /\ payload_len > 0

WantsHttp ==
    /\ ip_proto = "tcp"
    /\ ~HasPort(TlsPorts \cup HttpPorts \cup {53})
    /\ payload_len > 4

Identify ==
    /\ stage = "identify"
    /\ protocol_name' = IF ip_proto = "tcp" THEN TcpName
                        ELSE IF ip_proto = "udp" THEN UdpName
                        ELSE protocol_name
    /\ stage' = IF WantsTls THEN "tls_record" ELSE IF WantsHttp THEN "http" ELSE "done"
    /\ read' = 0
    /\ UNCHANGED <<data_len, offset, limit, layer3, layer4>>

\* What dissect_http and dissect_tls get: data.get(payload_offset..).
PayloadBytes == data_len - payload_offset

\* dissect_http: ten bytes of text, and a first line that looks the part.
Http ==
    /\ stage = "http"
    /\ \/ PayloadBytes >= 10 /\ protocol_name' = "http"
       \/ UNCHANGED protocol_name
    /\ stage' = "done"
    /\ read' = data_len
    /\ UNCHANGED <<data_len, offset, limit, layer3, layer4>>

-----------------------------------------------------------------------------
(* dissect_tls, a walk over length fields.  Its result is not used. *)

Touch(n) == read' = payload_offset + n

\* Record and handshake headers.  A record that is short, or no ClientHello,
\* ends the walk; version and random are skipped.
TlsRecord ==
    /\ stage = "tls_record"
    /\ offset' = 43
    /\ \E record_len \in WordValue, is_client_hello \in BOOLEAN :
          /\ limit' = Least(5 + record_len, PayloadBytes)
          /\ stage' = IF PayloadBytes >= 9 /\ is_client_hello /\ 43 < limit'
                      THEN "tls_session" ELSE "done"
          /\ Touch(IF PayloadBytes < 5 THEN 0 ELSE IF PayloadBytes < 9 THEN 5 ELSE 6)
    /\ UNCHANGED <<data_len, meta>>

\* Mutant of Overruns: the length of the next field is not checked for.
OverrunsAtEnd(position, width) == position > limit

Overruns(position, width) == position + width > limit

\* Read a length field of `width` bytes, skip what it counts, and go on if the
\* next length field is there.
SkipField(field, width, values, next, next_width) ==
    /\ stage = field
    /\ \E n \in values :
          /\ offset' = offset + width + n
          /\ stage' = IF Overruns(offset', next_width) THEN "done" ELSE next
    /\ Touch(offset + width)
    /\ UNCHANGED <<data_len, limit, meta>>

TlsSession == SkipField("tls_session", 1, ByteValue, "tls_ciphers", 2)

TlsCiphers == SkipField("tls_ciphers", 2, WordValue, "tls_compression", 1)

TlsCompression == SkipField("tls_compression", 1, ByteValue, "tls_extensions", 2)

TlsExtensions ==
    /\ stage = "tls_extensions"
    /\ offset' = offset + 2
    /\ \E n \in WordValue : limit' = Least(offset + 2 + n, limit)
    /\ stage' = "tls_extension"
    /\ Touch(offset + 2)
    /\ UNCHANGED <<data_len, meta>>

AfterExtension(ext_len) == offset + 4 + ext_len

IsSni(ext_len) == ext_len > 5 /\ offset + 4 + ext_len <= limit

\* One turn of the extension loop; an SNI whose name fits ends it.
TlsExtension ==
    /\ stage = "tls_extension"
    /\ offset + 4 <= limit
    /\ \E ext_len \in WordValue :
          \/ /\ Touch(offset + 4)
             /\ offset' = AfterExtension(ext_len)
             /\ UNCHANGED stage
          \/ /\ IsSni(ext_len)
             /\ \E name_len \in WordValue :
                   \/ /\ offset + 9 + name_len <= limit
                      /\ Touch(offset + 9 + name_len)
                      /\ stage' = "done"
                      /\ UNCHANGED offset
                   \/ /\ offset + 9 + name_len > limit
                      /\ Touch(offset + 9)
                      /\ offset' = AfterExtension(ext_len)
                      /\ UNCHANGED stage
    /\ UNCHANGED <<data_len, limit, meta>>

\* Mutant of TlsEnd: the loop is left only at the exact end.
TlsEndExact ==
    /\ stage = "tls_extension"
    /\ offset = limit
    /\ stage' = "done"
    /\ read' = 0
    /\ UNCHANGED <<data_len, offset, limit, meta>>

TlsEnd ==
    /\ stage = "tls_extension"
    /\ offset + 4 > limit
    /\ stage' = "done"
    /\ read' = 0
    /\ UNCHANGED <<data_len, offset, limit, meta>>

-----------------------------------------------------------------------------
Network == Reject \/ Ethernet \/ Vlan \/ ShortNetwork \/ Ipv4 \/ Ipv6

Upper == ShortTransport \/ Tcp \/ Udp \/ Icmp \/ Identify \/ Http

Tls ==
    \/ TlsRecord \/ TlsSession \/ TlsCiphers \/ TlsCompression
    \/ TlsExtensions \/ TlsExtension \/ TlsEnd

ParseNext == Network \/ Upper \/ Tls

\* dissect_packet is one call of one thread: it runs on until it returns.
ParseSpec == ParseInit /\ [][ParseNext]_parse_vars /\ WF_parse_vars(ParseNext)

-----------------------------------------------------------------------------
(* Properties *)

TlsStage == {"tls_record", "tls_session", "tls_ciphers", "tls_compression",
             "tls_extensions", "tls_extension"}

Header == {"ethernet", "vlan", "ipv4", "ipv6", "tcp", "udp", "icmp", "icmpv6"}

Stage == Header \cup {"identify", "http", "done", "rejected"} \cup TlsStage

\* Every variable keeps its type; no length is negative.
ParserTypeOK ==
    /\ data_len \in FrameLength
    /\ stage \in Stage
    /\ offset \in Nat /\ limit \in Nat /\ read \in Nat
    /\ ip_proto \in Transport
    /\ addressed \in BOOLEAN
    /\ src_port \in Nat /\ dst_port \in Nat
    /\ payload_offset \in Nat /\ payload_len \in Nat

\* No frame, however short and whatever its length fields say, makes a step
\* read a byte behind its end: dissect_packet does not panic.
ReadsInBounds == read <= data_len

\* The payload that the metadata report lies in the frame: a UDP length that
\* is too large or a TCP header that runs over the end does not stretch it.
PayloadInFrame ==
    payload_len > 0 => payload_offset + payload_len <= data_len

\* A frame whose addresses were read, and which therefore goes on to the flow
\* table and the rules, ends up with a protocol name, truncated or not.
AddressedIsNamed ==
    stage = "done" /\ addressed => protocol_name # ""

\* A step that stays in its stage has advanced in the frame: the walk over the
\* TLS extensions takes at least four bytes a turn, a length of 0 included.
WalkAdvances == [][stage' = stage => offset' >= offset + 4]_parse_vars

\* dissect_packet returns on every frame: each stage has a way on, and the walk ends.
Terminates == <>(stage \in {"done", "rejected"})

=============================================================================
