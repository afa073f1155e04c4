---------------------------- MODULE MCDissector ----------------------------
(* The frame lengths at which a header ends or lacks one byte, with room    *)
(* above them for a TLS ClientHello of a few extensions.                    *)
EXTENDS Dissector

MCFrameLength == {0, 13, 14, 17, 18, 33, 34, 37, 42, 53, 54, 58, 62, 63, 97, 98, 99, 101,
                  104, 106, 110, 116, 120}

MCNibble == {0, 5, 6, 15}

MCByteValue == {0, 1, 255}

MCWordValue == {0, 2, 5, 6, 12, 60, 65535}

MCPort == {0, 443, 80, 53, 1024}
============================================================================
