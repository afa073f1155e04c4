SPECIFICATION ParseSpec
CONSTANTS
    FrameLength <- MCFrameLength
    Nibble <- MCNibble
    ByteValue <- MCByteValue
    WordValue <- MCWordValue
    Port <- MCPort
INVARIANTS
    ParserTypeOK
    ReadsInBounds
    PayloadInFrame
    AddressedIsNamed
PROPERTIES
    Terminates
CHECK_DEADLOCK FALSE
