SPECIFICATION Spec
CONSTANTS
    small = small
    medium = medium
    large = large
    NoPacket = NoPacket
    Packet <- MCPacket
    DataLen <- MCDataLen
    BufferSizes <- MCBufferSizes
    FirstCapacity = 2
    MaxGrowth = 1
    MaxPushes = 5
INVARIANTS
    TypeOK
PROPERTIES
    KeepsEvidenceWindow
    FlushCompleteUntilEviction
CHECK_DEADLOCK FALSE
