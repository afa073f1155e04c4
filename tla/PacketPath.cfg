SPECIFICATION Spec
CONSTANTS
    task = task
    Packet <- MCPacket
    Client <- MCClient
    RingBytes = 4
    MaxRows = 2
    MaxEvents = 1
    MaxPackets = 4
INVARIANTS
    TypeOK
    ToggleIsSharp
    SnapshotAccountsForPackets
    ViewsAgree
    AlertsEvidencedUntilEviction
