SPECIFICATION Spec
CONSTANTS
    client = client
    NoCount = NoCount
    Packet <- MCPacket
    Client <- MCClient
    Second = 1
    MaxFlows = 2
    IdleTimeout = 1
    MaxSamples = 2
    MaxPackets = 4
    MaxTime = 3
INVARIANTS
    TypeOK
    TrafficConserved
    RecordsConsistent
    HostPairsShareAFlow
    AnomalyNeedsRhythm
PROPERTIES
    ClosesOnlyIdleOrOldest
    IdleFlowsLeave
    GaugeRecovers
