SPECIFICATION IpsSpec
CONSTANTS
    task1 = task1
    task2 = task2
    NoMode = NoMode
    Packet <- MCPacket
    NewRule <- MCNewRule
    Deletable <- MCDeletable
    Task <- MCTask
    MaxEvents = 2
    MaxPackets = 4
    MaxAdds = 2
INVARIANTS
    EngineTypeOK
    HitsBelongToRules
    EventsMatchStats
