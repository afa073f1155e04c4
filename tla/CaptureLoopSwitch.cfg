SPECIFICATION LoopSpec
CONSTANTS
    eth0 = eth0
    eth1 = eth1
    missing = missing
    task1 = task1
    task2 = task2
    NoDevice = NoDevice
    Iface <- MCIface
    Device <- MCDevice
    Client <- MCClient
PROPERTY
    SwitchTakesEffect
