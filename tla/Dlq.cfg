CONSTANTS
    Caller = {c1, c2}
    MaxBytes = 10
    Percent = 50
    MaxPayload = 4
    Payloads = {4}
    MaxSpools = 3
    MaxRuns = 2
    MaxSecond = 1

SYMMETRY Symmetry

SPECIFICATION Spec

INVARIANTS
    TypeOK
    BoundedOvershoot
    EachSpoolHasItsFile
    CounterCoversDisk

CHECK_DEADLOCK FALSE
