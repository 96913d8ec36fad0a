CONSTANTS
    Pairs = {p1, p2, p3}
    Nonces = {n1, n2}
    Devices = {d1, d2}
    MaxRecords = 2
    MaxTtl = 2
    MaxNonceTtl = 2
    Horizon = 3
SYMMETRY IdSymmetry
SPECIFICATION Spec
INVARIANTS IndexesMatchRecords NonceAcceptedOnce CapacityRespected
PROPERTIES RefinesLifecycle
