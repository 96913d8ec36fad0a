CONSTANTS
    Pairs = {p1, p2}
    Nonces = {n1}
    Devices = {d1}
    MaxRecords = 2
    MaxTtl = 1
    MaxNonceTtl = 1
    Horizon = 1
    RecordTtl = 2
    NoPair = NoPair
    Writers <- Slots
    MaxPersists = 2
    MaxRestarts = 1
SYMMETRY IdSymmetry
SPECIFICATION Spec
INVARIANTS EnrolledHasRecord RevocationAgrees LeaseNeedsConsent NonceBuysOneMint FileNeverAhead
           AcksDurableUnlessOverlapped
PROPERTIES RevokedStartsNoMint
