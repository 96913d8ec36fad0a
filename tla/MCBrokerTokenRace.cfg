CONSTANTS
    Pairs = {p1}
    Nonces = {n1}
    Devices = {d1}
    MaxRecords = 1
    MaxTtl = 1
    MaxNonceTtl = 1
    Horizon = 1
    RecordTtl = 2
    NoPair = NoPair
    Writers <- Slots
    MaxPersists = 2
    MaxRestarts = 0
SPECIFICATION Spec
INVARIANT RevokedConsentForgotten
