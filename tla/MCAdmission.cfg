CONSTANTS
    Codes = {c1,c2}
    Devices = {d1, d2}
    MaxCodes = 1
    CodeTtls = {1,2}
    Horizon = 3
    Pairs = {p1, p2}
    Nonces = {}
    MaxRecords = 1
    MaxTtl = 1
    MaxNonceTtl = 1
    Addresses = {a1,a2}
    MaxAttempts = 2
    Window = 2
    NoCode = NoCode
    MaxWaiting = 1
SYMMETRY IdSymmetry
SPECIFICATION AdmissionSpec
INVARIANTS CodeRedeemedOnce UnredeemedStaysRedeemable PairingsApproved
           SlidingRateBounded RefusedOnlyWhenSpent
