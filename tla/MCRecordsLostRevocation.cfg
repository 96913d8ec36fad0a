CONSTANTS
    Pairs = {p1, p2}
    NoPair = NoPair
    Writers = {w1, w2}
SPECIFICATION RecordsSpec
INVARIANT AckedRevocationDurable
