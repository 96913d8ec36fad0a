SPECIFICATION Spec
CONSTANTS
  Nonces = {n1, n2}
  NoNonce = NoNonce
  NonceTtl = 2
  RecordTtl = 4
  Horizon = 4
INVARIANT RenewalKeepsPairing
