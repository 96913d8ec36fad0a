\* One surface, one logout, a stored pairing or none: an answer under way when
\* clear() runs.
SPECIFICATION Spec
CONSTANTS
  Pairs = {p1}
  NoPair = NoPair
  Surfaces = {settingsTab}
  Renewals = {r1}
  NoRenewal = NoRenewal
  PairTtl = 3
  PollInterval = 2
  LeaseTtls = {2}
  RenewalLead = 1
  MaxLogouts = 1
  Horizon = 5
INVARIANT LeaseMatchesPair
