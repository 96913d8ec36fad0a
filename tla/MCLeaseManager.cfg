\* Two surfaces, one logout; the plugin may start with a stored pairing.  A pairing
\* window of 3 against a poll interval of 2: the last attempt straddles its end.
SPECIFICATION FairSpec
CONSTANTS
  Pairs = {p1, p2}
  NoPair = NoPair
  Surfaces = {settingsTab, browserView}
  Renewals = {r1, r2}
  NoRenewal = NoRenewal
  PairTtl = 3
  PollInterval = 2
  LeaseTtls = {2}
  RenewalLead = 1
  MaxLogouts = 1
  Horizon = 5
INVARIANTS ConsentPendingIsPolled BudgetOutlastsWindow StoredRenewalIsRunning SharedRenewal
           PersistedHadLease
PROPERTY EnrolmentEnds
