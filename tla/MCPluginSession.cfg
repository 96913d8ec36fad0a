\* Two brokers and a blank configuration, two logouts that can overlap, a restart;
\* three queued writes, any of which can fail.
SPECIFICATION SessionFairSpec
CONSTANTS
  Configs = {blank, home, away}
  Blank = blank
  NoPair = none
  Managers = {m1, m2, m3}
  Logouts = {l1, l2}
  MaxIdentities = 3
  MaxConfigs = 2
  MaxRestarts = 1
  MaxWrites = 3
INVARIANTS NewestIsFinal PairingStaysWithItsBroker PairingProvable NoTokenBeforeLease TabIsFresh
PROPERTIES DiskNeverGoesBack LogoutEnds
