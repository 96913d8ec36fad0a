\* A setting changed while a logout waits for its write.
SPECIFICATION SessionSpec
CONSTANTS
  Configs = {blank, home}
  Blank = blank
  NoPair = none
  Managers = {m1, m2, m3}
  Logouts = {l1, l2}
  MaxIdentities = 3
  MaxConfigs = 1
  MaxRestarts = 0
  MaxWrites = 3
INVARIANT LoggedOutIsForgotten
