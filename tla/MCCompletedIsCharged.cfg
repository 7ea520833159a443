CONSTANTS
  Workers = {wkr1, wkr2}
  Sessions = {s1}
  Connectors = {c1}
  Driver = purse
  TopUps = {t1}
  TopUpAmount = 2
  PreAuth = 2
  MaxSession = 2
  Costs = {0, 1}
  MaxMinor = 3
  MaxVersion = 4
  MaxWrites = 0
  MaxCrashes = 0
  MaxErrors = 0
  MaxFaults = 0
SPECIFICATION Spec
INVARIANT CompletedIsCharged
