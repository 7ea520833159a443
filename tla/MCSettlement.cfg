CONSTANTS
  Workers = {wkr1, wkr2}
  Sessions = {s1}
  Connectors = {c1}
  Driver = purse
  TopUps = {t1}
  TopUpAmount = 2
  PreAuth = 2
  MaxSession = 2
  Costs = {1, 3}
  MaxMinor = 3
  MaxVersion = 4
  MaxWrites = 1
  MaxCrashes = 1
  MaxErrors = 1
  MaxFaults = 1
SPECIFICATION FairSpec
INVARIANTS
  IntentMatchesMoney
  PaysForCompleted
PROPERTIES
  WritesFollowLifecycle
  ContractSpec
  EndedSessionsSettle
CHECK_DEADLOCK FALSE
