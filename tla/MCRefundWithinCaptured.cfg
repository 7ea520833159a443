CONSTANTS
  Workers = {wkr1, wkr2}
  Requests = {k1, k2}
  Driver = purse
  Captured = 2
  MaxMinor = 2
  MaxCrashes = 0
SPECIFICATION Spec
INVARIANT WithinCaptured
