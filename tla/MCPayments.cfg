CONSTANTS
  wkr1 = wkr1
  wkr2 = wkr2
  wkr3 = wkr3
  key1 = key1
  purse = purse
  Workers <- MCWorkers
  TopUpKeys <- MCKeys
  Driver = purse
  Payloads = {"exact", "altered"}
  MaxFailures = 1
  MaxCrashes = 1
  RefundWorkers <- MCRefundWorkers
  Requests = {k1}
  Captured = 2
  MaxMinor = 2
  RefundCrashes = 2
SPECIFICATION MCFairSpec
INVARIANTS
  PaymentIsCredited
  BooksBalance
PROPERTIES
  PaymentIsSettled
  RepeatedIsBooked
CHECK_DEADLOCK FALSE
