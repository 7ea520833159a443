CONSTANTS
  Workers = {w1, w2}
  Driver = purse
  RechargeAmounts = {1, 2}
  Spendings = {trip}
  LastHour = 1
  MaxFaults = 1
SPECIFICATION Spec
PROPERTIES
  ConsentStands
