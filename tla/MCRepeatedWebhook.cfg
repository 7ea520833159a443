CONSTANTS
  Workers = {wkr1, wkr2}
  TopUpKeys = {key1}
  Driver = purse
  Payloads = {"exact"}
  MaxFailures = 0
  MaxCrashes = 1
SPECIFICATION FairSpec
PROPERTIES
  RepeatedWebhookSettles
