CONSTANTS
  TariffIds = {t1, t2}
  Requests = {r1}
  LastDay = 1
SPECIFICATION Spec
INVARIANT DraftIsNotCharged
