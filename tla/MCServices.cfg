SPECIFICATION MCSpec
CONSTANTS
  Members = {m1, m2}
  Requests = {r1, r2}
  CommandKeys = {k1}
  Commands = {c1, c2}
  TariffIds = {t1, t2}
  Places = {p1, p2}
  Fields = {name, news}
  Values = {a, b}
  Intents = {i1}
  MaxFaults = 2
  MaxExpired = 1
  MaxVersion = 3
  MaxRows = 3
  StationIds = {1, 2}
  MaxFetches = 2
  MaxChanges = 1
  MaxValues = 40
  LastDay = 1
  LastHour = 1
  MaxSessions = 2
  MaxClock = 1
  MaxEnergy = 1
  Spendings = {"trip"}
  RechargeAmounts = {1}
  RechargeFaults = 1
SYMMETRY Symmetry
INVARIANTS
  KeepsAnAdmin
  DispatchedOnce
  PublishedHasVersion
  StationIsCoherent
  DefaultIsActive
  KeyIsHeld
  RunsAreAlone
  HistoryIsFaithful
  ChargedIsCredited
  RechargesDoNotPileUp
  FreshBooksAgree
  MockIsSound
  SearchIsRight
PROPERTIES
  DefaultIsKept
  NoEditIsLost
CHECK_DEADLOCK FALSE
