CONSTANTS
  ana = ana
  bia = bia
  t1 = t1
  t2 = t2
  Slots = {p1, p2}
  DriverTokens = 3
  OperatorTokens = 4
  MaxLaunches = 2
  MaxVisits = 2
  MaxLost = 1
  MaxLocates = 3
  Visits = {{"wallet", "add", "pix"}, {"rule", "methods"}}
  MaxCalls = 2
  MaxFailures = 1
SPECIFICATION FairSpec
INVARIANTS
  TokensAreFew
  AppKeepsItsSession
  OneSessionPerVisit
  ScreensAreTrue
PROPERTIES
  DeadStaysDead
  EndIsShown
CHECK_DEADLOCK FALSE
