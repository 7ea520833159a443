CONSTANTS
  h1 = h1
  h2 = h2
  Handlers <- MCHandlers
  MaxMeter = 3
  MaxCrashes = 1
SPECIFICATION Spec
SYMMETRY Symmetry
INVARIANTS
  ChargingIsStarted
  CompletedIsMetered
PROPERTIES
  OnlyForward
