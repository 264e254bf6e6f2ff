CONSTANTS
  Signals = {sigint, sigterm, sigquit}
  Normal = Normal
  MaxSignals = 3
SPECIFICATION Spec
CHECK_DEADLOCK FALSE
INVARIANT TypeOK
INVARIANT NormalIsWhole
INVARIANT ZeroMeansAsked
INVARIANT SomethingWaits
PROPERTY EndsWhenTold
