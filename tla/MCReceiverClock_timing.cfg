SPECIFICATION Spec
CONSTANTS
  Cycle = 14
  RequestedLevels = {0, 50, 80, 100, 255}
  SettleLimit = 2
  SilenceLimit = 3
  MaxIteration = 1
INVARIANTS DonatesItsLevel RotationInTime SilenceNoticed
PROPERTIES DropsOnlyAfterFullWait SilenceIsReal
