SPECIFICATION Spec
CONSTANTS
  MaxPages = 3
  MaxShares = 2
INVARIANTS
  PageTruth
  SharesAreReal
  StatsSafe
PROPERTIES
  ImplementsNative
  PressAnswered
