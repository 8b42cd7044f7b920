SPECIFICATION FairSpec
CONSTANTS
  Items <- One
  Workers = 1
  MaxFaults = 2
  MaxCrashes = 1
PROPERTIES NumbersGoBack CancelEnds
CHECK_DEADLOCK FALSE
