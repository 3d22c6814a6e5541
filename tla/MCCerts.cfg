CONSTANTS
  Hosts = {"h1", "h2"}
  MaxKeys = 5
  MaxCrashes = 2
SPECIFICATION Spec
INVARIANTS PairsMatch SignedForTheGuest
CHECK_DEADLOCK FALSE
