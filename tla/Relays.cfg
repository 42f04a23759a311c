SPECIFICATION RelaySpec
CONSTANTS
  MaxStored = 3
  WSMaxFrames = 2
  Lengths = {0, 1, 2, 4}
  MaxWire = 2
  RuleLists <- MCRuleLists
  Snap <- MCSnap
  Words = {"s"}
  Names <- MCNames
  RelayAddresses <- MCAddresses
  Strangers = {c, d}
  Targets <- MCTargets
  MaxDatagrams = 1
  MaxOut = 3
  NoOne = NoOne
  Denied = Denied
INVARIANTS FramesAreExact RelayIsPinned FirstMatchWins
CHECK_DEADLOCK FALSE
