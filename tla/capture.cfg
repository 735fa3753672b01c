CONSTANTS
  theirs = theirs
  mine = mine
  testnet = testnet
  Wave = {theirs, mine}
  Mine = mine
  NetOf <- SameNetwork
  MaxMsgs = 2
  MaxCmds = 1
  MaxAsks = 2
SPECIFICATION Spec
INVARIANTS TypeOK MomentTaken OneCentre
CHECK_DEADLOCK FALSE
