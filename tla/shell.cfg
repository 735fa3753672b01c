CONSTANTS
  Shells = {"desktop", "mobile"}
  MayFail = {"wallet"}
  MaxSeeds = 14
  Mint = {"testnut", "real"}
  DefaultMint = "testnut"
  TestMint = {"testnut"}
  MaxSwitches = 1
  MaxTopups = 1
  MaxPipe = 1
SPECIFICATION FairSpec
INVARIANTS TypeOK SeedsKept
PROPERTIES MintRemembered PanelSettles
CHECK_DEADLOCK FALSE
