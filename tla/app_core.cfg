CONSTANTS
  w1 = w1
  w2 = w2
  t1 = t1
  t2 = t2
  k1 = k1
  testnet = testnet
  mainnet = mainnet
  Wave = {w1, w2}
  Tip = {t1, t2}
  Token = {k1}
  Network = {testnet, mainnet}
  NetOf <- SameNetwork
  MaxMsgs = 1
  MaxCmds = 1
  Lapsing = {w1}
  MaxBusy = 2
SPECIFICATION FairSpec
INVARIANTS TypeOK DirectoryAgrees
PROPERTIES EndedDropped TokensRedeemed TipsReachAuthor
CHECK_DEADLOCK FALSE
