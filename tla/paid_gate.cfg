CONSTANTS
  testnet = testnet
  mainnet = mainnet
  Network = {testnet, mainnet}
  Unknown = unknown
  NoFee = nofee
  Starts <- MCStarts
  MinFee = 2
  MaxWallets = 2
  MaxFlows = 2
  MaxAsks = 1
  MaxRetries = 1
  MaxFees = 2
SYMMETRY NetworkSymmetry
SPECIFICATION Spec
INVARIANTS TypeOK AnnouncedIsBurned SeatPaidOnce
PROPERTY FeeOnlyForRealBurn
CHECK_DEADLOCK FALSE
