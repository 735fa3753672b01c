CONSTANTS
  MaxActs = 2
  MaxFlows = 2
SPECIFICATION FairSpec
INVARIANTS TypeOK OneLiveWallet
PROPERTIES WalletIsSlot RequestsAnswered HostSeesActiveWallet
CHECK_DEADLOCK FALSE
