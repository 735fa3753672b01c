CONSTANTS
  MaxActs = 2
  MaxFlows = 1
SPECIFICATION FairSpec
PROPERTY TopicFollowsWallet
CHECK_DEADLOCK FALSE
