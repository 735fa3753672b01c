CONSTANTS
  Me = 6
  Writer = {5}
  Host = 5
  Late = {6}
  Arc = 4
  AutoSubscribe = {TRUE, FALSE}
  MaxOpens = 2
  MaxReads = 2
  MaxPosts = 2
SPECIFICATION FairSpec
INVARIANTS TypeOK EntryCarried
PROPERTIES ViewOfHeldCores EntryLands ViewConverges
CHECK_DEADLOCK FALSE
