CONSTANTS
  i = i
  a = a
  b = b
  Peer = {i, a}
  Initiator = i
  AutoSubscribe = {i}
  Mesh <- FullMesh
  MaxUnsubscribes = 1
  MaxLinkChanges = 2
  MaxChanges = 2
SPECIFICATION FairSpec
INVARIANTS CoresHeld NeighbourView
PROPERTIES EventuallyIdle SeatedHolds
CHECK_DEADLOCK FALSE
