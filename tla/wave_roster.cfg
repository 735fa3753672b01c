CONSTANTS
  i = i
  a = a
  b = b
  Peer = {i, a, b}
  Initiator = i
  AutoSubscribe = {i, a}
  Mesh <- Line
  MaxUnsubscribes = 0
  MaxLinkChanges = 0
  MaxChanges = 0
SPECIFICATION Spec
INVARIANTS TypeOK ScopedGossip RosterHonoured
PROPERTY LifecycleSpec
CHECK_DEADLOCK FALSE
