CONSTANTS
  i = i
  a = a
  b = b
  Peer = {i, a, b}
  Initiator = i
  AutoSubscribe = {i, a, b}
  Mesh <- Line
  MaxUnsubscribes = 0
  MaxLinkChanges = 0
  MaxChanges = 0
SPECIFICATION Spec
INVARIANT ScheduleAgreement
CHECK_DEADLOCK FALSE
