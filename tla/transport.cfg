CONSTANTS
  a = a
  b = b
  c = c
  base = base
  main = main
  side = side
  Peer = {a, b, c}
  Topic = {base, main, side}
  Home = base
  Initiators = {a}
  NotePairs <- AToC
  FloodCap = 1
  OriginBurst = 1
  QueueCap = 1
  MaxAnnounces = 2
  MaxNotes = 2
  MaxLinks = 3
  MaxFaults = 2
  MaxEvents = 3
SPECIFICATION FairSpec
INVARIANTS TypeOK NotesAndDials SeenIsHandled
PROPERTY EveryoneLearns
CHECK_DEADLOCK FALSE
