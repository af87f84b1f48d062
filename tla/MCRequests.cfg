SPECIFICATION GroupSpec
CONSTANTS
  Subjects = {"characteristics", "accessories", "registry", "frames", "messages", "structures"}
  Characteristics = {c1, c2}
  TimedWriteOnly = {c2}
  Pids = {p1, p2}
  NoPid = NoPid
  MaxRequests = 2
  MaxPrepares = 2
  MaxLate = 1
  TimeoutWarning = 1
  TimeoutAfterWarning = 1
  ReadRequests = {r1, r2}
  Characteristic <- TwoServices
  OwnServices = {"info"}
  WriteOnly = {"identify"}
  Warning = 1
  AfterWarning = 2
  Recent = 1
  Clients = {k1, k2, k3}
  TimeoutLimit = 2
  MaxIdleTime = 3
  Forever = 6
  Chunk = 3
  Tag = 2
  MaxWrite = 7
  MaxFrames = 4
  Values <- ValueSet
  MaxSmall = 1
  RangeStop = 0
  MaxInt8 = 3
  MaxInt16 = 5
  MaxInt32 = 8
  MaxTagLength = 1
  MaxTagArray = 1
  MaxTagDictionary = 1
  MaxIndex = 1
  MaxValues = 3
  Types = {0, 1, 2}
  Items <- ItemSet
  MaxLength = 2
  MaxItems = 2
  MaxEntries = 2
INVARIANTS RequestsInOrder AnswerIsWhole IdleConnectionsEnd FramesDelivered MessagesSurvive StructuresSurvive
PROPERTIES NothingLeftOut EveryRequestAnswered
CHECK_DEADLOCK FALSE
