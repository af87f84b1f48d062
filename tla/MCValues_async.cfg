SPECIFICATION GroupSpec
CONSTANTS
  Subjects = {"value"}
  off = off
  on = on
  listener = listener
  alice = alice
  bob = bob
  Accessory = Accessory
  Values <- TwoValues
  InitialValue = off
  Listeners <- OneListener
  Requesters <- OneRequester
  SetHandler = "async"
  GetHandler = "async"
  MaxRequests = 3
  MaxUpdates = 2
  Conns = {c1, c2, c3}
  Chars = {x1, x2}
  MayRemove = TRUE
  MayUnpublish = TRUE
  One = 4
  IntBound = 16
  UintBound = 12
  FloatBound = 40
  DefaultLen = 2
  LongestLen = 3
  UUIDKind = "apple"
  MaxCalls = 2
  Declarations <- SomeDeclarations
  Changes <- SomeChanges
  Supplied <- SomeValues
INVARIANTS ListenersUpToDate
CHECK_DEADLOCK FALSE
