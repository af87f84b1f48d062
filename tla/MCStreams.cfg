SPECIFICATION GroupSpec
CONSTANTS
  Subjects = {"connection", "streams"}
  e1 = e1
  v1 = v1
  v2 = v2
  s1 = s1
  s2 = s2
  h1 = h1
  c1 = c1
  c2 = c2
  r1 = r1
  none = none
  Events <- OneEvent
  Values <- TwoValues
  NoValue = none
  NoEvent = none
  MaxEvents = 3
  MaxChunks = 2
  Sessions <- TwoSessions
  HapConnections <- OneHap
  Connections <- TwoConnections
  RequestIds <- OneRequest
  MaxFrames = 2
  NoSession = none
  NoOne = none
 
PROPERTIES DeliversAndCloses ImplementsStreamSessions 
CHECK_DEADLOCK FALSE
