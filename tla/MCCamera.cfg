SPECIFICATION GroupSpec
CONSTANTS
  Subjects = {"recording", "streaming", "services", "packets"}
  c1 = c1
  c2 = c2
  i1 = i1
  i2 = i2
  s1 = s1
  s2 = s2
  none = none
  Streams <- TwoRecordings
  Links <- TwoConnections
  NoStream = none
  NoLink = none
  Sessions <- TwoSessions
  Connections <- TwoConnections
  ProxyOptions = {TRUE, FALSE}
  NoSession = none
  NoConnection = none
  CameraOptions <- SomeOptions
  StreamSlots <- TwoStreams
  Sensors <- OneSensor
  MaxProcesses = 2
  MaxSnapshots = 1
  Types = {0, 96, 99}
  Times = {t1, t2}
  SourceSSRC = sourceSSRC
  OutgoingSSRC = outgoingSSRC
  Unknown = unknown
  Strange = strange
  MaxPackets = 2
INVARIANTS RecordingInOrder SessionsEnd CameraServed OneSourceOutside
PROPERTIES RecordingReleased
CHECK_DEADLOCK FALSE
