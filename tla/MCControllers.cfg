SPECIFICATION GroupSpec
CONSTANTS
  Subjects = {"lighting", "remote", "access", "advertiser", "network"}
  t1 = t1
  t2 = t2
  c1 = c1
  s1 = s1
  s2 = s2
  none = none
  NoCurve = none
  Curves <- AnyLength
  MaxOffset = 8
  MaxSetBack = 1
  Modes = {"automatic", "manual"}
  Targets <- TwoTargets
  Connections <- OneConnection
  Streams <- TwoStreams
  HapOf <- OverOneConnection
  PacketSize = 2
  MaxQueue = 2
  MaxSessions = 2
  NoTarget = none
  NoConnection = none
  NoStream = none
  Passwords = {pa, pb}
  NoPassword = noPassword
  MaxWrites = 3
  Backends = {"avahi", "resolved"}
  MaxTxt = 3
  MaxPaths = 4
  MaxCalls = 3
  NoPath = none
  NameOrder <- Interfaces
  HostAddresses <- MayCarry
  BindOptions <- Options
  Advertisers = {"ciao", "bonjour"}
INVARIANTS LightingKept VoiceInOrder PluginKnowsSettings AnnouncedIsCurrent HostAddressed
SYMMETRY RemoteSymmetry
CHECK_DEADLOCK FALSE
