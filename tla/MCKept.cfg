SPECIFICATION GroupSpec
CONSTANTS
  Subjects = {"files", "controllers", "ids", "services"}
  bridge = bridge
  child = child
  lamp = lamp
  lock = lock
  info = info
  childInfo = childInfo
  shared = shared
  Processes <- TwoProcesses
  Keys <- ThreeKeys
  Writer <- OneOwnerEach
  Values = {v1, v2}
  Aliased <- NoKeys
  MaxWrites = 3
  Bridge = bridge
  BridgedAccessories <- OneBridged
  MaxData = 2
  MaxStarts = 3
  LateControllers = TRUE
  EarlyChanges = FALSE
  Root = Root
  Bridged <- TwoBridged
  Services = {s1}
  PurgeUnused = FALSE
  AwaitsAdvertiser = {FALSE}
  MaxConfigVersion = 1
  MaxChanges = 2
  MaxRestarts = 1
  MaxFetches = 2
  PluginServices = {"lamp", "night"}
  ControllerServices = {"mic", "mic2", "speaker"}
  Kind <- Kinds
  NoSubtype = ""
  NoService = "none"
  ServiceControllers = {"camera"}
  Slots = {"in", "out"}
  ServiceMaps <- Maps
  SlotOrder <- Order
  Types = {"Brightness"}
  MaxServices = 3
  MaxTypes = 1
  MaxEdits = 3
  MaxRestores = 2
INVARIANTS NeverTruncated ReadsAreDurable CompletedSurvives  IdsForEver ServicesAgree
CHECK_DEADLOCK FALSE
