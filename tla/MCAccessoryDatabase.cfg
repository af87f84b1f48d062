SPECIFICATION DatabaseSpec
CONSTANTS
  Root = Root
  Bridged = {lamp, lock}
  Services = {s1}
  PurgeUnused = TRUE
  AwaitsAdvertiser = {TRUE, FALSE}
  MaxConfigVersion = 3
  MaxChanges = 2
  MaxRestarts = 1
  MaxFetches = 1
INVARIANT DatabaseAnnounced
PROPERTY StableIds
CHECK_DEADLOCK FALSE
