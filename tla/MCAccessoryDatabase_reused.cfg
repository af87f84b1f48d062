SPECIFICATION DatabaseSpec
CONSTANTS
  Root = Root
  Bridged = {lamp, lock}
  Services = {s1}
  PurgeUnused = TRUE
  AwaitsAdvertiser = {FALSE}
  MaxConfigVersion = 3
  MaxChanges = 3
  MaxRestarts = 0
  MaxFetches = 2
INVARIANT IdsNotReused
CHECK_DEADLOCK FALSE
