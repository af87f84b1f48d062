SPECIFICATION Spec
CONSTANTS
  Controllers = {alice, bob}
  Conns = {c1, c2}
  NoController = NoController
  MaxTries = 1
INVARIANTS SessionsArePaired CountersHold
PROPERTY PairedByRight
SYMMETRY Symmetry
CHECK_DEADLOCK FALSE
