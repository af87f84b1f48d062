SPECIFICATION Spec
CONSTANTS
  Events = {e1, e2}
  Values = {v1, v2}
  NoValue = NoValue
  NoEvent = NoEvent
  MaxEvents = 3
  MaxChunks = 2
INVARIANTS NoStrandedEvent ImmediateWaitsForAnswerOnly ConnectionFaithful
PROPERTY ImplementsEventChannel
SYMMETRY Symmetry
CHECK_DEADLOCK FALSE
