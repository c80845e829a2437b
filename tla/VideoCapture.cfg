CONSTANT
  MaxFrames = 3
SPECIFICATION CSpec
INVARIANTS
  ClosedHoldsNothing
  GrabHasItsBuffers
