SPECIFICATION Spec
CONSTANTS
  Sizes <- ThreeFiles
  MaxChunk = 4
  MaxInFlight = 2
  High = 3
  Low = 1
  Events <- Misbehaviour
  MaxEvents = 1
CHECK_DEADLOCK FALSE
INVARIANTS BytesInPlace CompleteIsWhole NeverOutOfStep
