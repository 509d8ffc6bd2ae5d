SPECIFICATION Spec
CONSTANTS
  Sizes <- UnevenFiles
  ChunkSize = 2
  BufferHigh = 1
  BufferLow = 0
  High = 2
  Low = 1
  Events <- AnyEvent
  MaxEvents = 2
CHECK_DEADLOCK FALSE
INVARIANTS TypeOK VerifiedIsExact CompleteMeansSaved NoSuccessAfterFailure PauseInStep BacklogIsQueue InStep
PROPERTY ImplementsDelivery
