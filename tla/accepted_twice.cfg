SPECIFICATION OverlapSpec
CONSTANTS
  Sizes <- SmallFile
  ChunkSize = 2
  BufferHigh = 1
  BufferLow = 0
  High = 2
  Low = 1
  Events <- ClickTwice
  MaxEvents = 1
CHECK_DEADLOCK FALSE
INVARIANT CompleteMeansKept
