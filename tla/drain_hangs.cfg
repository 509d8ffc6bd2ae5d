SPECIFICATION FairSpec
CONSTANTS
  Sizes <- UnevenFiles
  ChunkSize = 2
  BufferHigh = 1
  BufferLow = 0
  High = 2
  Low = 1
  Events <- LinkOnly
  MaxEvents = 1
CHECK_DEADLOCK FALSE
PROPERTY DrainReturns
