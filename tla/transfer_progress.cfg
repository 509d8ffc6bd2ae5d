SPECIFICATION FairSpec
CONSTANTS
  Sizes <- FlowFiles
  ChunkSize = 1
  BufferHigh = 1
  BufferLow = 0
  High = 2
  Low = 0
  Events <- PauseAndDialog
  MaxEvents = 2
CHECK_DEADLOCK FALSE
PROPERTY BatchCompletes
