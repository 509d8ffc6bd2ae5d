SPECIFICATION FairSpec
CONSTANTS
  Sizes <- GrowingFiles
  ChunkSize = 2
  BufferHigh = 1
  BufferLow = 0
  High = 2
  Low = 1
  Events <- AnyFault
  MaxEvents = 1
CHECK_DEADLOCK FALSE
PROPERTY SenderSettles ReceiverSettles
