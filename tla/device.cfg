SPECIFICATION Spec
CONSTANTS
  HistoryLimit = 2
  Earlier <- MCEarlier
  MaxName = 2
  MaxSegments = 2
  MaxFiles = 2
  MaxBytes = 3
  MemoryLimit = 2
  Files <- MCFiles
  MaxDepth = 2
  MaxTransfers = 2
  Browsers <- MCBrowsers
  Offers <- MCOffers
  DiskName <- MCDiskName
  Present <- MCPresent
  MaxCopies = 2
  MaxStrangers = 1
  Window = 2
  Tick = 2
  RatesKept = 1
  Pace = {2}
INVARIANTS TypeOK AwakeWhileMoving OutcomeLogged OfferParses BatchOnDisk HonestBatchFits ReadoutIsTrue
PROPERTIES TheirsKept
CHECK_DEADLOCK FALSE
