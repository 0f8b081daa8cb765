CONSTANTS
  uart = uart
  modbus = modbus
  can = can
  None = None
  Uart = uart
  Modbus = modbus
  Can = can
  Workers <- MCWorkers
  Messages = {1, 2}
  Pieces = 2
  MaxConnections = 2
  Reads <- MCReads
  DataSheet <- MCDataSheet
  Readings <- MCReadings
  Masks <- MCMasks
  Request <- MCRequest
  Damaged = Damaged
  MaxReads = 2
SPECIFICATION DataSpec
INVARIANTS JsonLines OutcomeHonest ShutdownClean PublishedAsMeasured GoodFramesPublished
  EveryFrameCounted ScrapeExplained
