\* Every kind of driver call, at any moment of a run.
CONSTANTS
  None = None
  Slot <- MCSlot
  Stream <- MCStream
  Region <- MCRegion
  RM <- MCRM
  RegionOf <- MCRegionOf
  AddrMod = 3
  QueryMod = 4
  Calls <- AllCalls
  fields <- MCfields
  Reports <- MCReports
  Tables <- MCTables
  Settings0 <- MCSettings0
SPECIFICATION FairSpec
INVARIANTS
  DriverInvariant
  ReadsWhatItAsks
  PrintsOneTable
  WholeRowWritten
  RunHasValidBudget
  OverMeansIdle
PROPERTIES
  CallReturns
