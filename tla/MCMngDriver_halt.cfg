\* SHUTDOWN in the middle of a session, then a poll of the main state.
CONSTANTS
  None = None
  Slot <- MCSlot
  Stream <- MCStream
  Region <- MCRegion
  RM <- MCRM
  RegionOf <- MCRegionOf
  AddrMod = 3
  QueryMod = 4
  Calls <- HaltCalls
  fields <- MCfields
  Reports <- MCReports
  Tables <- MCTables
  Settings0 <- MCSettings0
SPECIFICATION Spec
PROPERTIES
  HaltKeepsWrite
