\* START after SHUTDOWN without CLEAR.
CONSTANTS
  None = None
  Slot <- MCSlot
  Stream <- MCStream
  Region <- MCRegion
  RM <- MCRM
  RegionOf <- MCRegionOf
  AddrMod = 4
  QueryMod = 4
  Programs <- PipelinedProgram
  Configs <- OneRound
  Jobs <- AnyJob
  PsCommands <- StartShutdown
  PsReads <- NoReads
SPECIFICATION RestartSpec
PROPERTIES
  RunTerminates
