\* Does the second round end?
CONSTANTS
  None = None
  Slot <- MCSlot
  Stream <- MCStream
  Region <- MCRegion
  RM <- MCRM
  RegionOf <- MCRegionOf
  AddrMod = 4
  QueryMod = 4
  Programs <- PipelinedProgram
  Configs <- TwoRounds
  Jobs <- AnyJob
  PsCommands <- StartOnly
  PsReads <- NoReads
SPECIFICATION FairSpec
PROPERTIES
  RunTerminates
