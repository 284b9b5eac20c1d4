\* The second round meets the COMPLETE_MASKs of the first.
CONSTANTS
  None = None
  Slot <- MCSlot
  Stream <- MCStream
  Region <- MCRegion
  RM <- MCRM
  RegionOf <- MCRegionOf
  AddrMod = 4
  QueryMod = 4
  Programs <- LoopingProgram
  Configs <- TwoLoops
  Jobs <- AnyJob
  PsCommands <- StartOnly
  PsReads <- NoReads
SPECIFICATION Spec
INVARIANTS
  StoresFinished
