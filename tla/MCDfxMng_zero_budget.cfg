\* A budget of zero queries, which validate_query_config accepts.
CONSTANTS
  None = None
  Slot <- MCSlot
  Stream <- MCStream
  Region <- MCRegion
  RM <- MCRM
  RegionOf <- MCRegionOf
  AddrMod = 4
  QueryMod = 4
  Programs <- LoopingProgram
  Configs <- NoRounds
  Jobs <- AnyJob
  PsCommands <- StartOnly
  PsReads <- NoReads
SPECIFICATION Spec
INVARIANTS
  StopsAtBudget
