\* Several rounds of one session, or one round of four; one after the other.
CONSTANTS
  None = None
  Slot <- OneRegionSlot
  Stream <- MCStream
  Region <- MCRegion
  RM <- MCRM
  RegionOf <- OneRegionOf
  AddrMod = 4
  QueryMod = 4
  Programs <- OneRegionPrograms
  Configs <- OneRegionConfigs
  Jobs <- OneRegionJobs
  PsCommands <- StartOnly
  PsReads <- NoReads
SPECIFICATION FairSpec
INVARIANTS
  RoundsInvariant
  WithinBudget
PROPERTIES
  AddressesAdvance
  RunTerminates
