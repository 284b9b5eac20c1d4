\* The notebook, by a user who waits for the first loads.
CONSTANTS
  None = None
  Slot <- MCSlot
  Stream <- MCStream
  Region <- MCRegion
  RM <- MCRM
  RegionOf <- MCRegionOf
  AddrMod = 4
  QueryMod = 4
  Programs <- PipelinedToTop
  Configs <- OneRound
  Jobs <- AnyJob
  PsCommands <- StartOnly
  PsReads <- NoReads
  Patient = TRUE
SPECIFICATION DeployFairSpec
INVARIANTS
  DeployInvariant
  LoadingIsDecoupled
  AddressedIsCoupled
  ReconfiguredWhenDone
PROPERTIES
  DeploymentEnds
