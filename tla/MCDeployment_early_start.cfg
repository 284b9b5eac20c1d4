\* The notebook, its cells run one after another without a pause.
CONSTANTS
  None = None
  Slot <- MCSlot
  Stream <- MCStream
  Region <- MCRegion
  RM <- MCRM
  RegionOf <- MCRegionOf
  AddrMod = 4
  QueryMod = 4
  Programs <- PipelinedToTop
  Configs <- OneRound
  Jobs <- AnyJob
  PsCommands <- StartOnly
  PsReads <- NoReads
  Patient = FALSE
SPECIFICATION DeploySpec
INVARIANTS
  ReconfiguredWhenDone
