\* One round of the pipelined table; CLEAR, SHUTDOWN and reads at any time.
CONSTANTS
  None = None
  Slot <- MCSlot
  Stream <- MCStream
  Region <- MCRegion
  RM <- MCRM
  RegionOf <- MCRegionOf
  AddrMod = 4
  QueryMod = 4
  Programs <- PipelinedProgram
  Configs <- OneRound
  Jobs <- AnyJob
  PsCommands <- AllCommands
  PsReads <- ReadsRow2
SPECIFICATION Spec
INVARIANTS
  RunInvariant
  ReadPortCurrent
  WriteIsWhole
  TransferConfigured
  ExecutesLoadedRM
  StoresFinished
  PulsesFindIdleStreamer
PROPERTIES
  SessionBarrier
  ImplementsChain
