\* Up to three streams of six kinds over three phases; a bank of seven rows
\* of two bits.
CONSTANTS
  TotalBanks = 7
  AmtPhase = 3
  BankWidth = 2
  BankDepth = 7
  NumRegions = 2
  Topologies <- MCTopologies
  Declarations <- MCDeclarations
SPECIFICATION ParamsFairSpec
INVARIANT CalInvariant
INVARIANT StreamsApart
INVARIANT EachPlaced
INVARIANT FewestStreamers
INVARIANT QueriesFit
INVARIANT NoBetterSplit
INVARIANT PortsWired
INVARIANT NoneBothWays
INVARIANT OneStorer
PROPERTY CalEnds
CHECK_DEADLOCK FALSE
