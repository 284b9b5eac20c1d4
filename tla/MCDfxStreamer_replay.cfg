\* Stores and replays of up to three rows, any back-pressure and decoupling; every
\* store and every replay ends.
CONSTANTS
  None = None
  Unknown = Unknown
  b0 = b0
  b1 = b1
  p0 = p0
  p1 = p1
  Beats <- MCBeats
  Port <- MCPort
  Rows = 3
  TrackMod = 8
SPECIFICATION StreamerFairSpec
INVARIANTS
  StreamerInvariant
  SignalledIsInMemory
  ReadAheadMatches
PROPERTIES
  ImplementsBuffer
  ReturnsToIdle
