\* One process that may fail or crash once, two authorization flows, one of
\* whose tokens may stop working.
SPECIFICATION FairSpec
CONSTANTS
  Replica = {r1}
  Flow = {f1, f2}
  Revocable = {f1}
  PageSize = 1
  BatchSize = 2
  MaxEvents = 3
  MaxFaults = 1
  NoToken = NoToken
  NoReplica = NoReplica
INVARIANTS BufferBounded LagBounded
PROPERTIES CursorNeverGoesBack RunsEnd EventuallyArchived
