\* One process that may fail or crash once, authorized twice, over a
\* midnight.
SPECIFICATION ASpec
CONSTANTS
  Replica = {r1}
  Flow = {f1, f2}
  Revocable = {}
  PageSize = 1
  BatchSize = 2
  MaxEvents = 2
  MaxFaults = 1
  NoToken = NoToken
  NoReplica = NoReplica
  MaxDay = 2
SYMMETRY Interchangeable
INVARIANTS ATypeOK PastIsComplete CountersAgree
PROPERTIES PastIsFinal
