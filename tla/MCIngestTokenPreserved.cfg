SPECIFICATION Spec
CONSTANTS
  Replica = {r1}
  Flow = {f1, f2}
  Revocable = {}
  PageSize = 2
  BatchSize = 3
  MaxEvents = 4
  MaxFaults = 0
  NoToken = NoToken
  NoReplica = NoReplica
PROPERTIES TokenPreserved
