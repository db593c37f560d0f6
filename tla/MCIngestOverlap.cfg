\* A rolling update: two ingest processes, one authorization flow, one failed
\* call or crash.
SPECIFICATION Spec
CONSTANTS
  Replica = {r1, r2}
  Flow = {f1}
  Revocable = {}
  PageSize = 1
  BatchSize = 2
  MaxEvents = 3
  MaxFaults = 1
  NoToken = NoToken
  NoReplica = NoReplica
SYMMETRY Interchangeable
INVARIANTS TypeOK ResumePointCovered RunCovers SuccessMeansCaughtUp
PROPERTIES ImplementsArchive
