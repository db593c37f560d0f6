\* Up to two rows of each of four events, results of up to two rows.
SPECIFICATION Spec
CONSTANTS
  d1 = d1
  d2 = d2
  d3 = d3
  d4 = d4
  p1 = p1
  p2 = p2
  ruleset = ruleset
  rejected = rejected
  member = member
  create = create
  Doc <- MCDoc
  Audit <- MCAudit
  Repo <- MCRepo
  Action <- MCAction
  Typed <- MCTyped
  Prefixed <- MCPrefixed
  Listed <- MCListed
  Excluded <- MCExcluded
  DayTicks = 2
  Day <- MCDay
  MaxRows = 2
  MaxCopies = 2
  Undated = Undated
  NoAction = NoAction
  NoDate = NoDate
  BadDate = BadDate
  None = None
INVARIANTS TypeOK
PROPERTIES OnlyAsked NothingMissing NewestKept MarkedAtLimit
