\* A list of three pages.
SPECIFICATION Spec
CONSTANTS
  Item <- MCItem
  Kept <- MCKept
  PageSize = 1
  MaxChanges = 0
  NoUrl = NoUrl
INVARIANTS NextIsUrl
