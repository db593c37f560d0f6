\* Up to four items, pages of one item, one change during the calls.
SPECIFICATION FairSpec
CONSTANTS
  Item <- MCItem
  Kept <- MCKept
  PageSize = 1
  MaxChanges = 1
  NoUrl = NoUrl
INVARIANTS TypeOK StillListIsExact AdditionsLoseNothing OnlyListedAndWanted
PROPERTIES CallsEnd
