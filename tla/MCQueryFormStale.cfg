\* A second team is picked while the first list is loading.
SPECIFICATION Spec
CONSTANTS
  Team = {t1, t2}
  Repo = {p1, p2}
  NoTeam = NoTeam
  MaxPicks = 2
INVARIANTS ListShowsPickedTeam
\* A page whose teams did not load stays as it is.
CHECK_DEADLOCK FALSE
