\* Two picks among two teams, one change on GitHub.
SPECIFICATION MCSpec
CONSTANTS
  Team = {t1, t2}
  Repo = {p1, p2}
  NoTeam = NoTeam
  MaxPicks = 2
  User = User
  MaxChanges = 1
INVARIANTS EnabledMeansListed  RunIsAsShown DroppedWasNotGranted EmptyIsFresh
PROPERTIES LoadingEnds
\* The user may be logged out.
CHECK_DEADLOCK FALSE
