\* Two requests of one user, two teams, one change on GitHub.
SPECIFICATION Spec
CONSTANTS
  Session = {s1}
  Team = {t1, t2}
  Repo = {p1}
  Text = {p1, x1}
  Request = {q1, q2}
  MaxChanges = 1
SYMMETRY Interchangeable
INVARIANTS TypeOK OwnTeamOnly CachesAreOwn
\* Every user may log out for good.
CHECK_DEADLOCK FALSE
