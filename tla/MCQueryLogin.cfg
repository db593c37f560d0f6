\* A browser and a script, two logins, one restart, over two session lifetimes.
SPECIFICATION Spec
CONSTANTS
  Browser = {b1, s1}
  Script = {s1}
  Nonce = {n1, n2}
  Id = {i1, i2}
  StateExpiry = 1
  SessionTTL = 3
  MaxTime = 7
  MaxRestarts = 1
  NoId = NoId
SYMMETRY Interchangeable
INVARIANTS TypeOK OneSessionPerLogin CookieHasSession EndedStaysEnded
PROPERTIES ImplementsSessions
