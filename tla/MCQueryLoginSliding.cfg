\* A browser that keeps using its session.
SPECIFICATION Spec
CONSTANTS
  Browser = {b1}
  Script = {}
  Nonce = {n1}
  Id = {i1}
  StateExpiry = 1
  SessionTTL = 3
  MaxTime = 7
  MaxRestarts = 0
  NoId = NoId
INVARIANTS ActiveStaysLoggedIn
