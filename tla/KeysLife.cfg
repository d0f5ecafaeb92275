\* Three requests to one worker, two admin requests and one start.
CONSTANTS
  r1 = r1  r2 = r2  r3 = r3   a1 = a1  a2 = a2   b1 = b1   t1 = t1
  Configured = Configured  None = None
  Req = {r1, r2, r3}
  Admin = {a1, a2}
  Boot = {b1}
  Token = {t1}
  TokenEnds <- MCTokenEnds
  Modes = {"api_key", "jwt"}
  Ttls = {1}
  Throttle = 1
  MaxTime = 2
  Limit = 1  Window = 2  MaxKeys = 1
SPECIFICATION Spec
SYMMETRY Symmetry
CHECK_DEADLOCK FALSE
INVARIANTS OnlyLiveSecrets RateBounded RetryAfterIsHonest
PROPERTIES RetiredStaysRetired
