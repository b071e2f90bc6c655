CONSTANTS
  w1 = w1  w2 = w2  w3 = w3  v1 = v1  v2 = v2  c1 = c1  c2 = c2
  Sessions = {s1}
  Workers = {w1, w2, w3}
  Definitions = {v1, v2}
  Contracts = {c1, c2}
  Mail = {}
  Keys = {k1}
  MaxAttempts = 2
  MaxEvents = 1
  LeaseSeconds = 1
  Deadlines = {1}
  Backoffs = {1}
  MaxClaims = 5
  MaxRevision = 2
  Sending = {v1}
  Timed = {v2}
  MaxRetries = 1
  None = None
  Serves <- MCServes
  Supersedes <- MCSupersedes
  Target <- MCTarget
  Build <- MCBuild
SPECIFICATION DSpec
INVARIANTS StepsRunTheirVersion WorkersOK SpentIsFenced
PROPERTY StepsResolve
