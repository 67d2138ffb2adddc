CONSTANTS
  Accounts = {a1}
  Sessions = {s1, s2}
  Requests = {r1, r2}
  None = None
  MaxFailures = 2
  LockTicks = 1
  SessionTicks = 2
  MaxAttempts = 2
  MaxTime = 3
  MaxHashes = 3
SPECIFICATION Spec
INVARIANTS TypeOK LiveSessionsAreCurrent WorkNeedsOwnPassword ChangesBuildOnCurrent LockFollowsFailures
SYMMETRY Symmetry
