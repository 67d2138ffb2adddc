CONSTANTS
  Runners = {q1, q2, q3}
  NoRunner = NoRunner
  ReclaimsAlone = FALSE
  MaxStarts = 1
  MaxMishaps = 1
SPECIFICATION AcceptanceSpec
INVARIANT FirstRunnerIsKept
