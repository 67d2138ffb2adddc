CONSTANTS
  Orders = {o1}
  Providers = {p1, p2}
  Requests = {r1}
  None = None
  Suited <- AllSuited
  StartsAt <- Overlapping
  EndsAt <- OneHour
  ActiveLimit <- OneActiveOrder
  WaveSize = 1
  MaxWaves = 2
  Ttl = 1
  MaxTime = 1
  MaxAdminOps = 0
  MaxAborts = 0
SPECIFICATION Spec
PROPERTY FailsOnlyAfterRounds
