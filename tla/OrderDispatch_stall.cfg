CONSTANTS
  Orders = {o1}
  Providers = {p1}
  Requests = {r1}
  None = None
  Suited <- AllSuited
  StartsAt <- Overlapping
  EndsAt <- OneHour
  ActiveLimit <- OneActiveOrder
  WaveSize = 1
  MaxWaves = 2
  Ttl = 1
  MaxTime = 1
  MaxAdminOps = 1
  MaxAborts = 0
SPECIFICATION ScheduledSpec
PROPERTY AnsweredOrdersMoveOn
