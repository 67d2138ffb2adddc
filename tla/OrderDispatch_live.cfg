CONSTANTS
  Orders = {o1, o2}
  Providers = {p1, p2}
  Requests = {r1}
  None = None
  Suited <- OneShared
  StartsAt <- Overlapping
  EndsAt <- OneHour
  ActiveLimit <- OneActiveOrder
  WaveSize = 1
  MaxWaves = 2
  Ttl = 1
  MaxTime = 1
  MaxAdminOps = 1
  MaxAborts = 1
SPECIFICATION FairSpec
PROPERTY OverdueWavesAreHandled
