CONSTANTS
  Orders = {o1}
  Providers = {p1, p2}
  Requests = {r1, r2}
  None = None
  Suited <- AllSuited
  StartsAt <- Overlapping
  EndsAt <- OneHour
  ActiveLimit <- OneActiveOrder
  WaveSize = 1
  MaxWaves = 2
  Ttl = 1
  MaxTime = 2
  MaxAdminOps = 1
  MaxAborts = 0
SPECIFICATION Spec
INVARIANTS TypeOK AssignedByAcceptance StatusMatchesAssignment WavesInOrder AlertsAreTruthful OneWaveAtATime
PROPERTIES ResponsesAreFinal ImplementsAssignment
SYMMETRY Symmetry
