CONSTANTS
  Requests = {r1, r2}
  Admins = {a1, a2}
  None = None
  Apps = {"web", "mini"}
  MaxPets = 1
  MaxKeys = 2
  MaxPages = 2
  MaxEdits = 2
  MaxFaults = 1
  Orders = {o1, o2}
  Calls = {c1, c2}
  FeeKeys = {f1, f2}
  NoKey = NoKey
  Gateways = {"fake", "pilot-manual"}
  TaskCalls = {t1, t2}
  Storage = "local"
  Quota = 2
  ListLimit = 2
  MaxObjects = 3
  MaxVisits = 1
  MaxReloads = 0
  MaxFailures = 1
SPECIFICATION MCSpec
INVARIANTS TypesAreKept PageIsRight FeeConfirmedOnce RestingPageIsCurrent KnowsItsPhotos
  TasksStayReadable
PROPERTIES RetryFindsTheOrder ReportGetsThrough
CHECK_DEADLOCK FALSE
