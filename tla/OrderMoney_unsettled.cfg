CONSTANTS
  Requests = {r1}
  Gateways = {"pilot-manual"}
  Total = 5
  LateFeeBps = 2000
  CommissionBps = 2000
  Amounts = {0, 2, 3, 5, 6}
  MaxDisputes = 1
  MaxCalls = 0
  MaxAborts = 0
SPECIFICATION Spec
INVARIANT CompletedIsSettled
CHECK_DEADLOCK FALSE

