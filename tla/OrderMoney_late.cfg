CONSTANTS
  Requests = {r1, r2}
  Gateways = {"wechat"}
  Total = 5
  LateFeeBps = 2000
  CommissionBps = 2000
  Amounts = {0}
  MaxDisputes = 1
  MaxCalls = 2
  MaxAborts = 0
SPECIFICATION Spec
PROPERTY CancelledBeforeService
CHECK_DEADLOCK FALSE
