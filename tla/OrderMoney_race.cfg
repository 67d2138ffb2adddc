CONSTANTS
  Requests = {r1, r2}
  Gateways = {"fake", "wechat", "pilot-manual"}
  Total = 5
  LateFeeBps = 2000
  CommissionBps = 2000
  Amounts = {0, 2, 3, 5, 6}
  MaxDisputes = 2
  MaxCalls = 3
  MaxAborts = 1
SPECIFICATION Spec
INVARIANTS SettlementIsSound RefundsAgree OpenDisputeFreezes RulingsMatchRefunds DisputesBoundTheCost
CHECK_DEADLOCK FALSE
SYMMETRY Symmetry
