------------------------- MODULE OrderMoney_proofs -------------------------
(***************************************************************************)
(* OrderMoney: the rows of an order's money agree, for any price, rates,   *)
(* amounts operators enter and number of overlapping requests.             *)
(***************************************************************************)
EXTENDS OrderMoney, Sums, FiniteSetTheorems, TLAPS

Delivered == assigned /\ submitted

\* Money that went back leaves the order where no visit starts.
RefundsEndService ==
  refunds # {} => status \in {"CANCELLED", "COMPLETED", "DISPUTED", "REFUNDED", "DISPATCH_FAILED"}

\* A visit waits for, and is made by, a provider; what follows a report has one.
ReportsComeFirst ==
  /\ status \in {"PENDING_SERVICE", "IN_SERVICE"} => assigned
  /\ status \in {"PENDING_CONFIRMATION", "COMPLETED", "DISPUTED", "REFUNDED"} => Delivered
  /\ settlement.exists => Delivered
  /\ \A d \in DisputeIds : disputes[d] # "NONE" => Delivered

\* Neither assignment nor report is taken back, so requests about a dispute may
\* rely on what they found.
RequestsRelyOnReports ==
  \A r \in Requests : request[r].stage \in {"opening", "open", "resolve", "resolved"} => Delivered

\* The settlement is split to the fen and within the price.
SplitsToTheFen ==
  settlement.exists => /\ settlement.commission + settlement.provider = settlement.gross
                       /\ settlement.gross <= Total

IInv == /\ TypeOK /\ StatusShowsRefunds /\ RefundsEndService
        /\ ReportsComeFirst /\ RequestsRelyOnReports /\ SplitsToTheFen

-----------------------------------------------------------------------------
(* Arithmetic of fees.                                                     *)

\* Ten-thousandths of an amount, counted to the fen, are part of it.
LEMMA ShareIsPart ==
  ASSUME NEW gross \in Nat, NEW product \in Nat, product <= 10000 * gross
  PROVE  product \div 10000 \in 0..gross
  OBVIOUS

LEMMA SplitIsSound ==
  ASSUME NEW gross \in 0..Total
  PROVE  /\ Split(gross) \in Settlement
         /\ Split(gross).commission + Split(gross).provider = Split(gross).gross
         /\ Split(gross).gross <= Total
<1>1. Total \in Nat /\ CommissionBps \in 0..10000 /\ gross \in Nat
  BY MoneyAssumption DEF MoneyAssumption
<1> DEFINE product == gross * CommissionBps
           fee == product \div 10000
<1>0. product \in Nat /\ product <= 10000 * gross
  BY <1>1
<1> HIDE DEF product
<1>2. fee \in 0..gross
  BY <1>0, <1>1, ShareIsPart
<1> HIDE DEF fee
<1>3. gross - fee \in 0..Total /\ fee \in 0..Total /\ fee + (gross - fee) = gross
  BY <1>1, <1>2
<1>4. Split(gross) = [exists |-> TRUE, gross |-> gross, commission |-> fee,
                      provider |-> gross - fee, available |-> TRUE]
  BY DEF Split, fee, product
<1> QED
  BY <1>1, <1>3, <1>4 DEF Settlement

LEMMA CancellationAmount ==
  ASSUME NEW wasAssigned \in BOOLEAN
  PROVE  Total - LateFee(wasAssigned) \in 0..Total
<1>1. Total \in Nat /\ LateFeeBps \in 0..10000
  BY MoneyAssumption DEF MoneyAssumption
<1> DEFINE product == Total * LateFeeBps
<1>0. product \in Nat /\ product <= 10000 * Total
  BY <1>1
<1> HIDE DEF product
<1>2. product \div 10000 \in 0..Total
  BY <1>0, <1>1, ShareIsPart
<1>3. LateFee(wasAssigned) \in 0..Total
  BY <1>1, <1>2 DEF LateFee, product
<1> QED
  BY <1>1, <1>3

-----------------------------------------------------------------------------
LEMMA InitSound == Init => IInv
<1> SUFFICES ASSUME Init PROVE IInv
  OBVIOUS
<1>1. /\ Total \in Nat /\ MaxDisputes \in Nat /\ MaxCalls \in Nat /\ MaxAborts \in Nat
  BY MoneyAssumption DEF MoneyAssumption
<1>2. Idle \in Request /\ Idle.stage = "idle"
  BY <1>1 DEF Idle, Request, Stage
<1>3. NoSettlement \in Settlement /\ NoSettlement.exists = FALSE
  BY <1>1 DEF NoSettlement, Settlement
<1>4. TypeOK
  <2>1. status \in OrderStatus /\ version \in Nat /\ assigned \in BOOLEAN
    BY DEF Init, OrderStatus
  <2>2. /\ payment \in {"SUCCEEDED", "PARTIALLY_REFUNDED", "REFUNDED"}
        /\ refunds \subseteq Refund /\ settlement \in Settlement
    BY <1>3 DEF Init
  <2>3. disputes \in [DisputeIds -> DisputeStatus \cup {"NONE"}]
    BY DEF Init
  <2>4. submitted \in BOOLEAN /\ aged \in BOOLEAN /\ paidBack \in Nat
    BY DEF Init
  <2>5. calls \in 0..MaxCalls /\ aborts \in 0..MaxAborts
    BY <1>1 DEF Init
  <2>6. request \in [Requests -> Request] /\ gateway \in Gateways /\ overtaken \subseteq Handlers
    BY <1>2 DEF Init
  <2> QED
    BY <2>1, <2>2, <2>3, <2>4, <2>5, <2>6 DEF TypeOK
<1> QED
  BY <1>2, <1>3, <1>4 DEF Init, IInv, StatusShowsRefunds, RefundsEndService, ReportsComeFirst,
     RequestsRelyOnReports, SplitsToTheFen

-----------------------------------------------------------------------------
(* Slots.                                                                  *)

DisputeStages == {"opening", "open", "resolve", "resolved"}

\* History is not forgotten, and an overtaken handler enters it.
LEMMA OvertakingShows ==
  ASSUME NEW r, NEW handler \in Handlers, NEW others, Overtakes(r, handler, others),
         overtaken \subseteq Handlers
  PROVE  /\ overtaken' \subseteq Handlers /\ overtaken \subseteq overtaken'
         /\ handler \notin overtaken' => others \ {r} = {}
BY DEF Overtakes

\* A slot may be set to anything sound: what others found stays true.
LEMMA SlotStaysSound ==
  ASSUME IInv, NEW r \in Requests, NEW q \in Request, Slot(r, q),
         q.stage \in DisputeStages => Delivered', Delivered => Delivered'
  PROVE  request' \in [Requests -> Request] /\ RequestsRelyOnReports'
<1>1. request' \in [Requests -> Request]
  BY DEF Slot, IInv, TypeOK
<1>2. \A t \in Requests : request'[t] = IF t = r THEN q ELSE request[t]
  BY DEF Slot, IInv, TypeOK
<1> QED
  BY <1>1, <1>2 DEF IInv, RequestsRelyOnReports, DisputeStages

LEMMA IdleIsSound == Idle \in Request /\ Idle.stage = "idle"
<1>1. 0 \in 0..MaxDisputes /\ 0 \in 0..Total
  BY MoneyAssumption DEF MoneyAssumption
<1> QED
  BY <1>1 DEF Idle, Request, Stage

LEMMA DoneStaysSound ==
  ASSUME IInv, NEW r \in Requests, Done(r), Delivered => Delivered'
  PROVE  request' \in [Requests -> Request] /\ RequestsRelyOnReports'
BY IdleIsSound, SlotStaysSound DEF Done, DisputeStages

\* The rows did not change: only slots did.
LEMMA SlotsKeepInv ==
  ASSUME IInv, request' \in [Requests -> Request], RequestsRelyOnReports',
         UNCHANGED <<orderVars, payment, refunds, settlement, disputes, serviceVars, gateway>>,
         paidBack' \in Nat, calls' \in 0..MaxCalls, aborts' \in 0..MaxAborts,
         overtaken' = overtaken
  PROVE  IInv'
<1>1. UNCHANGED <<status, version, assigned, submitted, aged>>
  BY DEF orderVars, serviceVars
<1> QED
  BY <1>1 DEF IInv, TypeOK, StatusShowsRefunds, RefundsEndService, ReportsComeFirst,
     SplitsToTheFen, Delivered

LEMMA ArrivalKeepsInv == ASSUME IInv, NEW r \in Requests, Arrive(r) PROVE IInv'
<1>1. ASSUME NEW q \in Request, Slot(r, q), q.stage \in DisputeStages => Delivered,
             UNCHANGED <<orderVars, moneyVars, disputes, serviceVars, aborts, gateway, overtaken>>
      PROVE  IInv'
  <2>1. UNCHANGED <<Delivered, payment, refunds, settlement, paidBack, calls>>
    BY <1>1 DEF orderVars, serviceVars, moneyVars, Delivered
  <2>2. request' \in [Requests -> Request] /\ RequestsRelyOnReports'
    BY <1>1, <2>1, SlotStaysSound
  <2> QED
    BY <1>1, <2>1, <2>2, SlotsKeepInv DEF IInv, TypeOK
<1>2. version \in Nat /\ assigned \in BOOLEAN /\ settlement.exists \in BOOLEAN
  BY DEF IInv, TypeOK, Settlement
<1>3. ASSUME NEW from, NEW next \in {"checkin", "submit"}, ReadOrder(r, from, next)
      PROVE  IInv'
  <2> DEFINE q == [Idle EXCEPT !.stage = next, !.version = version]
  <2>1. q \in Request /\ q.stage = next
    BY <1>2, IdleIsSound DEF Request, Stage
  <2> QED
    BY <1>1, <1>3, <2>1 DEF ReadOrder, DisputeStages
<1>4. CASE RequestCancellation(r)
  <2> DEFINE q == [Idle EXCEPT !.stage = "cancel", !.assigned = assigned]
  <2>1. q \in Request /\ q.stage = "cancel"
    BY <1>2, IdleIsSound DEF Request, Stage
  <2> QED
    BY <1>1, <1>4, <2>1 DEF RequestCancellation, DisputeStages
<1>5. CASE RequestDispute(r)
  <2> DEFINE q == [Idle EXCEPT !.stage = "opening"]
  <2>1. q \in Request
    BY IdleIsSound DEF Request, Stage
  <2>2. Delivered
    BY <1>5 DEF RequestDispute, MayDispute, IInv, ReportsComeFirst
  <2> QED
    BY <1>1, <1>5, <2>1, <2>2 DEF RequestDispute
<1>6. ASSUME NEW d \in DisputeIds, NEW amount \in Amounts, RequestResolution(r, d, amount)
      PROVE  IInv'
  <2> DEFINE q == [Idle EXCEPT !.stage = IF amount > 0 THEN "resolve" ELSE "resolved",
                               !.dispute = d, !.amount = amount, !.settled = settlement.exists]
  <2>1. amount \in 0..Total /\ d \in 0..MaxDisputes
    BY <1>6, MoneyAssumption DEF RequestResolution, ValidAmount, MoneyAssumption, DisputeIds
  <2>2. q \in Request
    BY <1>2, <2>1, IdleIsSound DEF Request, Stage
  <2>3. Delivered
    BY <1>6 DEF RequestResolution, Undecided, IInv, ReportsComeFirst
  <2>4. Slot(r, q)
    BY <1>6 DEF RequestResolution
  <2> QED
    BY <1>1, <1>6, <2>2, <2>3, <2>4 DEF RequestResolution
<1> QED
  BY <1>3, <1>4, <1>5, <1>6 DEF Arrive, RequestCheckIn, RequestSubmit

LEMMA GatewayKeepsInv ==
  ASSUME IInv, NEW r \in Requests,
         RefundCancellation(r) \/ RefundDispute(r) \/ FindOpenDispute(r) \/ Abort(r)
  PROVE  IInv'
<1>1. request[r] \in Request
  BY DEF IInv, TypeOK
<1>2. ASSUME NEW amount \in 0..Total, NEW next \in {"cancelled", "resolved"},
             next = "resolved" => Delivered, CallGateway(r, amount, next),
             UNCHANGED <<orderVars, payment, refunds, settlement, disputes, serviceVars,
                         aborts, gateway, overtaken>>
      PROVE  IInv'
  <2>1. UNCHANGED Delivered
    BY <1>2 DEF orderVars, serviceVars, Delivered
  <2>2. amount \in Nat /\ calls + 1 \in Nat
    BY <1>2, MoneyAssumption DEF MoneyAssumption, IInv, TypeOK
  <2> DEFINE q == [request[r] EXCEPT !.stage = next, !.amount = amount,
                                     !.refundId = NewRefundId(amount)]
  <2>3. q \in Request /\ q.stage = next
    BY <1>1, <2>2 DEF Request, Stage, NewRefundId
  <2>4. Done(r) \/ Slot(r, q)
    BY <1>2 DEF CallGateway
  <2>5. request' \in [Requests -> Request] /\ RequestsRelyOnReports'
    BY <1>2, <2>1, <2>3, <2>4, DoneStaysSound, SlotStaysSound DEF DisputeStages
  <2>6. paidBack' \in Nat /\ calls' \in 0..MaxCalls
    BY <1>2, <2>2, MoneyAssumption DEF CallGateway, MoneyAssumption, IInv, TypeOK
  <2> QED
    BY <1>2, <2>5, <2>6, SlotsKeepInv DEF IInv, TypeOK
<1>3. CASE RefundCancellation(r)
  BY <1>1, <1>2, <1>3, CancellationAmount DEF RefundCancellation, Request
<1>4. CASE RefundDispute(r)
  BY <1>1, <1>2, <1>4 DEF RefundDispute, Request, IInv, RequestsRelyOnReports, At
<1>5. CASE FindOpenDispute(r)
  <2> DEFINE q == [request[r] EXCEPT !.stage = "open"]
  <2>1. q \in Request /\ Delivered
    BY <1>1, <1>5 DEF FindOpenDispute, At, Request, Stage, IInv, RequestsRelyOnReports
  <2>2. UNCHANGED <<Delivered, payment, refunds, settlement, paidBack, calls>>
    BY <1>5 DEF FindOpenDispute, orderVars, serviceVars, moneyVars, Delivered
  <2>3. request' \in [Requests -> Request] /\ RequestsRelyOnReports'
    BY <1>5, <2>1, <2>2, DoneStaysSound, SlotStaysSound DEF FindOpenDispute
  <2> QED
    BY <1>5, <2>2, <2>3, SlotsKeepInv DEF FindOpenDispute, IInv, TypeOK
<1>6. CASE Abort(r)
  <2>1. UNCHANGED <<Delivered, payment, refunds, settlement, paidBack, calls>>
    BY <1>6 DEF Abort, orderVars, serviceVars, moneyVars, Delivered
  <2>2. request' \in [Requests -> Request] /\ RequestsRelyOnReports'
    BY <1>6, <2>1, DoneStaysSound DEF Abort
  <2>3. aborts' \in 0..MaxAborts
    BY <1>6, MoneyAssumption DEF Abort, MoneyAssumption, IInv, TypeOK
  <2> QED
    BY <1>6, <2>1, <2>2, <2>3, SlotsKeepInv DEF Abort, IInv, TypeOK
<1> QED
  BY <1>3, <1>4, <1>5, <1>6

-----------------------------------------------------------------------------
(* Writes of the rows.                                                     *)

\* What every write leaves sound; the rest is for the writes themselves.
RowsFollow ==
  /\ StatusShowsRefunds' /\ RefundsEndService' /\ ReportsComeFirst' /\ SplitsToTheFen'
  /\ Delivered => Delivered'

\* The order moves on, or a report is submitted, and no money is touched.
LEMMA OrderMovesKeepInv ==
  ASSUME IInv,
         \/ \E r \in Requests : CheckIn(r) \/ SubmitReport(r)
         \/ Assign \/ FailDispatch \/ Age \/ ConfirmByOwner \/ AutoConfirm
  PROVE  IInv'
<1>1. ASSUME status' \in OrderStatus, version' \in Nat, assigned' \in BOOLEAN, RowsFollow,
             submitted' \in BOOLEAN, aged' \in BOOLEAN, settlement' \in Settlement,
             UNCHANGED request \/ \E r \in Requests : Done(r), overtaken' \subseteq Handlers,
             UNCHANGED <<payment, refunds, paidBack, calls, disputes, aborts, gateway>>
      PROVE  IInv'
  <2>1. request' \in [Requests -> Request] /\ RequestsRelyOnReports'
    BY <1>1, DoneStaysSound DEF RowsFollow, IInv, TypeOK, RequestsRelyOnReports
  <2> QED
    BY <1>1, <2>1 DEF RowsFollow, IInv, TypeOK
<1> USE DEF IInv, TypeOK, OrderStatus, MoveTo, orderVars, serviceVars, moneyVars
<1>2. ASSUME NEW r \in Requests, CheckIn(r) PROVE IInv'
  <2>1. RowsFollow
    BY <1>2 DEF CheckIn, Matches, RowsFollow, StatusShowsRefunds, RefundsEndService,
       ReportsComeFirst, SplitsToTheFen, Delivered
  <2>2. overtaken' \subseteq Handlers
    BY <1>2, OvertakingShows DEF CheckIn, Handlers
  <2> QED
    BY <1>1, <1>2, <2>1, <2>2 DEF CheckIn
<1>3. ASSUME NEW r \in Requests, SubmitReport(r) PROVE IInv'
  <2>1. UNCHANGED <<assigned, payment, refunds, settlement, disputes>>
    BY <1>3 DEF SubmitReport
  <2>2. \/ status = "IN_SERVICE" /\ status' = "PENDING_CONFIRMATION" /\ submitted' = TRUE
        \/ UNCHANGED <<status, submitted>>
    BY <1>3 DEF SubmitReport, Matches
  <2>3. submitted' = TRUE \/ submitted' = submitted
    BY <2>2
  <2>4. submitted' \in BOOLEAN
    BY <2>3, Zenon
  <2>5. StatusShowsRefunds' /\ RefundsEndService' /\ SplitsToTheFen'
    BY <2>1, <2>2 DEF StatusShowsRefunds, RefundsEndService, SplitsToTheFen
  <2>6. ReportsComeFirst' /\ (Delivered => Delivered')
    BY <2>1, <2>2, <2>3 DEF ReportsComeFirst, Delivered
  <2>7. RowsFollow
    BY <2>5, <2>6 DEF RowsFollow
  <2> QED
    BY <1>1, <1>3, <2>4, <2>7 DEF SubmitReport
<1>4. CASE Assign
  <2>1. RowsFollow
    BY <1>4 DEF Assign, RowsFollow, StatusShowsRefunds, RefundsEndService,
       ReportsComeFirst, SplitsToTheFen, Delivered
  <2> QED
    BY <1>1, <1>4, <2>1 DEF Assign
<1>5. CASE FailDispatch
  <2>1. RowsFollow
    BY <1>5 DEF FailDispatch, RowsFollow, StatusShowsRefunds, RefundsEndService,
       ReportsComeFirst, SplitsToTheFen, Delivered
  <2> QED
    BY <1>1, <1>5, <2>1 DEF FailDispatch
<1>6. CASE Age
  <2>1. RowsFollow
    BY <1>6 DEF Age, RowsFollow, StatusShowsRefunds, RefundsEndService,
       ReportsComeFirst, SplitsToTheFen, Delivered
  <2> QED
    BY <1>1, <1>6, <2>1 DEF Age
<1>7. CASE Confirm
  <2>1. Total \in 0..Total
    BY MoneyAssumption DEF MoneyAssumption
  <2>2. settlement' \in Settlement /\ SplitsToTheFen'
    BY <1>7, <2>1, SplitIsSound DEF Confirm, SplitsToTheFen
  <2>3. RowsFollow
    BY <1>7, <2>2 DEF Confirm, MayConfirm, RowsFollow, StatusShowsRefunds, RefundsEndService,
       ReportsComeFirst, Delivered
  <2> QED
    BY <1>1, <1>7, <2>2, <2>3 DEF Confirm
<1> QED
  BY <1>2, <1>3, <1>4, <1>5, <1>6, <1>7 DEF ConfirmByOwner, AutoConfirm

\* What a cancellation and a ruling record.
LEMMA RefundIsRecorded ==
  ASSUME IInv, NEW id \in Nat, NEW kind \in {"CANCELLATION", "DISPUTE"}, NEW amount \in 0..Total,
         AddRefund(id, kind, amount), payment' = PaymentAfter(amount)
  PROVE  /\ refunds' \subseteq Refund /\ payment' \in {"PARTIALLY_REFUNDED", "REFUNDED"}
         /\ refunds \subseteq refunds' /\ refunds' # {}
         /\ payment' = "REFUNDED" => \E x \in refunds' : x.amount = Total
         /\ \E x \in refunds' : x.kind = kind /\ x.amount = amount
<1> DEFINE row == [id |-> id, kind |-> kind, amount |-> amount]
<1>1. row \in Refund /\ row.kind = kind /\ row.amount = amount
  BY DEF Refund
<1>2. refunds' = refunds \cup {row}
  BY DEF AddRefund
<1>3. refunds' \subseteq Refund
  BY <1>1, <1>2 DEF IInv, TypeOK
<1> QED
  BY <1>1, <1>2, <1>3 DEF PaymentAfter

LEMMA CancellationKeepsInv ==
  ASSUME IInv, NEW r \in Requests, CommitCancellation(r)
  PROVE  IInv'
<1> DEFINE q == request[r]
<1>1. q \in Request
  BY DEF IInv, TypeOK
<1>2. request' \in [Requests -> Request] /\ RequestsRelyOnReports'
  BY DoneStaysSound DEF CommitCancellation, serviceVars, Delivered
<1>3. CASE Duplicate(q.refundId)
  <2>1. UNCHANGED <<orderVars, payment, refunds, overtaken>>
    BY <1>3 DEF CommitCancellation, orderVars
  <2> QED
    BY <1>2, <2>1, SlotsKeepInv DEF CommitCancellation, IInv, TypeOK
<1>4. CASE ~Duplicate(q.refundId)
  <2>1. q.refundId \in Nat /\ q.amount \in 0..Total
    BY <1>1 DEF Request
  <2>2. /\ AddRefund(q.refundId, "CANCELLATION", q.amount) /\ payment' = PaymentAfter(q.amount)
        /\ status' = "CANCELLED" /\ version' = version + 1
    BY <1>4 DEF CommitCancellation, MoveTo
  <2>3. /\ refunds' \subseteq Refund /\ payment' \in {"PARTIALLY_REFUNDED", "REFUNDED"}
        /\ refunds' # {} /\ (payment' = "REFUNDED" => \E x \in refunds' : x.amount = Total)
    BY <2>1, <2>2, RefundIsRecorded
  <2>4. UNCHANGED <<assigned, submitted, aged, settlement, paidBack, calls, disputes, aborts, gateway>>
    BY DEF CommitCancellation, serviceVars
  <2>5. TypeOK'
    <3>1. overtaken' \subseteq Handlers
      BY <1>4, OvertakingShows DEF CommitCancellation, Handlers, IInv, TypeOK
    <3> QED
      BY <1>2, <2>2, <2>3, <2>4, <3>1 DEF IInv, TypeOK, OrderStatus
  <2>6. StatusShowsRefunds' /\ RefundsEndService' /\ SplitsToTheFen' /\ ReportsComeFirst'
    BY <2>2, <2>3, <2>4 DEF IInv, StatusShowsRefunds, RefundsEndService, SplitsToTheFen,
       ReportsComeFirst, Delivered
  <2> QED
    BY <1>2, <2>5, <2>6 DEF IInv
<1> QED
  BY <1>3, <1>4

LEMMA OpeningKeepsInv ==
  ASSUME IInv, NEW r \in Requests, OpenDispute(r)
  PROVE  IInv'
<1>1. Delivered
  BY DEF OpenDispute, At, IInv, RequestsRelyOnReports
<1>2. UNCHANGED <<assigned, submitted, aged, payment, refunds, paidBack, calls, aborts, gateway>>
  BY DEF OpenDispute, serviceVars
<1>3. request' \in [Requests -> Request] /\ RequestsRelyOnReports'
  BY <1>2, DoneStaysSound DEF OpenDispute, Delivered
<1>4. /\ settlement' \in Settlement /\ settlement'.exists = settlement.exists
      /\ settlement'.commission = settlement.commission
      /\ settlement'.provider = settlement.provider /\ settlement'.gross = settlement.gross
  BY DEF OpenDispute, Freeze, Settlement, IInv, TypeOK
<1>5. /\ disputes' \in [DisputeIds -> DisputeStatus \cup {"NONE"}]
      /\ status' = "DISPUTED" /\ version' = version + 1
  BY DEF OpenDispute, MoveTo, DisputeStatus, IInv, TypeOK
<1>6. TypeOK'
  <2>1. overtaken' \subseteq Handlers
    BY OvertakingShows DEF OpenDispute, Handlers, IInv, TypeOK
  <2> QED
    BY <1>2, <1>3, <1>4, <1>5, <2>1 DEF IInv, TypeOK, OrderStatus
<1>7. StatusShowsRefunds' /\ RefundsEndService' /\ SplitsToTheFen' /\ ReportsComeFirst'
  BY <1>1, <1>2, <1>4, <1>5 DEF IInv, StatusShowsRefunds, RefundsEndService, SplitsToTheFen,
     ReportsComeFirst, Delivered
<1> QED
  BY <1>3, <1>6, <1>7 DEF IInv

LEMMA ResolutionKeepsInv ==
  ASSUME IInv, NEW r \in Requests, CommitResolution(r)
  PROVE  IInv'
<1> DEFINE q == request[r]
<1>1. q \in Request /\ Delivered
  BY DEF CommitResolution, At, IInv, TypeOK, RequestsRelyOnReports
<1>2. UNCHANGED <<assigned, submitted, aged, paidBack, calls, aborts, gateway>>
  BY DEF CommitResolution, serviceVars
<1>3. request' \in [Requests -> Request] /\ RequestsRelyOnReports'
  BY <1>2, DoneStaysSound DEF CommitResolution, Delivered
<1>4. CASE UNCHANGED <<status, version, payment, refunds, settlement, disputes, overtaken>>
  BY <1>2, <1>3, <1>4, SlotsKeepInv DEF orderVars, serviceVars, IInv, TypeOK
<1>5. CASE /\ RecordRefund(q)
           /\ settlement' = IF Resettle(q) THEN Split(Remainder(q)) ELSE settlement
           /\ disputes' = [disputes EXCEPT ![q.dispute] = Outcome(q.amount)]
           /\ MoveTo(StatusAfter(q))
           /\ Overtakes(r, "ruling", Ruling(q.dispute))
  <2>1. q.refundId \in Nat /\ q.amount \in 0..Total /\ Total \in Nat \ {0}
    BY <1>1, MoneyAssumption DEF Request, MoneyAssumption
  <2>2. Remainder(q) \in 0..Total
    BY <2>1 DEF Remainder
  <2>3. settlement' \in Settlement /\ SplitsToTheFen'
    BY <1>5, <2>2, SplitIsSound DEF IInv, TypeOK, SplitsToTheFen
  <2>4. Outcome(q.amount) \in DisputeStatus
    BY DEF Outcome, DisputeStatus
  <2>5. disputes' \in [DisputeIds -> DisputeStatus \cup {"NONE"}]
    BY <1>5, <2>4 DEF IInv, TypeOK
  <2>6. /\ status' \in {"COMPLETED", "REFUNDED"} /\ version' = version + 1
        /\ status' = "REFUNDED" => q.amount = Total
    BY <1>5, <2>1 DEF MoveTo, StatusAfter, Outcome
  <2>7. /\ payment' \in {"SUCCEEDED", "PARTIALLY_REFUNDED", "REFUNDED"}
        /\ refunds' \subseteq Refund /\ StatusShowsRefunds'
    <3>1. CASE q.amount = 0 /\ UNCHANGED <<payment, refunds>>
      BY <2>1, <2>6, <3>1 DEF IInv, TypeOK, StatusShowsRefunds
    <3>2. CASE AddRefund(q.refundId, "DISPUTE", q.amount) /\ payment' = PaymentAfter(q.amount)
      <4>1. /\ refunds' \subseteq Refund /\ payment' \in {"PARTIALLY_REFUNDED", "REFUNDED"}
            /\ refunds' # {} /\ (payment' = "REFUNDED" => \E x \in refunds' : x.amount = Total)
            /\ \E x \in refunds' : x.kind = "DISPUTE" /\ x.amount = q.amount
        BY <2>1, <3>2, RefundIsRecorded
      <4> QED
        BY <2>6, <4>1 DEF StatusShowsRefunds
    <3> QED
      BY <1>5, <3>1, <3>2 DEF RecordRefund
  <2>8. TypeOK'
    <3>1. overtaken' \subseteq Handlers
      BY <1>5, OvertakingShows DEF Handlers, IInv, TypeOK
    <3> QED
      BY <1>2, <1>3, <2>3, <2>5, <2>6, <2>7, <3>1 DEF IInv, TypeOK, OrderStatus
  <2>9. RefundsEndService' /\ ReportsComeFirst'
    BY <1>1, <1>2, <2>6 DEF RefundsEndService, ReportsComeFirst, Delivered
  <2> QED
    BY <1>3, <2>3, <2>7, <2>8, <2>9 DEF IInv
<1> QED
  BY <1>4, <1>5 DEF CommitResolution

LEMMA InvIsInductive == IInv /\ [Next]_vars => IInv'
<1> SUFFICES ASSUME IInv, [Next]_vars PROVE IInv'
  OBVIOUS
<1>1. CASE UNCHANGED vars
  BY <1>1 DEF vars, orderVars, moneyVars, serviceVars, IInv, TypeOK, StatusShowsRefunds,
     RefundsEndService, ReportsComeFirst, RequestsRelyOnReports, SplitsToTheFen, Delivered
<1>2. ASSUME NEW r \in Requests, Proceed(r) PROVE IInv'
  BY <1>2, OrderMovesKeepInv, GatewayKeepsInv, CancellationKeepsInv, OpeningKeepsInv,
     ResolutionKeepsInv DEF Proceed
<1>3. ASSUME NEW r \in Requests, Arrive(r) \/ Abort(r) PROVE IInv'
  BY <1>3, ArrivalKeepsInv, GatewayKeepsInv
<1>4. CASE Assign \/ FailDispatch \/ ConfirmByOwner \/ AutoConfirm \/ Age
  BY <1>4, OrderMovesKeepInv
<1> QED
  BY <1>1, <1>2, <1>3, <1>4 DEF Next

-----------------------------------------------------------------------------
\* The rows of an order, its money and its disputes keep their types.
THEOREM MoneyTypes == Spec => []TypeOK
<1>1. IInv => TypeOK
  BY DEF IInv
<1> QED
  BY <1>1, InitSound, InvIsInductive, PTL DEF Spec

\* Only a service that was assigned and reported is completed, disputed, paid
\* back after a dispute or settled, and a settlement is split to the fen within
\* the price (confirm, resolveDispute, calculateSettlement).
THEOREM SettlementStaysSound == Spec => []SettlementIsSound
<1>1. IInv => SettlementIsSound
  BY DEF IInv, ReportsComeFirst, SplitsToTheFen, SettlementIsSound, Delivered
<1> QED
  BY <1>1, InitSound, InvIsInductive, PTL DEF Spec

\* The payment and the order show the refunds there are, and no visit starts or
\* is reported after one: RefundsAgree without its sum.
THEOREM RefundsStayVisible == Spec => []StatusShowsRefunds
<1>1. IInv => StatusShowsRefunds
  BY DEF IInv
<1> QED
  BY <1>1, InitSound, InvIsInductive, PTL DEF Spec

-----------------------------------------------------------------------------
(* Sums of refunds: what was recorded, and what requests that asked the    *)
(* gateway have yet to record, was paid back.                              *)

Fen == [x \in Refund |-> x.amount]
Due(q) == IF q.stage \in {"cancelled", "resolved"} THEN q.amount ELSE 0
Owing == {r \in Requests : request[r].stage \in {"cancelled", "resolved"}}
Debt == [r \in Requests |-> request[r].amount]
Recorded == TotalOf(Fen, refunds)
Owed == TotalOf(Debt, Owing)

PaidBeforeRecorded ==
  IsFiniteSet(refunds) /\ IsFiniteSet(Owing) /\ Recorded + Owed <= paidBack

\* The sum of the model is that of the rows' amounts.
LEMMA RefundedIsRecorded ==
  ASSUME refunds \subseteq Refund, IsFiniteSet(refunds)
  PROVE  Refunded = Recorded
<1> DEFINE A(f) == f = [s \in SUBSET refunds |->
                    IF s = {} THEN 0
                    ELSE (CHOOSE x \in s : TRUE).amount + f[s \ {CHOOSE x \in s : TRUE}]]
<1>1. PICK f : f = CHOOSE fn : A(fn)
  OBVIOUS
<1>2. Refunded = f[refunds]
  BY <1>1 DEF Refunded, MapThenSumSet, MapThenFoldSet
<1>3. ASSUME NEW g PROVE A(g) <=> Totals(Fen, g, refunds)
  <2> DEFINE G(s) == IF s = {} THEN 0 ELSE Chosen(s).amount + g[s \ {Chosen(s)}]
             H(s) == IF s = {} THEN 0 ELSE Fen[Chosen(s)] + g[s \ {Chosen(s)}]
  <2>1. \A s \in SUBSET refunds : G(s) = H(s)
    BY ChosenIsIn DEF Fen
  <2> HIDE DEF G, H
  <2>2. [s \in SUBSET refunds |-> G(s)] = [s \in SUBSET refunds |-> H(s)]
    BY <2>1
  <2> QED
    BY <2>2 DEF Totals, G, H, Chosen
<1>4. PICK e : e = CHOOSE fn : Totals(Fen, fn, refunds)
  OBVIOUS
<1>5. Totals(Fen, e, refunds) /\ Recorded = e[refunds]
  BY <1>4, TotalsExist DEF Recorded, TotalOf
<1>6. A(f)
  <2> HIDE DEF A
  <2> QED
    BY <1>1, <1>3, <1>5
<1>7. f[refunds] = e[refunds]
  <2> HIDE DEF A
  <2> QED
    BY <1>3, <1>5, <1>6, TotalsAgree
<1> QED
  BY <1>2, <1>5, <1>7

\* Setting a slot changes what is owed by what that slot owes.
LEMMA SlotSettles ==
  ASSUME IInv, IsFiniteSet(Owing), NEW r \in Requests, NEW q \in Request, Slot(r, q)
  PROVE  /\ IsFiniteSet(Owing') /\ Owed \in Int /\ Owed' = Owed - Due(request[r]) + Due(q)
         /\ Due(request[r]) \in Nat /\ Due(q) \in Nat
<1>1. \A t \in Requests : request'[t] = IF t = r THEN q ELSE request[t]
  BY DEF Slot, IInv, TypeOK
<1>2. \A t \in Requests : request[t] \in Request /\ Debt[t] = request[t].amount
  BY DEF IInv, TypeOK, Debt
<1>3. \A t \in Requests : request'[t] \in Request /\ Debt'[t] = request'[t].amount
  BY <1>1, <1>2 DEF Debt
<1>4. PICK D : D = Debt
  OBVIOUS
<1>5. PICK E : E = Debt'
  OBVIOUS
<1>6. /\ \A t \in Requests : D[t] = request[t].amount /\ D[t] \in Nat
      /\ \A t \in Requests : E[t] = request'[t].amount /\ E[t] \in Nat
  <2>1. \A x \in Request : x.amount \in Nat
    BY MoneyAssumption DEF Request, MoneyAssumption
  <2> QED
    BY <2>1, <1>2, <1>3, <1>4, <1>5
<1>7. PICK w : w = Owing \ {r}
  OBVIOUS
<1>8. IsFiniteSet(w) /\ r \notin w /\ w \subseteq Requests
  BY <1>7, FS_Subset DEF Owing
<1>9. \A t \in w : E[t] = D[t]
  BY <1>1, <1>6, <1>8
<1>10. TotalOf(E, w) = TotalOf(D, w) /\ TotalOf(D, w) \in Int
  <2>1. TotalOf(E, w) = TotalOf(D, w)
    BY <1>8, <1>9, TotalsOfEquals
  <2>2. TotalOf(D, w) \in Int
    BY <1>6, <1>8, TotalIsInt
  <2> QED
    BY <2>1, <2>2
<1>11. Owed = TotalOf(D, w) + Due(request[r]) /\ Due(request[r]) \in Nat
  <2>1. PICK W : W = Owing
    OBVIOUS
  <2>2. CASE r \in Owing
    <3>1. W = w \cup {r}
      BY <2>1, <2>2, <1>7
    <3>2. TotalOf(D, w \cup {r}) = TotalOf(D, w) + D[r]
      BY <1>6, <1>8, TotalAdds
    <3>3. Due(request[r]) = D[r]
      BY <2>2, <1>6 DEF Owing, Due
    <3>4. Owed = TotalOf(D, w \cup {r})
      BY <2>1, <3>1, <1>4, Zenon DEF Owed
    <3> QED
      BY <3>2, <3>3, <3>4, <1>6
  <2>3. CASE r \notin Owing
    <3>1. W = w
      BY <2>1, <2>3, <1>7
    <3>2. Due(request[r]) = 0
      BY <2>3 DEF Owing, Due
    <3>3. Owed = TotalOf(D, w)
      BY <2>1, <3>1, <1>4, Zenon DEF Owed
    <3> QED
      BY <3>2, <3>3, <1>10
  <2> QED
    BY <2>2, <2>3
<1>12. Owed' = TotalOf(E, w) + Due(q) /\ Due(q) \in Nat /\ IsFiniteSet(Owing')
  <2>1. PICK W : W = Owing'
    OBVIOUS
  <2>2. \A t \in Requests : t \in W <=> request'[t].stage \in {"cancelled", "resolved"}
    BY <2>1 DEF Owing
  <2>3. W \subseteq Requests
    BY <2>1 DEF Owing
  <2>4. \A t \in Requests \ {r} : t \in W <=> t \in w
    BY <2>2, <1>1, <1>7 DEF Owing
  <2>5. CASE r \in W
    <3>1. W = w \cup {r}
      BY <2>3, <2>4, <2>5, <1>8
    <3>2. TotalOf(E, w \cup {r}) = TotalOf(E, w) + E[r]
      BY <1>6, <1>8, TotalAdds
    <3>3. Due(q) = E[r]
      BY <2>2, <2>5, <1>1, <1>6 DEF Due
    <3>4. Owed' = TotalOf(E, w \cup {r})
      BY <2>1, <3>1, <1>5, Zenon DEF Owed
    <3>5. IsFiniteSet(w \cup {r})
      BY <1>8, FS_AddElement
    <3> QED
      BY <2>1, <3>1, <3>2, <3>3, <3>4, <3>5, <1>6
  <2>6. CASE r \notin W
    <3>1. W = w
      BY <2>3, <2>4, <2>6, <1>8
    <3>2. Due(q) = 0
      BY <2>2, <2>6, <1>1 DEF Due
    <3>3. Owed' = TotalOf(E, w)
      BY <2>1, <3>1, <1>5, Zenon DEF Owed
    <3> QED
      BY <2>1, <3>1, <3>2, <3>3, <1>8, <1>10
  <2> QED
    BY <2>5, <2>6
<1> QED
  BY <1>10, <1>11, <1>12

LEMMA RecordedIsNat ==
  ASSUME IInv, IsFiniteSet(refunds)
  PROVE  Recorded \in Nat
<1>1. \A x \in refunds : Fen[x] \in Nat
  BY MoneyAssumption DEF MoneyAssumption, IInv, TypeOK, Fen, Refund
<1> QED
  BY <1>1, TotalIsNat DEF Recorded

\* A row more is its amount more.
LEMMA RowAdds ==
  ASSUME IInv, IsFiniteSet(refunds), NEW id \in Nat, NEW kind \in {"CANCELLATION", "DISPUTE"},
         NEW amount \in 0..Total, AddRefund(id, kind, amount), ~Duplicate(id)
  PROVE  IsFiniteSet(refunds') /\ Recorded' = Recorded + amount
<1> DEFINE row == [id |-> id, kind |-> kind, amount |-> amount]
<1>1. row \in Refund /\ row \notin refunds /\ refunds' = refunds \cup {row}
  BY DEF Refund, AddRefund, Duplicate
<1>2. \A x \in Refund : Fen[x] = x.amount /\ Fen[x] \in Int
  BY MoneyAssumption DEF MoneyAssumption, Fen, Refund
<1>3. PICK F : F = Fen
  OBVIOUS
<1>4. Fen' = Fen
  BY DEF Fen, Refund
<1>5. TotalOf(F, refunds \cup {row}) = TotalOf(F, refunds) + amount
  <2>1. F[row] = amount /\ F[row] \in Int /\ \A x \in refunds : F[x] \in Int
    BY <1>1, <1>2, <1>3 DEF IInv, TypeOK
  <2> QED
    BY <2>1, <1>1, TotalAdds
<1>6. IsFiniteSet(refunds \cup {row})
  BY FS_AddElement
<1> QED
  BY <1>1, <1>3, <1>4, <1>5, <1>6, Zenon DEF Recorded

\* A slot owes no more than it did, or than was paid back with it.
LEMMA SlotPays ==
  ASSUME IInv, PaidBeforeRecorded, NEW r \in Requests, NEW q \in Request, Slot(r, q),
         refunds' = refunds, paidBack' \in Nat,
         Due(q) <= Due(request[r]) + (paidBack' - paidBack)
  PROVE  PaidBeforeRecorded'
<1>1. /\ IsFiniteSet(Owing') /\ Owed \in Int /\ Owed' = Owed - Due(request[r]) + Due(q)
      /\ Due(request[r]) \in Nat /\ Due(q) \in Nat
  BY SlotSettles DEF PaidBeforeRecorded
<1>2. Recorded \in Nat /\ paidBack \in Nat /\ Recorded + Owed <= paidBack
  BY RecordedIsNat DEF PaidBeforeRecorded, IInv, TypeOK
<1>3. Recorded' = Recorded
  BY DEF Recorded, Fen, Refund
<1>4. Recorded + (Owed - Due(request[r]) + Due(q)) <= paidBack'
  BY <1>1, <1>2
<1> QED
  BY <1>1, <1>3, <1>4 DEF PaidBeforeRecorded

\* A slot that ends owes nothing.
LEMMA DonePays ==
  ASSUME IInv, PaidBeforeRecorded, NEW r \in Requests, Done(r),
         refunds' = refunds, paidBack' = paidBack
  PROVE  PaidBeforeRecorded'
<1>1. Due(Idle) = 0 /\ Idle \in Request /\ paidBack \in Nat
  BY IdleIsSound DEF Due, IInv, TypeOK
<1>2. Due(request[r]) \in Nat
  BY <1>1, SlotSettles DEF Done, PaidBeforeRecorded
<1> QED
  BY <1>1, <1>2, SlotPays DEF Done

\* Nor does one that goes on to a stage without a refund.
LEMMA GoingOnPays ==
  ASSUME IInv, PaidBeforeRecorded, NEW r \in Requests, NEW q \in Request, Slot(r, q),
         q.stage \notin {"cancelled", "resolved"} \/ q.amount = 0,
         refunds' = refunds, paidBack' = paidBack
  PROVE  PaidBeforeRecorded'
<1>1. Due(q) = 0 /\ paidBack \in Nat
  BY DEF Due, IInv, TypeOK
<1>2. Due(request[r]) \in Nat
  BY <1>1, SlotSettles DEF PaidBeforeRecorded
<1> QED
  BY <1>1, <1>2, SlotPays

LEMMA ArrivalPays ==
  ASSUME IInv, PaidBeforeRecorded, NEW r \in Requests, Arrive(r)
  PROVE  PaidBeforeRecorded'
<1>1. refunds' = refunds /\ paidBack' = paidBack
  BY DEF Arrive, RequestCheckIn, RequestSubmit, ReadOrder, RequestCancellation, RequestDispute,
     RequestResolution, moneyVars
<1>2. version \in Nat /\ assigned \in BOOLEAN /\ settlement.exists \in BOOLEAN
  BY DEF IInv, TypeOK, Settlement
<1>3. ASSUME NEW from, NEW next \in {"checkin", "submit"}, ReadOrder(r, from, next)
      PROVE  PaidBeforeRecorded'
  <2> DEFINE q == [Idle EXCEPT !.stage = next, !.version = version]
  <2>1. q \in Request /\ q.stage = next
    BY <1>2, IdleIsSound DEF Request, Stage
  <2> QED
    BY <1>1, <1>3, <2>1, GoingOnPays DEF ReadOrder
<1>4. CASE RequestCancellation(r)
  <2> DEFINE q == [Idle EXCEPT !.stage = "cancel", !.assigned = assigned]
  <2>1. q \in Request /\ q.stage = "cancel"
    BY <1>2, IdleIsSound DEF Request, Stage
  <2> QED
    BY <1>1, <1>4, <2>1, GoingOnPays DEF RequestCancellation
<1>5. CASE RequestDispute(r)
  <2> DEFINE q == [Idle EXCEPT !.stage = "opening"]
  <2>1. q \in Request /\ q.stage = "opening"
    BY IdleIsSound DEF Request, Stage
  <2> QED
    BY <1>1, <1>5, <2>1, GoingOnPays DEF RequestDispute
<1>6. ASSUME NEW d \in DisputeIds, NEW amount \in Amounts, RequestResolution(r, d, amount)
      PROVE  PaidBeforeRecorded'
  <2> DEFINE q == [Idle EXCEPT !.stage = IF amount > 0 THEN "resolve" ELSE "resolved",
                               !.dispute = d, !.amount = amount, !.settled = settlement.exists]
  <2>1. amount \in 0..Total /\ amount \in Nat /\ d \in 0..MaxDisputes
    BY <1>6, MoneyAssumption DEF RequestResolution, ValidAmount, MoneyAssumption, DisputeIds
  <2>2. q \in Request
    BY <1>2, <2>1, IdleIsSound DEF Request, Stage
  <2>3. q.stage = "resolve" \/ q.amount = 0
    BY <2>1 DEF Idle
  <2>4. Slot(r, q)
    BY <1>6 DEF RequestResolution
  <2> QED
    BY <1>1, <2>2, <2>3, <2>4, GoingOnPays
<1> QED
  BY <1>3, <1>4, <1>5, <1>6 DEF Arrive, RequestCheckIn, RequestSubmit

LEMMA GatewayPays ==
  ASSUME IInv, PaidBeforeRecorded, NEW r \in Requests,
         RefundCancellation(r) \/ RefundDispute(r) \/ FindOpenDispute(r) \/ Abort(r)
  PROVE  PaidBeforeRecorded'
<1>1. request[r] \in Request /\ calls \in Nat /\ paidBack \in Nat
  BY MoneyAssumption DEF MoneyAssumption, IInv, TypeOK
<1>2. ASSUME NEW amount \in 0..Total, NEW next \in {"cancelled", "resolved"},
             ~At(r, "cancelled"), ~At(r, "resolved"), CallGateway(r, amount, next),
             refunds' = refunds
      PROVE  PaidBeforeRecorded'
  <2> DEFINE q == [request[r] EXCEPT !.stage = next, !.amount = amount,
                                     !.refundId = NewRefundId(amount)]
  <2>1. amount \in Nat
    BY <1>2, MoneyAssumption DEF MoneyAssumption
  <2>2. q \in Request /\ Due(q) = amount /\ Due(request[r]) = 0
    <3>1. NewRefundId(amount) \in Nat
      BY <1>1, <2>1 DEF NewRefundId
    <3>2. q \in Request /\ q.stage = next /\ q.amount = amount
      BY <1>1, <3>1 DEF Request, Stage
    <3> QED
      BY <1>2, <3>2 DEF Due, At
  <2>3. \/ Done(r) /\ paidBack' = paidBack
        \/ Slot(r, q) /\ paidBack' = paidBack + amount
    BY <1>2 DEF CallGateway
  <2>4. CASE Done(r) /\ paidBack' = paidBack
    BY <1>2, <2>4, DonePays
  <2>5. CASE Slot(r, q) /\ paidBack' = paidBack + amount
    <3>1. paidBack' \in Nat /\ Due(q) <= Due(request[r]) + (paidBack' - paidBack)
      BY <1>1, <2>1, <2>2, <2>5
    <3> QED
      BY <1>2, <2>2, <2>5, <3>1, SlotPays
  <2> QED
    BY <2>3, <2>4, <2>5
<1>3. CASE RefundCancellation(r)
  BY <1>1, <1>2, <1>3, CancellationAmount DEF RefundCancellation, Request, At
<1>4. CASE RefundDispute(r)
  BY <1>1, <1>2, <1>4 DEF RefundDispute, Request, At
<1>5. CASE FindOpenDispute(r)
  <2> DEFINE q == [request[r] EXCEPT !.stage = "open"]
  <2>1. q \in Request /\ q.stage = "open"
    BY <1>1 DEF Request, Stage
  <2>2. refunds' = refunds /\ paidBack' = paidBack
    BY <1>5 DEF FindOpenDispute, moneyVars
  <2> QED
    BY <1>5, <2>1, <2>2, DonePays, GoingOnPays DEF FindOpenDispute
<1>6. CASE Abort(r)
  BY <1>6, DonePays DEF Abort, moneyVars
<1> QED
  BY <1>3, <1>4, <1>5, <1>6

\* A transaction records what its request owes, or nothing.
LEMMA RecordingPays ==
  ASSUME IInv, PaidBeforeRecorded, NEW r \in Requests, Done(r), paidBack' = paidBack,
         \/ refunds' = refunds
         \/ /\ At(r, "cancelled") \/ At(r, "resolved")
            /\ ~Duplicate(request[r].refundId)
            /\ \E kind \in {"CANCELLATION", "DISPUTE"} :
                 AddRefund(request[r].refundId, kind, request[r].amount)
  PROVE  PaidBeforeRecorded'
<1>1. CASE refunds' = refunds
  BY <1>1, DonePays
<1>2. CASE /\ At(r, "cancelled") \/ At(r, "resolved")
           /\ ~Duplicate(request[r].refundId)
           /\ \E kind \in {"CANCELLATION", "DISPUTE"} :
                AddRefund(request[r].refundId, kind, request[r].amount)
  <2>1. request[r] \in Request /\ Due(request[r]) = request[r].amount
    BY <1>2 DEF IInv, TypeOK, At, Due
  <2>2. IsFiniteSet(refunds') /\ Recorded' = Recorded + request[r].amount
    <3>1. request[r].refundId \in Nat /\ request[r].amount \in 0..Total
      BY <2>1 DEF Request
    <3>2. PICK kind \in {"CANCELLATION", "DISPUTE"} :
            AddRefund(request[r].refundId, kind, request[r].amount)
      BY <1>2
    <3> QED
      BY <1>2, <3>1, <3>2, RowAdds DEF PaidBeforeRecorded
  <2>3. Due(Idle) = 0 /\ Idle \in Request
    BY IdleIsSound DEF Due
  <2>4. /\ IsFiniteSet(Owing') /\ Owed \in Int /\ Owed' = Owed - request[r].amount + 0
        /\ request[r].amount \in Nat
    BY <2>1, <2>3, SlotSettles DEF Done, PaidBeforeRecorded
  <2>5. Recorded \in Nat /\ paidBack \in Nat /\ Recorded + Owed <= paidBack
    BY RecordedIsNat DEF PaidBeforeRecorded, IInv, TypeOK
  <2>6. (Recorded + request[r].amount) + (Owed - request[r].amount + 0) <= paidBack
    BY <2>4, <2>5
  <2> QED
    BY <2>2, <2>4, <2>6 DEF PaidBeforeRecorded
<1> QED
  BY <1>1, <1>2

LEMMA PaidIsInductive == IInv /\ PaidBeforeRecorded /\ [Next]_vars => PaidBeforeRecorded'
<1> SUFFICES ASSUME IInv, PaidBeforeRecorded, [Next]_vars PROVE PaidBeforeRecorded'
  OBVIOUS
<1>1. ASSUME refunds' = refunds, paidBack' = paidBack, request' = request
      PROVE  PaidBeforeRecorded'
  BY <1>1 DEF PaidBeforeRecorded, Recorded, Owed, Owing, Debt, Fen, Refund
<1>2. CASE UNCHANGED vars
  BY <1>1, <1>2 DEF vars, moneyVars
<1>3. CASE Assign \/ FailDispatch \/ ConfirmByOwner \/ AutoConfirm \/ Age
  BY <1>1, <1>3 DEF Assign, FailDispatch, ConfirmByOwner, AutoConfirm, Confirm, Age, moneyVars
<1>4. ASSUME NEW r \in Requests, Arrive(r) \/ Abort(r) PROVE PaidBeforeRecorded'
  BY <1>4, ArrivalPays, GatewayPays
<1>5. ASSUME NEW r \in Requests, CheckIn(r) \/ SubmitReport(r) \/ OpenDispute(r)
      PROVE  PaidBeforeRecorded'
  BY <1>5, DonePays DEF CheckIn, SubmitReport, OpenDispute, moneyVars
<1>6. ASSUME NEW r \in Requests, CommitCancellation(r) PROVE PaidBeforeRecorded'
  BY <1>6, RecordingPays DEF CommitCancellation
<1>7. ASSUME NEW r \in Requests, CommitResolution(r) PROVE PaidBeforeRecorded'
  <2>1. Done(r) /\ At(r, "resolved") /\ paidBack' = paidBack
    BY <1>7 DEF CommitResolution
  <2>2. \/ refunds' = refunds
        \/ /\ ~Duplicate(request[r].refundId)
           /\ AddRefund(request[r].refundId, "DISPUTE", request[r].amount)
    <3>1. request[r].amount \in Nat
      BY MoneyAssumption DEF MoneyAssumption, IInv, TypeOK, Request
    <3> QED
      BY <1>7, <3>1 DEF CommitResolution, RecordRefund
  <2> QED
    BY <2>1, <2>2, RecordingPays
<1>8. ASSUME NEW r \in Requests,
             RefundCancellation(r) \/ FindOpenDispute(r) \/ RefundDispute(r)
      PROVE  PaidBeforeRecorded'
  BY <1>8, GatewayPays
<1> QED
  BY <1>2, <1>3, <1>4, <1>5, <1>6, <1>7, <1>8 DEF Next, Proceed

LEMMA InitPays == Init => PaidBeforeRecorded
<1> SUFFICES ASSUME Init PROVE PaidBeforeRecorded
  OBVIOUS
<1>1. refunds = {} /\ paidBack = 0
  BY DEF Init
<1>2. Owing = {}
  BY IdleIsSound DEF Init, Owing
<1>3. Recorded = 0 /\ Owed = 0
  BY <1>1, <1>2, TotalOfNone, Zenon DEF Recorded, Owed
<1> QED
  BY <1>1, <1>2, <1>3, FS_EmptySet DEF PaidBeforeRecorded

\* The status of the order, the payment, the refund rows and the money the
\* gateway paid back tell one story, however requests overlap: the rows add up
\* to no more than was paid back (requestCancellation, resolveDispute).
THEOREM RefundsTellOneStory == Spec => []RefundsAgree
<1> DEFINE Inv == IInv /\ PaidBeforeRecorded
<1>1. Init => Inv
  BY InitSound, InitPays
<1>2. Inv /\ [Next]_vars => Inv'
  BY InvIsInductive, PaidIsInductive
<1>3. Inv => RefundsAgree
  <2> SUFFICES ASSUME IInv, PaidBeforeRecorded PROVE RefundsAgree
    OBVIOUS
  <2>1. Refunded = Recorded /\ Recorded \in Nat
    BY RefundedIsRecorded, RecordedIsNat DEF PaidBeforeRecorded, IInv, TypeOK
  <2>2. Owed \in Nat
    <3>1. \A t \in Owing : Debt[t] \in Nat
      BY MoneyAssumption DEF MoneyAssumption, IInv, TypeOK, Owing, Debt, Request
    <3> QED
      BY <3>1, TotalIsNat DEF Owed, PaidBeforeRecorded
  <2>3. Refunded <= paidBack
    BY <2>1, <2>2 DEF PaidBeforeRecorded, IInv, TypeOK
  <2> QED
    BY <2>3 DEF RefundsAgree, IInv
<1> QED
  BY <1>1, <1>2, <1>3, PTL DEF Spec

-----------------------------------------------------------------------------
(* What requests do, seen from the rows they leave alone.                  *)

Waiting == {"PENDING_DISPATCH", "PENDING_SERVICE", "DISPATCH_FAILED"}
Reported == {"PENDING_CONFIRMATION", "COMPLETED", "DISPUTED", "REFUNDED"}
Rows == <<status, disputes, refunds, settlement>>

LEMMA HistoryGrows == ASSUME IInv, [Next]_vars PROVE overtaken \subseteq overtaken'
<1>1. ASSUME NEW r \in Requests, Proceed(r) PROVE overtaken \subseteq overtaken'
  <2>1. overtaken' = overtaken \/ CheckIn(r) \/ CommitCancellation(r) \/ OpenDispute(r)
          \/ CommitResolution(r)
    BY <1>1 DEF Proceed, SubmitReport, RefundCancellation, FindOpenDispute, RefundDispute
  <2>2. \/ overtaken' = overtaken
        \/ \E handler \in Handlers : \E others \in SUBSET Requests : Overtakes(r, handler, others)
    BY <2>1 DEF CheckIn, CommitCancellation, OpenDispute, CommitResolution, Handlers,
       Cancelling, Opening, Ruling, InStage
  <2> QED
    BY <2>2, OvertakingShows DEF IInv, TypeOK
<1>2. ASSUME NEW r \in Requests, Arrive(r) \/ Abort(r) PROVE overtaken \subseteq overtaken'
  BY <1>2 DEF Arrive, RequestCheckIn, RequestSubmit, ReadOrder, RequestCancellation,
     RequestDispute, RequestResolution, Abort
<1>3. CASE Assign \/ FailDispatch \/ ConfirmByOwner \/ AutoConfirm \/ Age \/ UNCHANGED vars
  BY <1>3 DEF Assign, FailDispatch, ConfirmByOwner, AutoConfirm, Confirm, Age, vars
<1> QED
  BY <1>1, <1>2, <1>3 DEF Next

\* What a request finds when it arrives.
LEMMA ArrivalFinds ==
  ASSUME IInv, NEW r \in Requests, Arrive(r)
  PROVE  /\ UNCHANGED Rows
         /\ \E q \in Request :
              /\ Slot(r, q)
              /\ q.stage \in {"checkin", "submit", "cancel", "opening", "resolve", "resolved"}
              /\ q.stage = "cancel" => MayCancel
              /\ q.stage = "opening" => MayDispute
              /\ q.stage \in {"resolve", "resolved"} =>
                   q.dispute \in DisputeIds /\ disputes[q.dispute] = "OPEN"
<1>1. UNCHANGED Rows
  BY DEF Arrive, RequestCheckIn, RequestSubmit, ReadOrder, RequestCancellation, RequestDispute,
     RequestResolution, orderVars, moneyVars, Rows
<1>2. version \in Nat /\ assigned \in BOOLEAN /\ settlement.exists \in BOOLEAN
  BY DEF IInv, TypeOK, Settlement
<1>3. CASE RequestCheckIn(r) \/ RequestSubmit(r)
  <2>1. ASSUME NEW next \in {"checkin", "submit"}
        PROVE  LET q == [Idle EXCEPT !.stage = next, !.version = version]
               IN  q \in Request /\ q.stage = next
    BY <1>2, IdleIsSound DEF Request, Stage
  <2>2. \E next \in {"checkin", "submit"} :
          Slot(r, [Idle EXCEPT !.stage = next, !.version = version])
    BY <1>3 DEF RequestCheckIn, RequestSubmit, ReadOrder
  <2> QED
    BY <1>1, <2>1, <2>2
<1>4. CASE RequestCancellation(r)
  <2> DEFINE q == [Idle EXCEPT !.stage = "cancel", !.assigned = assigned]
  <2>1. q \in Request /\ q.stage = "cancel"
    BY <1>2, IdleIsSound DEF Request, Stage
  <2>2. Slot(r, q) /\ MayCancel
    BY <1>4 DEF RequestCancellation
  <2> QED
    BY <1>1, <2>1, <2>2
<1>5. CASE RequestDispute(r)
  <2> DEFINE q == [Idle EXCEPT !.stage = "opening"]
  <2>1. q \in Request /\ q.stage = "opening"
    BY IdleIsSound DEF Request, Stage
  <2>2. Slot(r, q) /\ MayDispute
    BY <1>5 DEF RequestDispute
  <2> QED
    BY <1>1, <2>1, <2>2
<1>6. ASSUME NEW d \in DisputeIds, NEW amount \in Amounts, RequestResolution(r, d, amount)
      PROVE  \E q \in Request : /\ Slot(r, q) /\ q.stage \in {"resolve", "resolved"}
                                /\ q.dispute \in DisputeIds /\ disputes[q.dispute] = "OPEN"
  <2> DEFINE q == [Idle EXCEPT !.stage = IF amount > 0 THEN "resolve" ELSE "resolved",
                               !.dispute = d, !.amount = amount, !.settled = settlement.exists]
  <2>1. amount \in 0..Total /\ d \in 0..MaxDisputes
    BY <1>6, MoneyAssumption DEF RequestResolution, ValidAmount, MoneyAssumption, DisputeIds
  <2>2. q \in Request
    BY <1>2, <2>1, IdleIsSound DEF Request, Stage
  <2>3. q.stage \in {"resolve", "resolved"} /\ q.dispute = d
    BY DEF Idle
  <2>4. Slot(r, q) /\ disputes[d] = "OPEN"
    BY <1>6 DEF RequestResolution, Undecided
  <2> QED
    BY <2>2, <2>3, <2>4
<1> QED
  BY <1>1, <1>3, <1>4, <1>5, <1>6 DEF Arrive

\* How a request goes on that does not write rows yet.
LEMMA RequestGoesOn ==
  ASSUME IInv, NEW r \in Requests,
         RefundCancellation(r) \/ RefundDispute(r) \/ FindOpenDispute(r) \/ Abort(r)
  PROVE  /\ UNCHANGED Rows
         /\ \/ Done(r)
            \/ \E q \in Request :
                 /\ Slot(r, q) /\ q.dispute = request[r].dispute
                 /\ \/ At(r, "cancel") /\ q.stage = "cancelled"
                    \/ At(r, "resolve") /\ q.stage = "resolved"
                    \/ At(r, "opening") /\ q.stage = "open" /\ ~DisputeIsOpen
<1>1. UNCHANGED Rows
  BY DEF RefundCancellation, RefundDispute, FindOpenDispute, Abort, orderVars, moneyVars, Rows
<1>2. request[r] \in Request /\ calls \in Nat
  BY MoneyAssumption DEF MoneyAssumption, IInv, TypeOK
<1>3. ASSUME NEW amount \in 0..Total, NEW next \in {"cancelled", "resolved"},
             CallGateway(r, amount, next)
      PROVE  \/ Done(r)
             \/ \E q \in Request : Slot(r, q) /\ q.dispute = request[r].dispute /\ q.stage = next
  <2> DEFINE q == [request[r] EXCEPT !.stage = next, !.amount = amount,
                                     !.refundId = NewRefundId(amount)]
  <2>1. NewRefundId(amount) \in Nat
    BY <1>2, MoneyAssumption DEF MoneyAssumption, NewRefundId
  <2>2. q \in Request /\ q.stage = next /\ q.dispute = request[r].dispute
    BY <1>2, <2>1 DEF Request, Stage
  <2>3. Done(r) \/ Slot(r, q)
    BY <1>3 DEF CallGateway
  <2> QED
    BY <2>2, <2>3
<1>4. CASE RefundCancellation(r)
  <2>1. Total - LateFee(request[r].assigned) \in 0..Total
    BY <1>2, CancellationAmount DEF Request
  <2> QED
    BY <1>1, <1>3, <1>4, <2>1 DEF RefundCancellation
<1>5. CASE RefundDispute(r)
  <2>1. request[r].amount \in 0..Total
    BY <1>2 DEF Request
  <2> QED
    BY <1>1, <1>3, <1>5, <2>1 DEF RefundDispute
<1>6. CASE FindOpenDispute(r)
  <2> DEFINE q == [request[r] EXCEPT !.stage = "open"]
  <2>1. q \in Request /\ q.stage = "open" /\ q.dispute = request[r].dispute
    BY <1>2 DEF Request, Stage
  <2>2. At(r, "opening") /\ (Done(r) \/ (Slot(r, q) /\ ~DisputeIsOpen))
    BY <1>6 DEF FindOpenDispute
  <2> QED
    BY <1>1, <2>1, <2>2
<1>7. CASE Abort(r)
  BY <1>1, <1>7 DEF Abort
<1> QED
  BY <1>4, <1>5, <1>6, <1>7

\* How the order moves on where no money moves.
LEMMA OrderMoves ==
  ASSUME IInv,
         \/ \E r \in Requests : CheckIn(r) \/ SubmitReport(r)
         \/ Assign \/ FailDispatch \/ Age \/ ConfirmByOwner \/ AutoConfirm
  PROVE  /\ UNCHANGED <<disputes, refunds>>
         /\ request' = request \/ \E r \in Requests : Done(r)
         /\ \/ UNCHANGED <<status, settlement>>
            \/ /\ status = "PENDING_DISPATCH" /\ status' \in Waiting
               /\ UNCHANGED <<settlement, request>>
            \/ /\ status = "PENDING_SERVICE" /\ status' = "IN_SERVICE"
               /\ settlement' = settlement
               /\ \E r \in Requests : Done(r) /\ Overtakes(r, "cancellation", Cancelling)
            \/ /\ status = "IN_SERVICE" /\ status' = "PENDING_CONFIRMATION"
               /\ settlement' = settlement
            \/ /\ status = "PENDING_CONFIRMATION" /\ status' = "COMPLETED" /\ ~DisputeIsOpen
               /\ settlement' = Split(Total) /\ request' = request
<1>1. ASSUME NEW r \in Requests, CheckIn(r) \/ SubmitReport(r)
      PROVE  /\ UNCHANGED <<disputes, refunds, settlement>> /\ Done(r)
             /\ \/ UNCHANGED status
                \/ /\ status = "PENDING_SERVICE" /\ status' = "IN_SERVICE"
                   /\ Overtakes(r, "cancellation", Cancelling)
                \/ status = "IN_SERVICE" /\ status' = "PENDING_CONFIRMATION"
  BY <1>1 DEF CheckIn, SubmitReport, Matches, MoveTo, moneyVars
<1>2. CASE Assign \/ FailDispatch \/ Age
  BY <1>2 DEF Assign, FailDispatch, Age, MoveTo, moneyVars, orderVars, Waiting
<1>3. CASE ConfirmByOwner \/ AutoConfirm
  BY <1>3 DEF ConfirmByOwner, AutoConfirm, Confirm, MayConfirm, MoveTo, DisputeIsOpen
<1> QED
  BY <1>1, <1>2, <1>3

\* How a cancellation, a dispute and a ruling write.
LEMMA CancellationWrites ==
  ASSUME IInv, NEW r \in Requests, CommitCancellation(r)
  PROVE  /\ Done(r) /\ At(r, "cancelled") /\ UNCHANGED <<disputes, settlement>>
         /\ \/ UNCHANGED Rows
            \/ /\ AddRefund(request[r].refundId, "CANCELLATION", request[r].amount)
               /\ ~Duplicate(request[r].refundId)
               /\ request[r].amount \in 0..Total /\ request[r].refundId \in Nat
               /\ status' = "CANCELLED" /\ Overtakes(r, "cancellation", Cancelling)
<1>1. request[r].amount \in 0..Total /\ request[r].refundId \in Nat
  BY DEF IInv, TypeOK, Request
<1> QED
  BY <1>1 DEF CommitCancellation, MoveTo, Rows

LEMMA OpeningWrites ==
  ASSUME IInv, NEW r \in Requests, OpenDispute(r)
  PROVE  /\ Done(r) /\ At(r, "open") /\ refunds' = refunds /\ status' = "DISPUTED"
         /\ settlement'.available = FALSE /\ Overtakes(r, "dispute", Opening)
         /\ \E d \in DisputeIds :
              /\ disputes[d] = "NONE"
              /\ \A e \in DisputeIds : disputes'[e] = IF e = d THEN "OPEN" ELSE disputes[e]
<1>1. settlement'.available = FALSE
  BY DEF OpenDispute, Freeze, IInv, TypeOK, Settlement
<1>2. PICK d \in DisputeIds : disputes[d] = "NONE" /\ disputes' = [disputes EXCEPT ![d] = "OPEN"]
  BY DEF OpenDispute, NewDispute
<1>3. \A e \in DisputeIds : disputes'[e] = IF e = d THEN "OPEN" ELSE disputes[e]
  BY <1>2 DEF IInv, TypeOK
<1> QED
  BY <1>1, <1>2, <1>3 DEF OpenDispute, MoveTo

LEMMA ResolutionWrites ==
  ASSUME IInv, NEW r \in Requests, CommitResolution(r)
  PROVE  LET q == request[r]
         IN  /\ Done(r) /\ At(r, "resolved") /\ q.amount \in 0..Total /\ q.refundId \in Nat
             /\ \/ UNCHANGED Rows
                \/ /\ Overtakes(r, "ruling", Ruling(q.dispute))
                   /\ \A e \in DisputeIds :
                        disputes'[e] = IF e = q.dispute THEN Outcome(q.amount) ELSE disputes[e]
                   /\ status' = StatusAfter(q)
                   /\ settlement' = IF Resettle(q) THEN Split(Remainder(q)) ELSE settlement
                   /\ \/ q.amount = 0 /\ refunds' = refunds
                      \/ /\ q.amount > 0 /\ ~Duplicate(q.refundId)
                         /\ AddRefund(q.refundId, "DISPUTE", q.amount)
<1> DEFINE q == request[r]
<1>1. Done(r) /\ At(r, "resolved") /\ q.amount \in 0..Total /\ q.refundId \in Nat
  BY DEF CommitResolution, IInv, TypeOK, Request
<1>2. CASE UNCHANGED <<status, refunds, settlement, disputes>>
  BY <1>1, <1>2 DEF Rows
<1>3. CASE /\ q.amount = 0 \/ ~Duplicate(q.refundId)
           /\ RecordRefund(q)
           /\ settlement' = IF Resettle(q) THEN Split(Remainder(q)) ELSE settlement
           /\ disputes' = [disputes EXCEPT ![q.dispute] = Outcome(q.amount)]
           /\ MoveTo(StatusAfter(q))
           /\ Overtakes(r, "ruling", Ruling(q.dispute))
  <2>1. \A e \in DisputeIds :
          disputes'[e] = IF e = q.dispute THEN Outcome(q.amount) ELSE disputes[e]
    BY <1>3 DEF IInv, TypeOK
  <2>2. \/ q.amount = 0 /\ refunds' = refunds
        \/ /\ q.amount > 0 /\ ~Duplicate(q.refundId)
           /\ AddRefund(q.refundId, "DISPUTE", q.amount)
    <3>1. q.amount > 0 => q.amount # 0
      BY <1>1, MoneyAssumption DEF MoneyAssumption
    <3> QED
      BY <1>3, <3>1 DEF RecordRefund
  <2> QED
    BY <1>1, <1>3, <2>1, <2>2 DEF MoveTo
<1> QED
  BY <1>2, <1>3 DEF CommitResolution

-----------------------------------------------------------------------------
(* Rulings and their rows.  The dispute a ruling was asked on stays open   *)
(* until the ruling is written, unless another ruling on it is.            *)

RulingsStand ==
  \A r \in Requests :
    request[r].stage \in {"resolve", "resolved"} =>
      request[r].dispute \in DisputeIds /\ disputes[request[r].dispute] = "OPEN"

DisputeRefunds == {x \in refunds : x.kind = "DISPUTE"}
RowsAreCounted == Cardinality(DisputeRefunds) = Cardinality(Granted)

RulingInv == "ruling" \notin overtaken => RulingsStand /\ RowsAreCounted

LEMMA SlotStands ==
  ASSUME IInv, RulingsStand, NEW r \in Requests, NEW q, Slot(r, q),
         q.stage \in {"resolve", "resolved"} =>
           q.dispute \in DisputeIds /\ disputes'[q.dispute] = "OPEN",
         \A s \in Requests \ {r} :
           request[s].stage \in {"resolve", "resolved"} => disputes'[request[s].dispute] = "OPEN"
  PROVE  RulingsStand'
<1>1. \A s \in Requests : request'[s] = IF s = r THEN q ELSE request[s]
  BY DEF Slot, IInv, TypeOK
<1> QED
  BY <1>1 DEF RulingsStand

LEMMA DoneStands ==
  ASSUME IInv, RulingsStand, NEW r \in Requests, Done(r), disputes' = disputes
  PROVE  RulingsStand'
<1>1. \A s \in Requests \ {r} :
        request[s].stage \in {"resolve", "resolved"} => disputes'[request[s].dispute] = "OPEN"
  BY DEF RulingsStand
<1> QED
  BY <1>1, IdleIsSound, SlotStands DEF Done

LEMMA SameRowsCounted ==
  ASSUME RowsAreCounted, UNCHANGED <<refunds, disputes>>
  PROVE  RowsAreCounted'
BY DEF RowsAreCounted, DisputeRefunds, Granted

LEMMA GrantedIsFinite ==
  /\ IsFiniteSet(Opened) /\ IsFiniteSet(Granted) /\ Granted \subseteq Opened
  /\ Cardinality(Opened) \in Nat /\ Cardinality(Granted) \in Nat
<1>1. IsFiniteSet(DisputeIds)
  BY MoneyAssumption, FS_Interval DEF MoneyAssumption, DisputeIds
<1>2. Opened \in SUBSET DisputeIds /\ Granted \in SUBSET DisputeIds /\ Granted \subseteq Opened
  BY DEF Opened, Granted
<1> QED
  BY <1>1, <1>2, FS_Subset, FS_CardinalityType

\* A ruling that is not overtaken closes an open dispute, with a row if it grants
\* money.
LEMMA ResolutionIsCounted ==
  ASSUME IInv, IsFiniteSet(refunds), RulingsStand, RowsAreCounted,
         NEW r \in Requests, CommitResolution(r), "ruling" \notin overtaken'
  PROVE  RulingsStand' /\ RowsAreCounted'
<1> DEFINE q == request[r]
<1>1. /\ Done(r) /\ At(r, "resolved") /\ q.amount \in 0..Total /\ q.refundId \in Nat
      /\ q.dispute \in DisputeIds /\ disputes[q.dispute] = "OPEN"
  BY ResolutionWrites DEF RulingsStand, At
<1>2. CASE UNCHANGED Rows
  BY <1>1, <1>2, DoneStands, SameRowsCounted DEF Rows
<1>3. CASE /\ Overtakes(r, "ruling", Ruling(q.dispute))
           /\ \A e \in DisputeIds :
                disputes'[e] = IF e = q.dispute THEN Outcome(q.amount) ELSE disputes[e]
           /\ \/ q.amount = 0 /\ refunds' = refunds
              \/ /\ q.amount > 0 /\ ~Duplicate(q.refundId)
                 /\ AddRefund(q.refundId, "DISPUTE", q.amount)
  <2>1. Ruling(q.dispute) \ {r} = {}
    <3>1. "ruling" \in Handlers /\ overtaken \subseteq Handlers
      BY DEF Handlers, IInv, TypeOK
    <3>2. PICK others : others = Ruling(q.dispute)
      OBVIOUS
    <3>3. Overtakes(r, "ruling", others)
      BY <1>3, <3>2
    <3> QED
      BY <3>1, <3>2, <3>3, OvertakingShows
  <2>2. \A s \in Requests \ {r} :
          request[s].stage \in {"resolve", "resolved"} =>
            request[s].dispute \in DisputeIds \ {q.dispute}
    BY <2>1 DEF Ruling, InStage, RulingsStand
  <2>3. RulingsStand'
    <3>1. \A s \in Requests \ {r} :
            request[s].stage \in {"resolve", "resolved"} => disputes'[request[s].dispute] = "OPEN"
      BY <1>3, <2>2 DEF RulingsStand
    <3> QED
      BY <1>1, <3>1, SlotStands, IdleIsSound DEF Done
  <2>4. Outcome(q.amount) \in {"RESOLVED_PARTIAL_REFUND", "RESOLVED_FULL_REFUND"} <=> q.amount > 0
    BY <1>1, MoneyAssumption DEF Outcome, MoneyAssumption
  <2>5. CASE q.amount = 0 /\ refunds' = refunds
    <3>1. Granted' = Granted /\ DisputeRefunds' = DisputeRefunds
      BY <1>1, <1>3, <2>4, <2>5 DEF Granted, DisputeRefunds
    <3> QED
      BY <2>3, <3>1 DEF RowsAreCounted
  <2>6. CASE /\ q.amount > 0 /\ ~Duplicate(q.refundId)
             /\ AddRefund(q.refundId, "DISPUTE", q.amount)
    <3> DEFINE row == [id |-> q.refundId, kind |-> "DISPUTE", amount |-> q.amount]
    <3>1. refunds' = refunds \cup {row} /\ row \notin refunds
      BY <2>6 DEF AddRefund, Duplicate
    <3>2. DisputeRefunds' = DisputeRefunds \cup {row} /\ row \notin DisputeRefunds
      BY <3>1 DEF DisputeRefunds
    <3>3. Granted' = Granted \cup {q.dispute} /\ q.dispute \notin Granted
      BY <1>1, <1>3, <2>4, <2>6 DEF Granted
    <3>4. IsFiniteSet(DisputeRefunds)
      <4>1. DisputeRefunds \in SUBSET refunds
        BY DEF DisputeRefunds
      <4> QED
        BY <4>1, FS_Subset
    <3>5. Cardinality(DisputeRefunds \cup {row}) = Cardinality(DisputeRefunds) + 1
      BY <3>2, <3>4, FS_AddElement
    <3>6. Cardinality(Granted \cup {q.dispute}) = Cardinality(Granted) + 1
      BY <3>3, GrantedIsFinite, FS_AddElement
    <3> QED
      BY <2>3, <3>2, <3>3, <3>5, <3>6 DEF RowsAreCounted
  <2> QED
    BY <1>3, <2>5, <2>6
<1> QED
  BY <1>2, <1>3, ResolutionWrites

LEMMA RulingStep == IInv /\ PaidBeforeRecorded /\ RulingInv /\ [Next]_vars => RulingInv'
<1> SUFFICES ASSUME IInv, PaidBeforeRecorded, RulingInv, [Next]_vars, "ruling" \notin overtaken'
             PROVE  RulingsStand' /\ RowsAreCounted'
  BY DEF RulingInv
<1>1. RulingsStand /\ RowsAreCounted /\ IsFiniteSet(refunds)
  BY HistoryGrows DEF RulingInv, PaidBeforeRecorded
<1>2. ASSUME request' = request, UNCHANGED <<disputes, refunds>>
      PROVE  RulingsStand' /\ RowsAreCounted'
  <2>1. RulingsStand'
    BY <1>1, <1>2 DEF RulingsStand
  <2> QED
    BY <1>1, <1>2, <2>1, SameRowsCounted
<1>3. ASSUME NEW r \in Requests, Done(r), UNCHANGED <<disputes, refunds>>
      PROVE  RulingsStand' /\ RowsAreCounted'
  BY <1>1, <1>3, DoneStands, SameRowsCounted
<1>4. ASSUME NEW r \in Requests, NEW q, Slot(r, q), UNCHANGED <<disputes, refunds>>,
             q.stage \in {"resolve", "resolved"} =>
               q.dispute \in DisputeIds /\ disputes[q.dispute] = "OPEN"
      PROVE  RulingsStand' /\ RowsAreCounted'
  <2>1. \A s \in Requests \ {r} :
          request[s].stage \in {"resolve", "resolved"} => disputes'[request[s].dispute] = "OPEN"
    BY <1>1, <1>4 DEF RulingsStand
  <2> QED
    BY <1>1, <1>4, <2>1, SlotStands, SameRowsCounted
<1>5. ASSUME NEW r \in Requests, Arrive(r) PROVE RulingsStand' /\ RowsAreCounted'
  <2>1. UNCHANGED <<disputes, refunds>>
    BY <1>5, ArrivalFinds DEF Rows
  <2>2. \E q \in Request : /\ Slot(r, q)
                           /\ q.stage \in {"resolve", "resolved"} =>
                                q.dispute \in DisputeIds /\ disputes[q.dispute] = "OPEN"
    BY <1>5, ArrivalFinds
  <2> QED
    BY <1>4, <2>1, <2>2
<1>6. ASSUME NEW r \in Requests,
             RefundCancellation(r) \/ RefundDispute(r) \/ FindOpenDispute(r) \/ Abort(r)
      PROVE  RulingsStand' /\ RowsAreCounted'
  <2>1. UNCHANGED <<disputes, refunds>>
    BY <1>6, RequestGoesOn DEF Rows
  <2>2. \/ Done(r)
        \/ \E q \in Request :
             /\ Slot(r, q) /\ q.dispute = request[r].dispute
             /\ At(r, "resolve") \/ q.stage \in {"cancelled", "open"}
    BY <1>6, RequestGoesOn
  <2>3. \/ Done(r)
        \/ \E q \in Request : /\ Slot(r, q)
                              /\ q.stage \in {"resolve", "resolved"} =>
                                   q.dispute \in DisputeIds /\ disputes[q.dispute] = "OPEN"
    BY <1>1, <2>2 DEF RulingsStand, At
  <2> QED
    BY <1>3, <1>4, <2>1, <2>3
<1>7. CASE \/ \E r \in Requests : CheckIn(r) \/ SubmitReport(r)
           \/ Assign \/ FailDispatch \/ Age \/ ConfirmByOwner \/ AutoConfirm
  BY <1>2, <1>3, <1>7, OrderMoves
<1>8. ASSUME NEW r \in Requests, CommitCancellation(r) PROVE RulingsStand' /\ RowsAreCounted'
  <2>1. Done(r) /\ disputes' = disputes
    BY <1>8, CancellationWrites
  <2>2. RulingsStand'
    BY <1>1, <2>1, DoneStands
  <2>3. DisputeRefunds' = DisputeRefunds /\ Granted' = Granted
    BY <1>8, <2>1, CancellationWrites DEF AddRefund, DisputeRefunds, Granted, Rows
  <2> QED
    BY <1>1, <2>2, <2>3 DEF RowsAreCounted
<1>9. ASSUME NEW r \in Requests, OpenDispute(r) PROVE RulingsStand' /\ RowsAreCounted'
  <2>1. PICK d \in DisputeIds :
          /\ disputes[d] = "NONE"
          /\ \A e \in DisputeIds : disputes'[e] = IF e = d THEN "OPEN" ELSE disputes[e]
    BY <1>9, OpeningWrites
  <2>2. Done(r) /\ refunds' = refunds
    BY <1>9, OpeningWrites
  <2>3. \A s \in Requests \ {r} :
          request[s].stage \in {"resolve", "resolved"} => disputes'[request[s].dispute] = "OPEN"
    BY <1>1, <2>1 DEF RulingsStand
  <2>4. RulingsStand'
    BY <1>1, <2>2, <2>3, SlotStands, IdleIsSound DEF Done
  <2>5. Granted' = Granted /\ DisputeRefunds' = DisputeRefunds
    BY <2>1, <2>2 DEF Granted, DisputeRefunds
  <2> QED
    BY <1>1, <2>4, <2>5 DEF RowsAreCounted
<1>10. CASE UNCHANGED vars
  BY <1>2, <1>10 DEF vars, moneyVars
<1> QED
  BY <1>1, <1>5, <1>6, <1>7, <1>8, <1>9, <1>10, ResolutionIsCounted DEF Next, Proceed

LEMMA RulingInit == Init => RulingInv
<1> SUFFICES ASSUME Init PROVE RulingsStand /\ RowsAreCounted
  BY DEF RulingInv
<1>1. RulingsStand
  BY IdleIsSound DEF Init, RulingsStand
<1>2. DisputeRefunds = {} /\ Granted = {}
  BY DEF Init, DisputeRefunds, Granted
<1> QED
  BY <1>1, <1>2 DEF RowsAreCounted

\* However many requests overlap, are refused or die, the rulings that grant
\* money are as many as the refund rows of disputes, until a ruling is overtaken
\* by another on the same dispute (resolveDispute).
THEOREM RulingsHaveRefunds == Spec => []RulingsMatchRefunds
<1> DEFINE Inv == IInv /\ PaidBeforeRecorded /\ RulingInv
<1>1. Init => Inv
  BY InitSound, InitPays, RulingInit
<1>2. Inv /\ [Next]_vars => Inv'
  BY InvIsInductive, PaidIsInductive, RulingStep
<1>3. Inv => RulingsMatchRefunds
  BY DEF RulingInv, RowsAreCounted, DisputeRefunds, RulingsMatchRefunds
<1> QED
  BY <1>1, <1>2, <1>3, PTL DEF Spec

-----------------------------------------------------------------------------
(* Nothing overtaken: what a request found of the order holds until it     *)
(* writes, and disputes, settlement and refunds follow each other.         *)

Knows(q, s, rows, ds) ==
  /\ q.stage \in {"cancel", "cancelled"} => s \in Waiting /\ rows = {}
  /\ q.stage \in DisputeStages => s \in Reported
  /\ q.stage = "open" => \A d \in DisputeIds : ds[d] # "OPEN"

RequestsKnow == \A r \in Requests : Knows(request[r], status, refunds, disputes)

DisputesShow ==
  /\ \A d \in DisputeIds :
       /\ disputes[d] # "NONE" => status \in {"DISPUTED", "COMPLETED", "REFUNDED"}
       /\ disputes[d] = "OPEN" => status = "DISPUTED"
  /\ \A d, e \in DisputeIds : disputes[d] = "OPEN" /\ disputes[e] = "OPEN" => d = e
  /\ settlement.available => status = "COMPLETED"
  /\ Opened = {} /\ status # "CANCELLED" => refunds = {}

\* The second part is what the next ruling starts from: it adds its own refund
\* to those of the rulings before.
CostIsBounded ==
  /\ Recorded + Withdrawable <= Times(Cardinality(Opened))
  /\ Opened # {} => Recorded <= Total * Cardinality(Granted)

OrderInv == overtaken = {} => RequestsKnow /\ DisputesShow /\ CostIsBounded

LEMMA SlotKnows ==
  ASSUME IInv, RequestsKnow, NEW r \in Requests, NEW q, Slot(r, q),
         Knows(q, status', refunds', disputes'),
         \A s \in Requests \ {r} :
           Knows(request[s], status, refunds, disputes)
             => Knows(request[s], status', refunds', disputes')
  PROVE  RequestsKnow'
<1>1. \A s \in Requests : request'[s] = IF s = r THEN q ELSE request[s]
  BY DEF Slot, IInv, TypeOK
<1>2. ASSUME NEW s \in Requests PROVE Knows(request'[s], status', refunds', disputes')
  BY <1>1 DEF RequestsKnow
<1> QED
  BY <1>2 DEF RequestsKnow

LEMMA DoneKnows ==
  ASSUME IInv, RequestsKnow, NEW r \in Requests, Done(r),
         \A s \in Requests \ {r} :
           Knows(request[s], status, refunds, disputes)
             => Knows(request[s], status', refunds', disputes')
  PROVE  RequestsKnow'
<1>1. Knows(Idle, status', refunds', disputes')
  BY IdleIsSound DEF Knows, DisputeStages
<1> QED
  BY <1>1, SlotKnows DEF Done

\* Multiples of the price.
LEMMA TimesGrows ==
  ASSUME NEW n \in Nat
  PROVE  /\ Times(n) \in Nat /\ Total <= Times(n)
         /\ Times(n) <= Times(n + 1) /\ Times(n + 1) = Total * n + Total
<1>1. Total \in Nat
  BY MoneyAssumption DEF MoneyAssumption
<1>2. Times(n + 1) = Total * n + Total
  BY <1>1 DEF Times
<1>3. CASE n = 0
  BY <1>1, <1>2, <1>3 DEF Times
<1>4. CASE n # 0
  <2>1. PICK m \in Nat : n = m + 1
    <3>1. n - 1 \in Nat /\ n = (n - 1) + 1
      BY <1>4
    <3> QED
      BY <3>1
  <2>2. Total * n = Total * m + Total /\ Total * m \in Nat
    BY <1>1, <2>1
  <2>3. Times(n) = Total * n
    BY <1>4 DEF Times
  <2> QED
    BY <1>1, <1>2, <2>2, <2>3
<1> QED
  BY <1>3, <1>4

LEMMA AmountsAreNat ==
  ASSUME IInv, IsFiniteSet(refunds)
  PROVE  Recorded \in Nat /\ Withdrawable \in 0..Total /\ Total \in Nat
<1>1. Total \in Nat
  BY MoneyAssumption DEF MoneyAssumption
<1>2. Withdrawable \in 0..Total
  BY <1>1 DEF Withdrawable, IInv, TypeOK, Settlement
<1> QED
  BY <1>1, <1>2, RecordedIsNat

LEMMA NothingRecorded == ASSUME refunds = {} PROVE IsFiniteSet(refunds) /\ Recorded = 0
BY TotalOfNone, FS_EmptySet, Zenon DEF Recorded

\* The order moves between statuses that no dispute and no settlement has.
LEMMA MoneyStays ==
  ASSUME DisputesShow, CostIsBounded, UNCHANGED <<disputes, refunds, settlement>>,
         \/ status' = status
         \/ /\ status \in {"PENDING_DISPATCH", "PENDING_SERVICE", "IN_SERVICE"}
            /\ status' # "CANCELLED"
  PROVE  DisputesShow' /\ CostIsBounded'
<1>1. Opened' = Opened /\ Granted' = Granted /\ Recorded' = Recorded
  BY DEF Opened, Granted, Recorded, Fen, Refund
<1>2. Withdrawable' = Withdrawable
  BY DEF Withdrawable
<1>3. CostIsBounded'
  BY <1>1, <1>2 DEF CostIsBounded, Times
<1>4. DisputesShow'
  BY <1>1 DEF DisputesShow
<1> QED
  BY <1>3, <1>4

\* A slot changes, the rows do not.
LEMMA ReadingKnows ==
  ASSUME IInv, RequestsKnow, DisputesShow, CostIsBounded, UNCHANGED Rows, NEW r \in Requests,
         Done(r) \/ \E q \in Request : Slot(r, q) /\ Knows(q, status, refunds, disputes)
  PROVE  RequestsKnow' /\ DisputesShow' /\ CostIsBounded'
<1>1. UNCHANGED <<status, refunds, disputes, settlement>>
  BY DEF Rows
<1>2. DisputesShow' /\ CostIsBounded'
  BY <1>1, MoneyStays
<1>3. RequestsKnow'
  BY <1>1, DoneKnows, SlotKnows
<1> QED
  BY <1>2, <1>3

LEMMA ArrivalKnows ==
  ASSUME IInv, RequestsKnow, DisputesShow, CostIsBounded, NEW r \in Requests, Arrive(r)
  PROVE  RequestsKnow' /\ DisputesShow' /\ CostIsBounded'
<1>1. PICK q \in Request :
        /\ Slot(r, q)
        /\ q.stage \in {"checkin", "submit", "cancel", "opening", "resolve", "resolved"}
        /\ q.stage = "cancel" => MayCancel
        /\ q.stage = "opening" => MayDispute
        /\ q.stage \in {"resolve", "resolved"} =>
             q.dispute \in DisputeIds /\ disputes[q.dispute] = "OPEN"
  BY ArrivalFinds
<1>2. MayCancel => status \in Waiting /\ refunds = {}
  BY DEF MayCancel, Waiting, IInv, StatusShowsRefunds
<1>3. MayDispute => status \in Reported
  BY DEF MayDispute, Reported
<1>4. q.stage \in {"resolve", "resolved"} => status \in Reported
  BY <1>1 DEF DisputesShow, Reported
<1>5. Knows(q, status, refunds, disputes)
  BY <1>1, <1>2, <1>3, <1>4 DEF Knows, DisputeStages
<1> QED
  BY <1>1, <1>5, ArrivalFinds, ReadingKnows

LEMMA GoingOnKnows ==
  ASSUME IInv, RequestsKnow, DisputesShow, CostIsBounded, NEW r \in Requests,
         RefundCancellation(r) \/ RefundDispute(r) \/ FindOpenDispute(r) \/ Abort(r)
  PROVE  RequestsKnow' /\ DisputesShow' /\ CostIsBounded'
<1>1. Knows(request[r], status, refunds, disputes)
  BY DEF RequestsKnow
<1>2. ASSUME NEW q \in Request,
             \/ At(r, "cancel") /\ q.stage = "cancelled"
             \/ At(r, "resolve") /\ q.stage = "resolved"
             \/ At(r, "opening") /\ q.stage = "open" /\ ~DisputeIsOpen
      PROVE  Knows(q, status, refunds, disputes)
  BY <1>1, <1>2 DEF Knows, DisputeStages, At, DisputeIsOpen
<1> QED
  BY <1>2, RequestGoesOn, ReadingKnows

LEMMA MovesKnow ==
  ASSUME IInv, PaidBeforeRecorded, RequestsKnow, DisputesShow, CostIsBounded, overtaken' = {},
         \/ \E r \in Requests : CheckIn(r) \/ SubmitReport(r)
         \/ Assign \/ FailDispatch \/ Age \/ ConfirmByOwner \/ AutoConfirm
  PROVE  RequestsKnow' /\ DisputesShow' /\ CostIsBounded'
<1>1. UNCHANGED <<disputes, refunds>> /\ (request' = request \/ \E r \in Requests : Done(r))
  BY OrderMoves
<1>2. ASSUME \A s \in Requests : Knows(request[s], status, refunds, disputes)
                                   => Knows(request[s], status', refunds', disputes')
      PROVE  RequestsKnow'
  BY <1>1, <1>2, DoneKnows DEF RequestsKnow
<1>3. CASE UNCHANGED <<status, settlement>>
  BY <1>1, <1>2, <1>3, MoneyStays
<1>4. CASE /\ status = "PENDING_DISPATCH" /\ status' \in Waiting
           /\ settlement' = settlement
  <2>1. RequestsKnow'
    BY <1>1, <1>2, <1>4 DEF Knows, Reported
  <2> QED
    BY <1>1, <1>4, <2>1, MoneyStays DEF Waiting
<1>5. CASE /\ status = "PENDING_SERVICE" /\ status' = "IN_SERVICE" /\ settlement' = settlement
           /\ \E r \in Requests : Done(r) /\ Overtakes(r, "cancellation", Cancelling)
  <2>1. PICK r \in Requests : Done(r) /\ Overtakes(r, "cancellation", Cancelling)
    BY <1>5
  <2>2. Cancelling \ {r} = {}
    <3>1. "cancellation" \in Handlers /\ overtaken \subseteq Handlers
      BY DEF Handlers, IInv, TypeOK
    <3> QED
      BY <2>1, <3>1, OvertakingShows
  <2>3. \A s \in Requests \ {r} : request[s].stage \notin {"cancel", "cancelled"}
    BY <2>2 DEF Cancelling, InStage
  <2>4. \A s \in Requests \ {r} : Knows(request[s], status, refunds, disputes)
                                    => Knows(request[s], status', refunds', disputes')
    BY <1>1, <1>5, <2>3 DEF Knows, Reported
  <2>5. RequestsKnow'
    BY <2>1, <2>4, DoneKnows
  <2> QED
    BY <1>1, <1>5, <2>5, MoneyStays
<1>6. CASE /\ status = "IN_SERVICE" /\ status' = "PENDING_CONFIRMATION"
           /\ settlement' = settlement
  <2>1. RequestsKnow'
    BY <1>1, <1>2, <1>6 DEF Knows, Waiting, Reported
  <2> QED
    BY <1>1, <1>6, <2>1, MoneyStays
<1>7. CASE /\ status = "PENDING_CONFIRMATION" /\ status' = "COMPLETED" /\ ~DisputeIsOpen
           /\ settlement' = Split(Total)
  <2>1. RequestsKnow'
    BY <1>1, <1>2, <1>7 DEF Knows, Waiting, Reported
  <2>2. refunds' = {}
    BY <1>1, <1>7 DEF IInv, StatusShowsRefunds
  <2>3. DisputesShow'
    BY <1>1, <1>7, <2>2 DEF DisputesShow, DisputeIsOpen
  <2>4. Recorded' = 0 /\ Withdrawable' = Total /\ Opened' = Opened /\ Granted' = Granted
    <3>1. Recorded' = 0
      BY <2>2, TotalOfNone, Zenon DEF Recorded
    <3> QED
      BY <1>1, <1>7, <3>1 DEF Withdrawable, Split, Opened, Granted
  <2>5. CostIsBounded'
    <3>1. /\ Cardinality(Granted) \in Nat /\ Total \in Nat
          /\ Total <= Times(Cardinality(Opened))
      BY GrantedIsFinite, TimesGrows, MoneyAssumption DEF MoneyAssumption
    <3>2. 0 <= Total * Cardinality(Granted)
      BY <3>1
    <3>3. 0 + Total <= Times(Cardinality(Opened))
      BY <3>1
    <3> QED
      BY <2>4, <3>2, <3>3 DEF CostIsBounded, Times
  <2> QED
    BY <2>1, <2>3, <2>5
<1> QED
  BY <1>3, <1>4, <1>5, <1>6, <1>7, OrderMoves

\* A cancellation is the first refund, and there is no dispute and nothing to
\* withdraw.
LEMMA CancellationKnows ==
  ASSUME IInv, PaidBeforeRecorded, RequestsKnow, DisputesShow, CostIsBounded, overtaken' = {},
         NEW r \in Requests, CommitCancellation(r)
  PROVE  RequestsKnow' /\ DisputesShow' /\ CostIsBounded'
<1> DEFINE q == request[r]
<1>1. /\ Done(r) /\ UNCHANGED <<disputes, settlement>>
      /\ status \in Waiting /\ refunds = {}
  BY CancellationWrites DEF At, RequestsKnow, Knows
<1>2. CASE UNCHANGED Rows
  BY <1>1, <1>2, ReadingKnows
<1>3. CASE /\ AddRefund(q.refundId, "CANCELLATION", q.amount) /\ ~Duplicate(q.refundId)
           /\ q.amount \in 0..Total /\ q.refundId \in Nat
           /\ status' = "CANCELLED" /\ Overtakes(r, "cancellation", Cancelling)
  <2>1. Cancelling \ {r} = {}
    <3>1. "cancellation" \in Handlers /\ overtaken \subseteq Handlers
      BY DEF Handlers, IInv, TypeOK
    <3> QED
      BY <1>3, <3>1, OvertakingShows
  <2>2. \A s \in Requests \ {r} : Knows(request[s], status, refunds, disputes)
                                    => Knows(request[s], status', refunds', disputes')
    <3>1. \A s \in Requests \ {r} : request[s].stage \notin {"cancel", "cancelled"}
      BY <2>1 DEF Cancelling, InStage
    <3> QED
      BY <1>1, <3>1 DEF Knows, Waiting, Reported
  <2>3. RequestsKnow'
    BY <1>1, <2>2, DoneKnows
  <2>4. /\ \A d \in DisputeIds : disputes[d] = "NONE"
        /\ Opened = {} /\ Opened' = {} /\ ~settlement.available
    BY <1>1 DEF DisputesShow, Waiting, Opened
  <2>5. DisputesShow'
    BY <1>1, <1>3, <2>4 DEF DisputesShow
  <2>6. Recorded' = 0 + q.amount
    <3>1. IsFiniteSet(refunds) /\ Recorded = 0
      BY <1>1, NothingRecorded
    <3> QED
      BY <1>3, <3>1, RowAdds
  <2>7. CostIsBounded'
    <3>1. Withdrawable' = 0
      BY <1>1, <2>4 DEF Withdrawable
    <3>2. Cardinality(Opened') = 0
      BY <2>4, FS_EmptySet
    <3>3. 0 + q.amount + 0 <= Total
      BY <1>3, MoneyAssumption DEF MoneyAssumption
    <3> QED
      BY <2>4, <2>6, <3>1, <3>2, <3>3 DEF CostIsBounded, Times
  <2> QED
    BY <2>3, <2>5, <2>7
<1> QED
  BY <1>2, <1>3, CancellationWrites

\* A dispute adds the price to what an order may cost, and freezes the settlement.
LEMMA OpeningKnows ==
  ASSUME IInv, PaidBeforeRecorded, RequestsKnow, DisputesShow, CostIsBounded, overtaken' = {},
         NEW r \in Requests, OpenDispute(r)
  PROVE  RequestsKnow' /\ DisputesShow' /\ CostIsBounded'
<1>1. /\ Done(r) /\ At(r, "open") /\ refunds' = refunds /\ status' = "DISPUTED"
      /\ settlement'.available = FALSE /\ Overtakes(r, "dispute", Opening)
  BY OpeningWrites
<1>2. PICK d \in DisputeIds :
        /\ disputes[d] = "NONE"
        /\ \A e \in DisputeIds : disputes'[e] = IF e = d THEN "OPEN" ELSE disputes[e]
  BY OpeningWrites
<1>3. status \in Reported /\ \A e \in DisputeIds : disputes[e] # "OPEN"
  BY <1>1 DEF At, RequestsKnow, Knows, DisputeStages
<1>4. Opening \ {r} = {}
  <2>1. "dispute" \in Handlers /\ overtaken \subseteq Handlers
    BY DEF Handlers, IInv, TypeOK
  <2> QED
    BY <1>1, <2>1, OvertakingShows
<1>5. RequestsKnow'
  <2>1. \A s \in Requests \ {r} : request[s].stage # "open"
    BY <1>4 DEF Opening, InStage
  <2>2. \A s \in Requests \ {r} : Knows(request[s], status, refunds, disputes)
                                    => Knows(request[s], status', refunds', disputes')
    BY <1>1, <1>3, <2>1 DEF Knows, Waiting, Reported
  <2> QED
    BY <1>1, <2>2, DoneKnows
<1>6. Opened' = Opened \cup {d} /\ d \notin Opened /\ Granted' = Granted
  BY <1>2 DEF Opened, Granted
<1>7. DisputesShow'
  BY <1>1, <1>2, <1>3, <1>6 DEF DisputesShow
<1>8. CostIsBounded'
  <2> DEFINE n == Cardinality(Opened)
  <2>1. n \in Nat /\ Cardinality(Opened \cup {d}) = n + 1
    BY <1>6, GrantedIsFinite, FS_AddElement
  <2>2. Recorded' = Recorded
    BY <1>1 DEF Recorded, Fen, Refund
  <2>3. Withdrawable' = 0
    BY <1>1 DEF Withdrawable
  <2>4. Recorded \in Nat /\ Withdrawable \in Nat /\ Total \in Nat
    BY AmountsAreNat DEF PaidBeforeRecorded
  <2>5. Recorded + 0 <= Times(n + 1)
    BY <2>1, <2>4, TimesGrows DEF CostIsBounded
  <2>6. Recorded <= Total * Cardinality(Granted)
    <3>1. CASE Opened # {}
      BY <3>1 DEF CostIsBounded
    <3>2. CASE Opened = {}
      <4>1. status # "CANCELLED"
        BY <1>3 DEF Reported
      <4>2. Recorded = 0
        BY <3>2, <4>1, NothingRecorded DEF DisputesShow
      <4>3. Cardinality(Granted) \in Nat
        BY GrantedIsFinite
      <4>4. 0 <= Total * Cardinality(Granted)
        BY <2>4, <4>3
      <4> QED
        BY <4>2, <4>4
    <3> QED
      BY <3>1, <3>2
  <2>7. Recorded' + Withdrawable' <= Times(Cardinality(Opened'))
    BY <1>6, <2>1, <2>2, <2>3, <2>5
  <2>8. Opened' # {} => Recorded' <= Total * Cardinality(Granted')
    BY <1>6, <2>2, <2>6
  <2> QED
    BY <2>7, <2>8 DEF CostIsBounded, Times
<1> QED
  BY <1>5, <1>7, <1>8

\* A ruling refunds a part of the price and leaves the rest to the provider; the
\* rulings before it cost the price each, at most.
LEMMA ResolutionKnows ==
  ASSUME IInv, PaidBeforeRecorded, RulingsStand, RequestsKnow, DisputesShow, CostIsBounded,
         overtaken' = {}, NEW r \in Requests, CommitResolution(r)
  PROVE  RequestsKnow' /\ DisputesShow' /\ CostIsBounded'
<1> DEFINE q == request[r]
<1>1. /\ Done(r) /\ q.amount \in 0..Total /\ q.refundId \in Nat
      /\ q.dispute \in DisputeIds /\ disputes[q.dispute] = "OPEN"
  BY ResolutionWrites DEF RulingsStand, At
<1>2. status = "DISPUTED" /\ ~settlement.available
  BY <1>1 DEF DisputesShow
<1>3. CASE UNCHANGED Rows
  BY <1>1, <1>3, ReadingKnows
<1>4. CASE /\ \A e \in DisputeIds :
                disputes'[e] = IF e = q.dispute THEN Outcome(q.amount) ELSE disputes[e]
           /\ status' = StatusAfter(q)
           /\ settlement' = IF Resettle(q) THEN Split(Remainder(q)) ELSE settlement
           /\ \/ q.amount = 0 /\ refunds' = refunds
              \/ /\ q.amount > 0 /\ ~Duplicate(q.refundId)
                 /\ AddRefund(q.refundId, "DISPUTE", q.amount)
  <2>1. /\ Outcome(q.amount) \notin {"NONE", "OPEN"}
        /\ Outcome(q.amount) \in {"RESOLVED_PARTIAL_REFUND", "RESOLVED_FULL_REFUND"}
             <=> q.amount > 0
    BY <1>1, MoneyAssumption DEF Outcome, MoneyAssumption
  <2>2. status' \in {"COMPLETED", "REFUNDED"}
    BY <1>4 DEF StatusAfter
  <2>3. \A e \in DisputeIds : disputes'[e] # "OPEN"
    BY <1>1, <1>4, <2>1 DEF DisputesShow
  <2>4. RequestsKnow'
    <3>1. \A s \in Requests \ {r} : Knows(request[s], status, refunds, disputes)
                                      => Knows(request[s], status', refunds', disputes')
      BY <1>2, <2>2, <2>3 DEF Knows, Waiting, Reported
    <3> QED
      BY <1>1, <3>1, DoneKnows
  <2>5. Opened' = Opened /\ q.dispute \in Opened
    BY <1>1, <1>4, <2>1 DEF Opened
  <2>6. settlement'.available =>
          settlement'.gross = Total - q.amount /\ status' = "COMPLETED"
    BY <1>2, <1>4 DEF Resettle, Split, Remainder, StatusAfter
  <2>7. DisputesShow'
    BY <2>2, <2>3, <2>5, <2>6 DEF DisputesShow
  <2>8. Recorded \in Nat /\ Total \in Nat /\ q.amount \in Nat /\ q.amount <= Total
    BY <1>1, AmountsAreNat DEF PaidBeforeRecorded
  <2>9. Withdrawable' <= Total - q.amount /\ Withdrawable' \in Int
    BY <2>6, <2>8 DEF Withdrawable
  <2> DEFINE n == Cardinality(Opened)
             m == Cardinality(Granted)
  <2>10. n \in Nat /\ m \in Nat /\ m + 1 <= n
    <3>1. Granted \cup {q.dispute} \in SUBSET Opened /\ q.dispute \notin Granted
      BY <1>1, <2>5 DEF Granted, Opened
    <3>2. Cardinality(Granted \cup {q.dispute}) = m + 1
      BY <3>1, GrantedIsFinite, FS_AddElement
    <3>3. Cardinality(Granted \cup {q.dispute}) <= n
      BY <3>1, GrantedIsFinite, FS_Subset
    <3> QED
      BY <3>2, <3>3, GrantedIsFinite
  <2>11. Recorded <= Total * m
    BY <2>5 DEF CostIsBounded
  <2> HIDE DEF n, m
  <2>12. Total * m + Total <= Times(n)
    <3>1. PICK k \in Nat : n = m + 1 + k
      <4>1. n - m - 1 \in Nat /\ n = m + 1 + (n - m - 1)
        BY <2>10
      <4> QED
        BY <4>1
    <3>2. Total * n = Total * m + Total + Total * k /\ Total * k \in Nat /\ Total * m \in Nat
      BY <2>8, <2>10, <3>1
    <3>3. Times(n) = Total * n
      BY <2>10, <3>1 DEF Times
    <3> QED
      BY <2>8, <3>2, <3>3
  <2>13. Total * m \in Nat /\ Times(n) \in Nat
    BY <2>8, <2>10, TimesGrows
  <2>14. CostIsBounded'
    <3>1. CASE q.amount = 0 /\ refunds' = refunds
      <4>1. Recorded' = Recorded
        BY <3>1 DEF Recorded, Fen, Refund
      <4>2. Granted' = Granted
        BY <1>1, <1>4, <2>1, <3>1 DEF Granted
      <4>3. Recorded + Withdrawable' <= Times(n)
        BY <2>8, <2>9, <2>11, <2>12, <2>13
      <4> QED
        BY <2>5, <2>11, <4>1, <4>2, <4>3 DEF CostIsBounded, Times, n, m
    <3>2. CASE /\ q.amount > 0 /\ ~Duplicate(q.refundId)
               /\ AddRefund(q.refundId, "DISPUTE", q.amount)
      <4>1. Recorded' = Recorded + q.amount
        BY <1>1, <3>2, RowAdds DEF PaidBeforeRecorded
      <4>2. Granted' = Granted \cup {q.dispute} /\ q.dispute \notin Granted
        BY <1>1, <1>4, <2>1, <3>2 DEF Granted
      <4>3. Cardinality(Granted \cup {q.dispute}) = m + 1
        BY <4>2, GrantedIsFinite, FS_AddElement DEF m
      <4>4. Recorded + q.amount + Withdrawable' <= Times(n)
        BY <2>8, <2>9, <2>11, <2>12, <2>13
      <4>5. Total * (m + 1) = Total * m + Total
        BY <2>8, <2>10
      <4>6. Recorded + q.amount <= Total * (m + 1)
        BY <2>8, <2>11, <2>13, <4>5
      <4> QED
        BY <2>5, <4>1, <4>2, <4>3, <4>4, <4>6 DEF CostIsBounded, Times, n
    <3> QED
      BY <1>4, <3>1, <3>2
  <2> QED
    BY <2>4, <2>7, <2>14
<1> QED
  BY <1>3, <1>4, ResolutionWrites

LEMMA OrderStep ==
  IInv /\ PaidBeforeRecorded /\ RulingInv /\ OrderInv /\ [Next]_vars => OrderInv'
<1> SUFFICES ASSUME IInv, PaidBeforeRecorded, RulingInv, OrderInv, [Next]_vars, overtaken' = {}
             PROVE  RequestsKnow' /\ DisputesShow' /\ CostIsBounded'
  BY DEF OrderInv
<1>1. overtaken = {}
  BY HistoryGrows
<1>2. RequestsKnow /\ DisputesShow /\ CostIsBounded /\ RulingsStand
  BY <1>1 DEF OrderInv, RulingInv
<1>3. CASE UNCHANGED vars
  <2>1. UNCHANGED Rows /\ request' = request
    BY <1>3 DEF vars, orderVars, moneyVars, Rows
  <2>2. RequestsKnow'
    BY <1>2, <2>1 DEF RequestsKnow, Rows
  <2> QED
    BY <1>2, <2>1, <2>2, MoneyStays DEF Rows
<1>4. ASSUME NEW r \in Requests, Arrive(r) \/ Abort(r)
      PROVE  RequestsKnow' /\ DisputesShow' /\ CostIsBounded'
  BY <1>2, <1>4, ArrivalKnows, GoingOnKnows
<1>5. ASSUME NEW r \in Requests, Proceed(r)
      PROVE  RequestsKnow' /\ DisputesShow' /\ CostIsBounded'
  BY <1>2, <1>5, MovesKnow, GoingOnKnows, CancellationKnows, OpeningKnows, ResolutionKnows
     DEF Proceed
<1>6. CASE Assign \/ FailDispatch \/ ConfirmByOwner \/ AutoConfirm \/ Age
  BY <1>2, <1>6, MovesKnow
<1> QED
  BY <1>3, <1>4, <1>5, <1>6 DEF Next

LEMMA OrderInit == Init => OrderInv
<1> SUFFICES ASSUME Init PROVE RequestsKnow /\ DisputesShow /\ CostIsBounded
  BY DEF OrderInv
<1>1. RequestsKnow
  BY IdleIsSound DEF Init, RequestsKnow, Knows, DisputeStages
<1>2. refunds = {} /\ ~settlement.available /\ Opened = {}
  BY DEF Init, NoSettlement, Opened
<1>3. DisputesShow
  BY <1>2 DEF Init, DisputesShow
<1>4. Recorded = 0 /\ Withdrawable = 0 /\ Cardinality(Opened) = 0
  BY <1>2, NothingRecorded, FS_EmptySet DEF Withdrawable
<1>5. CostIsBounded
  BY <1>2, <1>4, MoneyAssumption DEF CostIsBounded, Times, MoneyAssumption
<1> QED
  BY <1>1, <1>3, <1>5

\* However many requests overlap, are refused or die, an open dispute keeps its
\* order DISPUTED and the settlement frozen until a handler that writes by id is
\* overtaken (openDispute, resolveDispute, requestCancellation).
THEOREM OpenDisputesFreeze == Spec => []OpenDisputeFreezes
<1> DEFINE Inv == IInv /\ PaidBeforeRecorded /\ RulingInv /\ OrderInv
<1>1. Init => Inv
  BY InitSound, InitPays, RulingInit, OrderInit
<1>2. Inv /\ [Next]_vars => Inv'
  BY InvIsInductive, PaidIsInductive, RulingStep, OrderStep
<1>3. Inv => OpenDisputeFreezes
  BY DEF OrderInv, DisputesShow, OpenDisputeFreezes, DisputeIsOpen
<1> QED
  BY <1>1, <1>2, <1>3, PTL DEF Spec

\* However many requests overlap, are refused or die, and however many disputes
\* follow each other, refunds and what the provider may withdraw cost the price
\* once for each dispute, and once without any, until a handler is overtaken
\* (requestCancellation, confirm, openDispute, resolveDispute).
THEOREM DisputesCostThePrice == Spec => []DisputesBoundTheCost
<1> DEFINE Inv == IInv /\ PaidBeforeRecorded /\ RulingInv /\ OrderInv
<1>1. Init => Inv
  BY InitSound, InitPays, RulingInit, OrderInit
<1>2. Inv /\ [Next]_vars => Inv'
  BY InvIsInductive, PaidIsInductive, RulingStep, OrderStep
<1>3. Inv => DisputesBoundTheCost
  <2> SUFFICES ASSUME IInv, PaidBeforeRecorded, OrderInv, overtaken = {}
               PROVE  Refunded + Withdrawable <= Times(Cardinality(Opened))
    BY DEF DisputesBoundTheCost
  <2>1. Refunded = Recorded
    BY RefundedIsRecorded DEF PaidBeforeRecorded, IInv, TypeOK
  <2> QED
    BY <2>1 DEF OrderInv, CostIsBounded
<1> QED
  BY <1>1, <1>2, <1>3, PTL DEF Spec
=============================================================================
