----------------------------- MODULE OrderMoney -----------------------------
(***************************************************************************)
(* One paid order, its money and its disputes: RefundService,              *)
(* SettlementService, DisputeService, and the FulfillmentService steps     *)
(* that move the order between them.  Every handler touches the rows of    *)
(* one order only, so one order is modelled.                               *)
(*                                                                         *)
(* A request runs in a slot: what it read is kept in the slot until the    *)
(* transaction that writes.  cancel, openDispute and resolveDispute write  *)
(* the order by id alone; check-in and report submission compare status    *)
(* and version; confirmation is one Serializable transaction.              *)
(*                                                                         *)
(* A definition X_Slip, written before X, is X with a plausible slip: the  *)
(* properties are tested by putting it in the place of X.                  *)
(***************************************************************************)
EXTENDS Integers, FiniteSets, FiniteSetsExt

CONSTANTS Requests,       \* slots for requests the API is serving
          Gateways,       \* the gateways of the deployments considered
          Total,          \* Order.totalFen
          LateFeeBps,     \* config.lateCancellationFeeBps
          CommissionBps,  \* config.commissionBps
          Amounts,        \* the refundFen values operators enter
          MaxDisputes,    \* bound: dispute rows
          MaxCalls,       \* bound: refunds asked of the gateway
          MaxAborts       \* bound: requests that die half-way

ASSUME MoneyAssumption ==
  /\ Gateways \subseteq {"fake", "wechat", "pilot-manual"}
  /\ Total \in Nat \ {0}
  /\ LateFeeBps \in 0..10000
  /\ CommissionBps \in 1500..2500
  /\ Amounts \subseteq Int
  /\ MaxDisputes \in Nat /\ MaxCalls \in Nat /\ MaxAborts \in Nat

VARIABLES status,      \* Order.status
          version,     \* Order.version
          assigned,    \* Order.assignedProviderId is set
          payment,     \* Payment.status
          refunds,     \* the Refund rows
          settlement,  \* the Settlement row, if any
          disputes,    \* disputes[d]: status of the d-th Dispute row
          submitted,   \* FulfillmentReport.submittedAt is set
          aged,        \* ... and autoConfirmHours have passed since
          paidBack,    \* what the gateway has refunded, in fen
          calls,       \* refunds asked of the gateway
          request,     \* what each slot is doing
          aborts,
          gateway,     \* the payment gateway the process was started with
          overtaken    \* history, which no action reads: the kinds of handlers of
                       \* which one was overtaken, see Overtakes

orderVars == <<status, version, assigned>>
moneyVars == <<payment, refunds, settlement, paidBack, calls>>
serviceVars == <<submitted, aged>>
vars == <<orderVars, moneyVars, disputes, serviceVars, request, aborts, gateway, overtaken>>

OrderStatus == {"PENDING_DISPATCH", "PENDING_SERVICE", "IN_SERVICE", "PENDING_CONFIRMATION",
                "COMPLETED", "CANCELLED", "DISPATCH_FAILED", "DISPUTED", "REFUNDED"}
DisputeStatus == {"OPEN", "RESOLVED_NO_REFUND", "RESOLVED_PARTIAL_REFUND", "RESOLVED_FULL_REFUND"}
DisputeIds == 1..MaxDisputes
Refund == [id : Nat, kind : {"CANCELLATION", "DISPUTE"}, amount : 0..Total]
NoSettlement == [exists |-> FALSE, gross |-> 0, commission |-> 0, provider |-> 0,
                 available |-> FALSE]
Settlement == [exists : BOOLEAN, gross : 0..Total, commission : 0..Total, provider : 0..Total,
               available : BOOLEAN]
Stage == {"idle", "checkin", "submit", "cancel", "cancelled", "opening", "open",
          "resolve", "resolved"}
Request == [stage : Stage, version : Nat, assigned : BOOLEAN, settled : BOOLEAN,
            dispute : 0..MaxDisputes, amount : 0..Total, refundId : Nat]
\* The handlers that write the order by its id alone.
Handlers == {"cancellation", "dispute", "ruling"}
Idle == [stage |-> "idle", version |-> 0, assigned |-> FALSE, settled |-> FALSE,
         dispute |-> 0, amount |-> 0, refundId |-> 0]

TypeOK ==
  /\ status \in OrderStatus /\ version \in Nat /\ assigned \in BOOLEAN
  /\ payment \in {"SUCCEEDED", "PARTIALLY_REFUNDED", "REFUNDED"}
  /\ refunds \subseteq Refund
  /\ settlement \in Settlement
  /\ disputes \in [DisputeIds -> DisputeStatus \cup {"NONE"}]
  /\ submitted \in BOOLEAN /\ aged \in BOOLEAN
  /\ paidBack \in Nat /\ calls \in 0..MaxCalls
  /\ request \in [Requests -> Request]
  /\ aborts \in 0..MaxAborts
  /\ gateway \in Gateways
  /\ overtaken \subseteq Handlers

\* The fee is confirmed (payment SUCCEEDED, order PENDING_DISPATCH, version 1).
Init ==
  /\ status = "PENDING_DISPATCH" /\ version = 1 /\ assigned = FALSE
  /\ payment = "SUCCEEDED" /\ refunds = {} /\ settlement = NoSettlement
  /\ disputes = [d \in DisputeIds |-> "NONE"]
  /\ submitted = FALSE /\ aged = FALSE
  /\ paidBack = 0 /\ calls = 0
  /\ request = [r \in Requests |-> Idle]
  /\ aborts = 0
  /\ gateway \in Gateways
  /\ overtaken = {}

-----------------------------------------------------------------------------
At(r, stage) == request[r].stage = stage
Slot(r, q) == request' = [request EXCEPT ![r] = q]
Done(r) == Slot(r, Idle)

\* A write of the order row: every one of them increments the version.
MoveTo(s) == status' = s /\ version' = version + 1

\* History: r writes what others, who will not look again, have read already.
Overtakes(r, handler, others) ==
  overtaken' = IF others \ {r} = {} THEN overtaken ELSE overtaken \cup {handler}

InStage(stages) == {s \in Requests : request[s].stage \in stages}
Cancelling == InStage({"cancel", "cancelled"})
Opening == InStage({"open"})
Ruling(d) == {s \in InStage({"resolve", "resolved"}) : request[s].dispute = d}

\* calculateSettlement of packages/domain.
Split_Slip(gross) ==
  [exists |-> TRUE, gross |-> gross, commission |-> (gross * CommissionBps) \div 10000,
   provider |-> (gross * (10000 - CommissionBps)) \div 10000, available |-> TRUE]
Split(gross) ==
  [exists |-> TRUE, gross |-> gross, commission |-> (gross * CommissionBps) \div 10000,
   provider |-> gross - (gross * CommissionBps) \div 10000, available |-> TRUE]

\* The row id a gateway refund gets: the fake gateway derives it from the
\* amount, WeChat's client numbers its refunds.
NewRefundId(amount) == IF gateway = "fake" THEN amount ELSE calls + 1

\* gateway.refund: pilot-manual throws MANUAL_REFUND_REQUIRED.
CallGateway(r, amount, next) ==
  \/ /\ gateway = "pilot-manual"
     /\ Done(r)
     /\ UNCHANGED <<paidBack, calls>>
  \/ /\ gateway # "pilot-manual"
     /\ calls < MaxCalls
     /\ calls' = calls + 1
     /\ paidBack' = paidBack + amount
     /\ Slot(r, [request[r] EXCEPT !.stage = next, !.amount = amount,
                                   !.refundId = NewRefundId(amount)])

\* refund.create: providerRefundId is unique.
Duplicate(id) == \E x \in refunds : x.id = id
AddRefund_Slip(id, kind, amount) ==
  refunds' = refunds \cup {[id |-> id, kind |-> kind, amount |-> Total]}
AddRefund(id, kind, amount) ==
  refunds' = refunds \cup {[id |-> id, kind |-> kind, amount |-> amount]}
PaymentAfter(amount) == IF amount = Total THEN "REFUNDED" ELSE "PARTIALLY_REFUNDED"

-----------------------------------------------------------------------------
(* Dispatch, as far as the order row shows it: one transaction each.       *)

Assign ==
  /\ status = "PENDING_DISPATCH"
  /\ MoveTo("PENDING_SERVICE") /\ assigned' = TRUE
  /\ UNCHANGED <<moneyVars, disputes, serviceVars, request, aborts, gateway, overtaken>>

FailDispatch ==
  /\ status = "PENDING_DISPATCH"
  /\ MoveTo("DISPATCH_FAILED")
  /\ UNCHANGED <<assigned, moneyVars, disputes, serviceVars, request, aborts, gateway, overtaken>>

-----------------------------------------------------------------------------
(* FulfillmentService.checkIn and submitReport: read, then compare status  *)
(* and version in the transaction.                                         *)

ReadOrder(r, from, next) ==
  /\ At(r, "idle")
  /\ status = from /\ assigned
  /\ Slot(r, [Idle EXCEPT !.stage = next, !.version = version])
  /\ UNCHANGED <<orderVars, moneyVars, disputes, serviceVars, aborts, gateway, overtaken>>

RequestCheckIn(r) == ReadOrder(r, "PENDING_SERVICE", "checkin")
RequestSubmit(r) == ReadOrder(r, "IN_SERVICE", "submit")

Matches(r, from) == status = from /\ version = request[r].version

CheckIn(r) ==
  /\ At(r, "checkin")
  /\ \/ /\ Matches(r, "PENDING_SERVICE")
        /\ MoveTo("IN_SERVICE")
        /\ Overtakes(r, "cancellation", Cancelling)
     \/ /\ ~Matches(r, "PENDING_SERVICE")
        /\ UNCHANGED <<status, version, overtaken>>
  /\ Done(r)
  /\ UNCHANGED <<assigned, moneyVars, disputes, serviceVars, aborts, gateway>>

SubmitReport(r) ==
  /\ At(r, "submit")
  /\ \/ /\ Matches(r, "IN_SERVICE")
        /\ MoveTo("PENDING_CONFIRMATION")
        /\ submitted' = TRUE
     \/ /\ ~Matches(r, "IN_SERVICE")
        /\ UNCHANGED <<status, version, submitted>>
  /\ Done(r)
  /\ UNCHANGED <<assigned, moneyVars, disputes, aged, aborts, gateway, overtaken>>

-----------------------------------------------------------------------------
(* RefundService.requestCancellation: read, refund at the gateway, write.  *)
(* The order and the earlier refund are read by two statements; reading    *)
(* them at once loses only runs that end without a write.                  *)

MayCancel == payment = "SUCCEEDED" /\ status \in {"PENDING_DISPATCH", "PENDING_SERVICE"}

LateFee(wasAssigned) == IF wasAssigned THEN (Total * LateFeeBps) \div 10000 ELSE 0

RequestCancellation(r) ==
  /\ At(r, "idle")
  /\ MayCancel
  /\ ~\E x \in refunds : x.kind = "CANCELLATION"
  /\ Slot(r, [Idle EXCEPT !.stage = "cancel", !.assigned = assigned])
  /\ UNCHANGED <<orderVars, moneyVars, disputes, serviceVars, aborts, gateway, overtaken>>

RefundCancellation(r) ==
  /\ At(r, "cancel")
  /\ CallGateway(r, Total - LateFee(request[r].assigned), "cancelled")
  /\ UNCHANGED <<orderVars, payment, refunds, settlement, disputes, serviceVars, aborts, gateway, overtaken>>

CommitCancellation(r) ==
  /\ At(r, "cancelled")
  /\ LET q == request[r]
     IN  \/ /\ Duplicate(q.refundId)
            /\ UNCHANGED <<status, version, payment, refunds, overtaken>>
         \/ /\ ~Duplicate(q.refundId)
            /\ AddRefund(q.refundId, "CANCELLATION", q.amount)
            /\ payment' = PaymentAfter(q.amount)
            /\ MoveTo("CANCELLED")
            /\ Overtakes(r, "cancellation", Cancelling)
  /\ Done(r)
  /\ UNCHANGED <<assigned, settlement, paidBack, calls, disputes, serviceVars, aborts, gateway>>

-----------------------------------------------------------------------------
(* SettlementService.confirm, for the owner and for the sweep of reports   *)
(* older than autoConfirmHours.                                            *)

MayConfirm ==
  /\ status = "PENDING_CONFIRMATION" /\ assigned
  /\ ~\E d \in DisputeIds : disputes[d] = "OPEN"

Confirm ==
  /\ MayConfirm
  /\ ~settlement.exists                    \* settlement.create: orderId is unique
  /\ MoveTo("COMPLETED")
  /\ settlement' = Split(Total)
  /\ UNCHANGED <<assigned, payment, refunds, paidBack, calls, disputes, serviceVars,
                 request, aborts, gateway, overtaken>>

ConfirmByOwner == Confirm
AutoConfirm == aged /\ Confirm

\* autoConfirmHours pass after the report was submitted.
Age ==
  /\ submitted /\ ~aged
  /\ aged' = TRUE
  /\ UNCHANGED <<orderVars, moneyVars, disputes, submitted, request, aborts, gateway, overtaken>>

-----------------------------------------------------------------------------
(* DisputeService.openDispute: read the order, look for an open dispute,   *)
(* then one transaction that writes by id.                                 *)

DisputeIsOpen == \E d \in DisputeIds : disputes[d] = "OPEN"
MayDispute == status \in {"PENDING_CONFIRMATION", "COMPLETED"}

RequestDispute(r) ==
  /\ At(r, "idle")
  /\ MayDispute
  /\ Slot(r, [Idle EXCEPT !.stage = "opening"])
  /\ UNCHANGED <<orderVars, moneyVars, disputes, serviceVars, aborts, gateway, overtaken>>

FindOpenDispute(r) ==
  /\ At(r, "opening")
  /\ IF DisputeIsOpen
     THEN Done(r)
     ELSE Slot(r, [request[r] EXCEPT !.stage = "open"])
  /\ UNCHANGED <<orderVars, moneyVars, disputes, serviceVars, aborts, gateway, overtaken>>

\* The next free dispute row; the settlement, if any, is frozen.
NewDispute(d) == disputes[d] = "NONE" /\ \A e \in 1..(d - 1) : disputes[e] # "NONE"
Freeze_Slip(row) == row
Freeze(row) == [row EXCEPT !.available = FALSE]

OpenDispute(r) ==
  /\ At(r, "open")
  /\ \E d \in DisputeIds :
       /\ NewDispute(d)
       /\ disputes' = [disputes EXCEPT ![d] = "OPEN"]
  /\ MoveTo("DISPUTED")
  /\ settlement' = Freeze(settlement)
  /\ Overtakes(r, "dispute", Opening)
  /\ Done(r)
  /\ UNCHANGED <<assigned, payment, refunds, paidBack, calls, serviceVars, aborts, gateway>>

-----------------------------------------------------------------------------
(* DisputeService.resolveDispute: read dispute, order, payment and         *)
(* settlement, refund at the gateway, then one transaction by id.          *)

ValidAmount(a) == a >= 0 /\ a <= Total

Outcome(amount) ==
  CASE amount = 0 -> "RESOLVED_NO_REFUND"
    [] amount = Total -> "RESOLVED_FULL_REFUND"
    [] OTHER -> "RESOLVED_PARTIAL_REFUND"

Undecided(d) == disputes[d] = "OPEN"

RequestResolution(r, d, amount) ==
  /\ At(r, "idle")
  /\ Undecided(d)
  /\ ValidAmount(amount)
  /\ Slot(r, [Idle EXCEPT !.stage = IF amount > 0 THEN "resolve" ELSE "resolved",
                          !.dispute = d, !.amount = amount, !.settled = settlement.exists])
  /\ UNCHANGED <<orderVars, moneyVars, disputes, serviceVars, aborts, gateway, overtaken>>

RefundDispute(r) ==
  /\ At(r, "resolve")
  /\ CallGateway(r, request[r].amount, "resolved")
  /\ UNCHANGED <<orderVars, payment, refunds, settlement, disputes, serviceVars, aborts, gateway, overtaken>>

\* What is left of the order's total for the provider.
Remainder_Slip(q) == Total
Remainder(q) == Total - q.amount

\* The settlement is recomputed only if the read found one, and never on a full refund.
Resettle(q) == q.settled /\ Outcome(q.amount) # "RESOLVED_FULL_REFUND"
StatusAfter(q) == IF Outcome(q.amount) = "RESOLVED_FULL_REFUND" THEN "REFUNDED" ELSE "COMPLETED"

RecordRefund_Slip(q) ==
  \/ /\ q.amount \in {0, Total}
     /\ UNCHANGED <<payment, refunds>>
  \/ /\ q.amount \notin {0, Total}
     /\ AddRefund(q.refundId, "DISPUTE", q.amount)
     /\ payment' = PaymentAfter(q.amount)

RecordRefund(q) ==
  \/ /\ q.amount = 0
     /\ UNCHANGED <<payment, refunds>>
  \/ /\ q.amount > 0
     /\ AddRefund(q.refundId, "DISPUTE", q.amount)
     /\ payment' = PaymentAfter(q.amount)

CommitResolution(r) ==
  /\ At(r, "resolved")
  /\ LET q == request[r]
     IN  \/ /\ q.amount > 0 /\ Duplicate(q.refundId)
            /\ UNCHANGED <<status, version, payment, refunds, settlement, disputes, overtaken>>
         \/ /\ q.amount = 0 \/ ~Duplicate(q.refundId)
            /\ RecordRefund(q)
            /\ settlement' = IF Resettle(q) THEN Split(Remainder(q)) ELSE settlement
            /\ disputes' = [disputes EXCEPT ![q.dispute] = Outcome(q.amount)]
            /\ MoveTo(StatusAfter(q))
            /\ Overtakes(r, "ruling", Ruling(q.dispute))
  /\ Done(r)
  /\ UNCHANGED <<assigned, paidBack, calls, serviceVars, aborts, gateway>>

-----------------------------------------------------------------------------
\* A request dies: the database connection is lost or the process ends.
Abort(r) ==
  /\ aborts < MaxAborts
  /\ ~At(r, "idle")
  /\ Done(r)
  /\ aborts' = aborts + 1
  /\ UNCHANGED <<orderVars, moneyVars, disputes, serviceVars, gateway, overtaken>>

Arrive(r) ==
  \/ RequestCheckIn(r) \/ RequestSubmit(r) \/ RequestCancellation(r) \/ RequestDispute(r)
  \/ \E d \in DisputeIds, amount \in Amounts : RequestResolution(r, d, amount)

Proceed(r) ==
  \/ CheckIn(r) \/ SubmitReport(r)
  \/ RefundCancellation(r) \/ CommitCancellation(r)
  \/ FindOpenDispute(r) \/ OpenDispute(r)
  \/ RefundDispute(r) \/ CommitResolution(r)

Next ==
  \/ \E r \in Requests : Arrive(r) \/ Proceed(r) \/ Abort(r)
  \/ Assign \/ FailDispatch \/ ConfirmByOwner \/ AutoConfirm \/ Age

Spec == Init /\ [][Next]_vars

-----------------------------------------------------------------------------
(* Properties that hold whatever the requests interleave to.               *)

Refunded == MapThenSumSet(LAMBDA x : x.amount, refunds)

StatusShowsRefunds ==
  /\ payment = "SUCCEEDED" <=> refunds = {}
  /\ status \in {"IN_SERVICE", "PENDING_CONFIRMATION"} => refunds = {}
  /\ payment = "REFUNDED" => \E x \in refunds : x.amount = Total
  /\ status = "REFUNDED" => \E x \in refunds : x.kind = "DISPUTE" /\ x.amount = Total

\* The status of the order, the payment row, the refund rows and the money the
\* gateway paid back tell one story: a recorded refund shows on the payment and
\* was paid; a payment that is REFUNDED has a row of the total, and an order a
\* row of the total that belongs to a dispute (PaymentAfter, Outcome).  No visit
\* starts, or is reported, once money went back: checkIn and submitReport compare
\* the status they read.
RefundsAgree == StatusShowsRefunds /\ Refunded <= paidBack

\* Only a service that was assigned and reported is completed, disputed, paid back
\* after a dispute, or settled: no shortcut leads there from dispatch or a running
\* visit.  A settlement never promises more than the order cost, and splits to
\* the fen.
SettlementIsSound ==
  /\ status \in {"COMPLETED", "DISPUTED", "REFUNDED"} \/ settlement.exists => assigned /\ submitted
  /\ settlement.exists =>
       /\ settlement.commission + settlement.provider = settlement.gross
       /\ settlement.gross <= Total

-----------------------------------------------------------------------------
(* Properties that hold, however many requests overlap, as long as no        *)
(* request writes what another one read and will not look at again.          *)

\* An open dispute freezes the settlement and keeps the order DISPUTED: no visit,
\* confirmation, cancellation, ruling or second dispute gets past what
\* openDispute wrote, except one that was overtaken: a cancellation by a check-in
\* or another cancellation, a dispute or a ruling by another.
OpenDisputeFreezes ==
  overtaken = {} /\ DisputeIsOpen => status = "DISPUTED" /\ ~settlement.available

\* Every ruling that grants money has its refund row, and no other ruling has
\* one, whatever overlaps, is refused by the gateway or dies: only two rulings on
\* one dispute at the same time part the two.
Granted == {d \in DisputeIds : disputes[d] \in {"RESOLVED_PARTIAL_REFUND", "RESOLVED_FULL_REFUND"}}
RulingsMatchRefunds ==
  "ruling" \notin overtaken =>
    Cardinality({x \in refunds : x.kind = "DISPUTE"}) = Cardinality(Granted)

\* What is refunded and what the provider may withdraw stay within the price for
\* an order without a dispute or with one, and each further dispute can cost the
\* price once more: a ruling knows nothing of the refunds of earlier ones.
\* Nothing else, overlap, crash or refusal, costs anything.
Opened == {d \in DisputeIds : disputes[d] # "NONE"}
Withdrawable == IF settlement.available THEN settlement.gross ELSE 0
Times(n) == IF n = 0 THEN Total ELSE Total * n
DisputesBoundTheCost ==
  overtaken = {} => Refunded + Withdrawable <= Times(Cardinality(Opened))

-----------------------------------------------------------------------------
(* Properties the code does not have.                                      *)

\* A service that has started is no longer cancelled.
CancelledBeforeService ==
  [][status' = "CANCELLED" =>
       status \notin {"IN_SERVICE", "PENDING_CONFIRMATION", "COMPLETED", "DISPUTED", "REFUNDED"}]_vars

\* A completed order has the settlement that pays its provider.
CompletedIsSettled == status = "COMPLETED" => settlement.exists

=============================================================================
