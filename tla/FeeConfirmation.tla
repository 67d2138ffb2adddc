-------------------------- MODULE FeeConfirmation --------------------------
(***************************************************************************)
(* From PENDING_PAYMENT to PENDING_DISPATCH: the fee of an order is        *)
(* confirmed by an administrator under an idempotency key                  *)
(* (ManualFeeService.confirm) or by a webhook under an event id            *)
(* (PaymentService.handleWebhook), whichever gateway the process has.      *)
(* Calls are repeated, run at once, and name any order; a call that ends   *)
(* without a write may be one that died.                                   *)
(*                                                                         *)
(* Transactions are Read Committed: what they read may be old when they    *)
(* write, and a write sees the row as it is.                               *)
(*                                                                         *)
(* A definition X_Slip, written before X, is X with a plausible slip: the  *)
(* properties are tested by putting it in the place of X.                  *)
(***************************************************************************)
EXTENDS Integers

CONSTANTS Orders,     \* orders
          Calls,      \* slots for calls of confirm or of the webhook
          FeeKeys,    \* idempotency keys and event ids
          NoKey,
          Gateways    \* the payment gateways of the deployments considered

ASSUME FeeAssumption ==
  /\ NoKey \notin FeeKeys
  /\ Gateways \subseteq {"fake", "pilot-manual"}

VARIABLES gateway,   \* the payment gateway of the process
          fees,      \* the Order and the Payment row of an order
          call,      \* what each call is doing
          told       \* <<order, key>> of the calls answered with success

feeVars == <<gateway, fees, call, told>>

NotYet == "NONE"
FeeStatus == {NotYet, "PENDING_PAYMENT", "PENDING_DISPATCH", "PENDING_SERVICE"}
Fee == [status : FeeStatus,                              \* Order.status
        version : Nat,                                   \* Order.version
        payment : {NotYet, "CREATED", "SUCCEEDED"},      \* Payment.status
        key : FeeKeys \cup {NoKey}]                      \* manualConfirmationKey, providerEventId
Unopened == [status |-> NotYet, version |-> 0, payment |-> NotYet, key |-> NoKey]
CallStage == {"idle", "keyed", "read", "write"}
Call == [stage : CallStage, order : Orders, key : FeeKeys, version : Nat]
FreeSlot == [stage |-> "idle"]

FeeTypeOK ==
  /\ gateway \in Gateways
  /\ fees \in [Orders -> Fee]
  /\ call \in [Calls -> Call \cup {FreeSlot}]
  /\ told \subseteq Orders \X FeeKeys

FeeInit ==
  /\ gateway \in Gateways
  /\ fees = [o \in Orders |-> Unopened]
  /\ call = [c \in Calls |-> FreeSlot]
  /\ told = {}

-----------------------------------------------------------------------------
\* OrderService.create writes the order with its payment.
Open(o) ==
  /\ fees[o].status = NotYet
  /\ fees' = [fees EXCEPT ![o] = [status |-> "PENDING_PAYMENT", version |-> 0,
                                  payment |-> "CREATED", key |-> NoKey]]
  /\ UNCHANGED <<gateway, call, told>>

\* A candidate accepts: dispatch moves the order on.
Accept(o) ==
  /\ fees[o].status = "PENDING_DISPATCH"
  /\ fees' = [fees EXCEPT ![o].status = "PENDING_SERVICE", ![o].version = @ + 1]
  /\ UNCHANGED <<gateway, call, told>>

-----------------------------------------------------------------------------
Now(c, stage) == call[c].stage = stage
GoOn(c, stage) == call' = [call EXCEPT ![c].stage = stage]
End(c) == call' = [call EXCEPT ![c] = FreeSlot]

Taken(f) == \E o \in Orders : fees[o].key = f
Confirmed(o, f) == fees[o].key = f /\ fees[o].payment = "SUCCEEDED"
Unpaid(o) == fees[o].payment = "CREATED" /\ fees[o].status = "PENDING_PAYMENT"
\* A replay is answered with success if the order has what it asks for.
ReplayOf(o, f) == IF Confirmed(o, f) THEN told' = told \cup {<<o, f>>} ELSE UNCHANGED told

\* Payment and order in one transaction.
Pay(o, f) ==
  /\ fees' = [fees EXCEPT ![o] = [status |-> "PENDING_DISPATCH", version |-> @.version + 1,
                                  payment |-> "SUCCEEDED", key |-> f]]
  /\ told' = told \cup {<<o, f>>}

Receive(c, o, f) ==
  /\ Now(c, "idle")
  /\ fees[o].status # NotYet
  /\ call' = [call EXCEPT ![c] = [stage |-> "keyed", order |-> o, key |-> f, version |-> 0]]
  /\ UNCHANGED <<gateway, fees, told>>

-----------------------------------------------------------------------------
(* ManualFeeService.confirm.                                               *)

\* A key that has confirmed something answers for its own order only.
LookUpKey(c) ==
  /\ gateway = "pilot-manual" /\ Now(c, "keyed")
  /\ IF Taken(call[c].key) THEN End(c) ELSE GoOn(c, "read")
  /\ ReplayOf(call[c].order, call[c].key)
  /\ UNCHANGED <<gateway, fees>>

\* The order's version is kept for the write.
ReadPayment(c) ==
  /\ gateway = "pilot-manual" /\ Now(c, "read")
  /\ IF Unpaid(call[c].order)
     THEN call' = [call EXCEPT ![c].stage = "write", ![c].version = fees[call[c].order].version]
     ELSE End(c)                                             \* MANUAL_FEE_CONFLICT
  /\ UNCHANGED <<gateway, fees, told>>

\* The conditional updates.  If the payment has changed, or the key is taken
\* by now (P2002), one more look tells whether this was a replay.
ConfirmFee(c) ==
  /\ gateway = "pilot-manual" /\ Now(c, "write")
  /\ LET o == call[c].order f == call[c].key IN
       IF Unpaid(o) /\ ~Taken(f) /\ fees[o].version = call[c].version
       THEN Pay(o, f)
       ELSE ReplayOf(o, f) /\ UNCHANGED fees
  /\ End(c)
  /\ UNCHANGED gateway

-----------------------------------------------------------------------------
(* PaymentService.handleWebhook: its checks ...                            *)

VerifyEvent(c) ==
  /\ gateway = "fake" /\ Now(c, "keyed")
  /\ LET o == call[c].order IN
       /\ IF Unpaid(o)
          THEN call' = [call EXCEPT ![c].stage = "write", ![c].version = fees[o].version]
          ELSE End(c)
       /\ ReplayOf(o, call[c].key)
  /\ UNCHANGED <<gateway, fees>>

\* ... and its transaction: the payment is written by id, the order if it has
\* the version that was read; providerEventId is unique.
ApplyEvent_Slip(c) ==
  /\ gateway = "fake" /\ Now(c, "write")
  /\ LET o == call[c].order f == call[c].key IN
       IF ~\E p \in Orders \ {o} : fees[p].key = f
       THEN Pay(o, f)
       ELSE UNCHANGED <<fees, told>>
  /\ End(c)
  /\ UNCHANGED gateway
ApplyEvent(c) ==
  /\ gateway = "fake" /\ Now(c, "write")
  /\ LET o == call[c].order f == call[c].key IN
       IF fees[o].version = call[c].version /\ ~\E p \in Orders \ {o} : fees[p].key = f
       THEN Pay(o, f)
       ELSE UNCHANGED <<fees, told>>
  /\ End(c)
  /\ UNCHANGED gateway

-----------------------------------------------------------------------------
CallStep(c) == \/ LookUpKey(c) \/ ReadPayment(c) \/ ConfirmFee(c)
               \/ VerifyEvent(c) \/ ApplyEvent(c)

FeeNext ==
  \/ \E o \in Orders : Open(o) \/ Accept(o)
  \/ \E c \in Calls, o \in Orders, f \in FeeKeys : Receive(c, o, f)
  \/ \E c \in Calls : CallStep(c)

FeeSpec == FeeInit /\ [][FeeNext]_feeVars

-----------------------------------------------------------------------------
(* Properties.                                                             *)

\* A payment has succeeded exactly when its order has left PENDING_PAYMENT, and
\* the order has moved once for it: no late call has moved it back or again.
Moves == [NONE |-> 0, PENDING_PAYMENT |-> 0, PENDING_DISPATCH |-> 1, PENDING_SERVICE |-> 2]
PaidOnce ==
  \A o \in Orders :
    /\ fees[o].payment = "SUCCEEDED" <=> fees[o].status \in {"PENDING_DISPATCH", "PENDING_SERVICE"}
    /\ fees[o].payment = "SUCCEEDED" <=> fees[o].key # NoKey
    /\ fees[o].version = Moves[fees[o].status]
\* A key confirms one order.
OneOrderPerKey ==
  \A o, p \in Orders : fees[o].key = fees[p].key /\ fees[o].key # NoKey => o = p
\* Whoever was told of success has the payment that bears the key.
ToldIsSo == \A t \in told : Confirmed(t[1], t[2])

\* A fee is confirmed once, by one key that confirms nothing else, and every
\* answer that says so stays true, however calls are repeated and overlap
\* (manual-fee-service.ts:77, payment-service.ts:28).
FeeConfirmedOnce == PaidOnce /\ OneOrderPerKey /\ ToldIsSo

=============================================================================
