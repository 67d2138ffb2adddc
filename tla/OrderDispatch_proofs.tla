----------------------- MODULE OrderDispatch_proofs -----------------------
(* Proofs about OrderDispatch, for every value of its constants. *)
EXTENDS OrderDispatch, FiniteSetTheorems, WellFoundedInduction, TLAPS

-----------------------------------------------------------------------------
(* Lemmas about the operators of the model.                                *)

\* The order's latest wave: the greatest wave with an invitation, 0 without any.
\* LatestWave picks it with CHOOSE, so it has to exist.
LEMMA LatestWaveIsGreatest ==
  ASSUME NEW o
  PROVE  /\ LatestWave(o) \in 0..MaxWaves
         /\ WavesOf(o) # {} => LatestWave(o) \in WavesOf(o)
<1>1. WavesOf(o) \subseteq 1..MaxWaves
  BY DEF WavesOf, KeysOf, Keys, Waves
<1>2. MaxWaves \in Nat
  BY DispatchAssumption
<1>3. CASE WavesOf(o) = {}
  BY <1>2, <1>3 DEF LatestWave
<1>4. CASE WavesOf(o) # {}
  <2> DEFINE Below == {MaxWaves - w : w \in WavesOf(o)}
  <2>1. Below \subseteq Nat /\ Below # {}
    BY <1>1, <1>2, <1>4
  <2>2. \E x \in Below : \A y \in Below : ~(<<y, x>> \in OpToRel(<, Nat))
    BY <2>1, NatLessThanWellFounded, WFMin
  <2>3. PICK x \in Below : \A y \in Below : ~(<<y, x>> \in OpToRel(<, Nat))
    BY <2>2
  <2>4. \A y \in Below : ~(y < x)
    BY <2>1, <2>3 DEF OpToRel
  <2>5. PICK w \in WavesOf(o) : x = MaxWaves - w
    OBVIOUS
  <2>6. ASSUME NEW v \in WavesOf(o)
        PROVE  v <= w
    <3>1. MaxWaves - v \in Below
      OBVIOUS
    <3>2. ~(MaxWaves - v < MaxWaves - w)
      BY <2>4, <2>5, <3>1
    <3>3. v \in Int /\ w \in Int
      BY <1>1
    <3> QED
      BY <3>2, <3>3, <1>2
  <2>7. LatestWave(o) \in WavesOf(o)
    BY <1>4, <2>6 DEF LatestWave
  <2> QED
    BY <2>7, <1>1, <1>2
<1> QED
  BY <1>3, <1>4

\* updateMany keeps the invitation table a table.
LEMMA RespondType ==
  ASSUME TypeOK, NEW S, NEW answer \in {"ACCEPTED", "EXPIRED", "CANCELLED"}
  PROVE  Respond(S, answer) \in [Keys -> Invitation]
BY DEF Respond, TypeOK, Invitation

\* Whatever a request does next, its slot stays a slot.
LEMMA SlotType ==
  ASSUME TypeOK, NEW r \in Requests, NEW q \in Request, Slot(r, q)
  PROVE  request' \in [Requests -> Request]
BY DEF TypeOK, Slot

LEMMA IdleType == Idle \in Request
BY DispatchAssumption DEF Idle, Request, Locals, Stage

LEMMA AfterCallType ==
  ASSUME NEW q \in Request
  PROVE  AfterCall(q) \in Request
BY IdleType DEF AfterCall, Idle, Request, Locals, Stage

-----------------------------------------------------------------------------
(* Type correctness.                                                       *)

LEMMA InitType == Init => TypeOK
BY IdleType, DispatchAssumption
   DEF Init, TypeOK, OrderStatus, ReviewStatus, Invitation

\* Steps of start and failClosed.
LEMMA StartStepsType ==
  ASSUME TypeOK, NEW r \in Requests,
         \/ SweepIneligible(r) \/ VoidIneligible(r) \/ ReadCurrent(r)
         \/ LoadOrder(r) \/ RankCandidates(r) \/ CreateWave(r)
         \/ FailClosed(r) \/ AuditFailure(r) \/ NotifyFailure(r)
  PROVE  TypeOK'
<1> DEFINE q == request[r]
<1>q. q \in Request
  BY DEF TypeOK
<1>a. AfterCall(q) \in Request /\ Idle \in Request
  BY <1>q, AfterCallType, IdleType
<1> USE DEF Slot, At, Return, Throw, orderVars, profileVars, trailVars, boundVars
<1>b. q.stage \notin {"idle", "next"} /\ q.order \in Orders
  BY <1>q DEF Request, Locals, SweepIneligible, VoidIneligible, ReadCurrent, LoadOrder,
       RankCandidates, CreateWave, FailClosed, AuditFailure, NotifyFailure
<1>1. CASE SweepIneligible(r)
  <2> DEFINE bad == {k \in Live(q.order, q.now) : ~Eligible(k[2])}
  <2>1. bad \subseteq Keys
    BY DEF Live, KeysOf
  <2>2. [q EXCEPT !.stage = "current"] \in Request
        /\ [q EXCEPT !.stage = "void", !.keys = bad] \in Request
    BY <1>b, <1>q, <2>1 DEF Request, Locals, Stage
  <2>3. request' \in [Requests -> Request]
    BY <1>1, <2>2 DEF SweepIneligible, TypeOK
  <2> QED
    BY <1>1, <2>3 DEF SweepIneligible, TypeOK
<1>2. CASE VoidIneligible(r)
  <2>1. [q EXCEPT !.stage = "current", !.keys = {}] \in Request
    BY <1>b, <1>q, <1>a DEF Request, Locals, Stage
  <2>2. request' \in [Requests -> Request]
    BY <1>2, <1>a, <2>1 DEF VoidIneligible, TypeOK
  <2>3. invitation' \in [Keys -> Invitation]
    BY <1>2, RespondType DEF VoidIneligible
  <2> QED
    BY <1>2, <2>2, <2>3 DEF VoidIneligible, TypeOK
<1>3. CASE ReadCurrent(r)
  <2>1. [q EXCEPT !.stage = "load"] \in Request
    BY <1>b, <1>q, <1>a DEF Request, Locals, Stage
  <2>2. request' \in [Requests -> Request]
    BY <1>3, <1>a, <2>1 DEF ReadCurrent, TypeOK
  <2> QED
    BY <1>3, <2>2 DEF ReadCurrent, TypeOK
<1>4. CASE LoadOrder(r)
  <2>1. [q EXCEPT !.stage = "fail"] \in Request
    BY <1>b, <1>q DEF Request, Locals, Stage
  <2>2. ASSUME ~Exhausted(NextWave(q.order))
        PROVE  [q EXCEPT !.stage = "rank", !.wave = NextWave(q.order),
                         !.providers = InvitedTo(q.order)] \in Request
    <3>1. NextWave(q.order) \in 0..MaxWaves
      BY <2>2, LatestWaveIsGreatest, DispatchAssumption DEF NextWave, Exhausted
    <3>2. InvitedTo(q.order) \subseteq Providers
      BY DEF InvitedTo, KeysOf, Keys
    <3> QED
      BY <1>b, <1>q, <3>1, <3>2 DEF Request, Locals, Stage
  <2>3. request' \in [Requests -> Request]
    BY <1>4, <1>a, <2>1, <2>2 DEF LoadOrder, TypeOK
  <2> QED
    BY <1>4, <2>3 DEF LoadOrder, TypeOK
<1>5. CASE RankCandidates(r)
  <2>1. [q EXCEPT !.stage = "fail", !.wave = 0, !.providers = {}] \in Request
    <3>1. 0 \in 0..MaxWaves /\ {} \subseteq Providers
      BY DispatchAssumption
    <3> QED
      BY <1>b, <1>q, <3>1 DEF Request, Locals, Stage
  <2>2. ASSUME NEW picked \in TopOf(Candidates(q.order, q.providers))
        PROVE  [q EXCEPT !.stage = "create", !.providers = picked] \in Request
    <3>1. picked \subseteq Providers
      BY DEF TopOf, Candidates
    <3> QED
      BY <1>b, <1>q, <3>1 DEF Request, Locals, Stage
  <2>3. request' \in [Requests -> Request]
    BY <1>5, <1>a, <2>1, <2>2 DEF RankCandidates, TypeOK
  <2> QED
    BY <1>5, <2>3 DEF RankCandidates, TypeOK
<1>6. CASE CreateWave(r)
  <2>1. request' \in [Requests -> Request]
    BY <1>6, <1>a DEF CreateWave, TypeOK
  <2>2. q.now + Ttl \in 0..(MaxTime + Ttl)
    BY <1>b, <1>q, DispatchAssumption DEF Request, Locals
  <2>3. invitation' \in [Keys -> Invitation]
    BY <1>6, <2>2 DEF CreateWave, TypeOK, Invitation
  <2>4. q.order \in Orders
    BY <1>6, <1>q DEF CreateWave, At, Request, Locals
  <2>5. raced' \subseteq Orders
    BY <1>6, <2>4 DEF CreateWave, TypeOK
  <2> QED
    BY <1>6, <2>1, <2>3, <2>5 DEF CreateWave, TypeOK
<1>7. CASE FailClosed(r)
  <2>1. [q EXCEPT !.stage = "audit"] \in Request
    BY <1>b, <1>q DEF Request, Locals, Stage
  <2>2. request' \in [Requests -> Request]
    BY <1>7, <1>a, <2>1 DEF FailClosed, TypeOK
  <2>3. status' \in [Orders -> OrderStatus]
    BY <1>7 DEF FailClosed, TypeOK, OrderStatus
  <2> QED
    BY <1>7, <2>2, <2>3 DEF FailClosed, TypeOK
<1>8. CASE AuditFailure(r)
  <2>1. [q EXCEPT !.stage = "alert"] \in Request
    BY <1>b, <1>q DEF Request, Locals, Stage
  <2>2. request' \in [Requests -> Request]
    BY <1>8, <2>1 DEF AuditFailure, TypeOK
  <2>3. audited' \subseteq Orders
    BY <1>8, <1>q DEF AuditFailure, TypeOK, Request, Locals
  <2> QED
    BY <1>8, <2>2, <2>3 DEF AuditFailure, TypeOK
<1>9. CASE NotifyFailure(r)
  <2>1. request' \in [Requests -> Request]
    BY <1>9, <1>a DEF NotifyFailure, TypeOK
  <2>2. alerted' \subseteq Orders
    BY <1>9, <1>b DEF NotifyFailure, TypeOK
  <2> QED
    BY <1>9, <2>1, <2>2 DEF NotifyFailure, TypeOK
<1> QED
  BY <1>1, <1>2, <1>3, <1>4, <1>5, <1>6, <1>7, <1>8, <1>9

\* The other steps of a running request.
LEMMA OtherStepsType ==
  ASSUME TypeOK, NEW r \in Requests,
         \/ ExpireOverdue(r) \/ ReadLatestWave(r) \/ NextDue(r)
         \/ AcceptInvitation(r) \/ CommitCancellation(r)
  PROVE  TypeOK'
<1> DEFINE q == request[r]
<1>q. q \in Request
  BY DEF TypeOK
<1>a. Idle \in Request
  BY IdleType
<1> USE DEF Slot, At, orderVars, profileVars, trailVars, boundVars
<1>1. CASE ExpireOverdue(r)
  <2>1. [q EXCEPT !.stage = "latest"] \in Request
    BY <1>1, <1>q DEF ExpireOverdue, Request, Locals, Stage
  <2>2. request' \in [Requests -> Request]
    BY <1>1, <2>1 DEF ExpireOverdue, TypeOK
  <2>3. invitation' \in [Keys -> Invitation]
    BY <1>1, RespondType DEF ExpireOverdue
  <2> QED
    BY <1>1, <2>2, <2>3 DEF ExpireOverdue, TypeOK
<1>2. CASE ReadLatestWave(r)
  <2>1. [q EXCEPT !.stage = "fail"] \in Request /\ [q EXCEPT !.stage = "sweep"] \in Request
    BY <1>2, <1>q DEF ReadLatestWave, Request, Locals, Stage
  <2>2. request' \in [Requests -> Request]
    BY <1>2, <2>1 DEF ReadLatestWave, TypeOK
  <2> QED
    BY <1>2, <2>2 DEF ReadLatestWave, TypeOK
<1>3. CASE NextDue(r)
  <2>1. ASSUME NEW o \in q.due
        PROVE  [q EXCEPT !.stage = "expire", !.order = o, !.due = @ \ {o}] \in Request
    <3>1. o \in Orders /\ o # None /\ q.due \ {o} \subseteq Orders
      BY <1>q, DispatchAssumption DEF Request, Locals
    <3> QED
      BY <1>q, <3>1 DEF Request, Locals, Stage
  <2>2. request' \in [Requests -> Request]
    BY <1>3, <2>1 DEF NextDue, TypeOK
  <2> QED
    BY <1>3, <2>2 DEF NextDue, TypeOK
<1>4. CASE AcceptInvitation(r)
  <2>1. PICK k \in q.keys :
          \/ /\ status' = [status EXCEPT ![k[1]] = "PENDING_SERVICE"]
             /\ assigned' = [assigned EXCEPT ![k[1]] = k[2]]
             /\ invitation' = [Respond(KeysOf(k[1]), "CANCELLED")
                                 EXCEPT ![k].status = "ACCEPTED"]
          \/ UNCHANGED <<orderVars, invitation>>
    BY <1>4 DEF AcceptInvitation
  <2>2. k \in Keys /\ k[2] \in Providers
    BY <1>q DEF Request, Locals, Keys
  <2>3. request' \in [Requests -> Request]
    BY <1>4, <1>a DEF AcceptInvitation, TypeOK
  <2>4. status' \in [Orders -> OrderStatus] /\ assigned' \in [Orders -> Providers \cup {None}]
    BY <2>1, <2>2 DEF TypeOK, OrderStatus
  <2>5. invitation' \in [Keys -> Invitation]
    <3>1. Respond(KeysOf(k[1]), "CANCELLED") \in [Keys -> Invitation]
      BY RespondType
    <3> QED
      BY <2>1, <2>2, <3>1 DEF TypeOK, Invitation
  <2> QED
    BY <1>4, <2>3, <2>4, <2>5 DEF AcceptInvitation, TypeOK
<1>5. CASE CommitCancellation(r)
  <2>1. request' \in [Requests -> Request]
    BY <1>5, <1>a DEF CommitCancellation, TypeOK
  <2>2. status' \in [Orders -> OrderStatus]
    BY <1>5 DEF CommitCancellation, TypeOK, OrderStatus
  <2> QED
    BY <1>5, <2>1, <2>2 DEF CommitCancellation, TypeOK
<1> QED
  BY <1>1, <1>2, <1>3, <1>4, <1>5

\* A request that arrives, and one that dies.
LEMMA ArriveType ==
  ASSUME TypeOK, NEW r \in Requests, Arrive(r) \/ Abort(r)
  PROVE  TypeOK'
<1>a. Idle \in Request
  BY IdleType
<1> USE DEF Slot, At, Begin, orderVars, profileVars, trailVars, boundVars
<1>t. now \in 0..MaxTime
  BY DEF TypeOK
<1>1. ASSUME NEW o \in Orders, NEW s \in {"sweep", "expire", "refund"}
      PROVE  /\ [Idle EXCEPT !.stage = s, !.order = o, !.now = now] \in Request
             /\ [Idle EXCEPT !.stage = s, !.order = o] \in Request
  BY <1>a, <1>t, DispatchAssumption DEF Idle, Request, Locals, Stage
<1>2. CASE \E o \in Orders : StartDispatch(r, o) \/ ExpireWave(r, o) \/ RequestCancellation(r, o)
  <2>1. request' \in [Requests -> Request]
    BY <1>2, <1>1 DEF StartDispatch, ExpireWave, RequestCancellation, TypeOK
  <2> QED
    BY <1>2, <2>1 DEF StartDispatch, ExpireWave, RequestCancellation, TypeOK
<1>3. CASE \E k \in Keys : RequestAccept(r, k)
  <2>1. PICK k \in Keys : RequestAccept(r, k)
    BY <1>3
  <2>2. k[1] \in Orders /\ k[1] # None
    BY DispatchAssumption DEF Keys
  <2>3. [Idle EXCEPT !.stage = "accept", !.order = k[1], !.keys = {k}, !.now = now] \in Request
    BY <1>a, <1>t, <2>2 DEF Idle, Request, Locals, Stage
  <2>4. request' \in [Requests -> Request]
    BY <2>1, <2>3 DEF RequestAccept, TypeOK
  <2> QED
    BY <2>1, <2>4 DEF RequestAccept, TypeOK
<1>4. CASE RunJobs(r)
  <2>1. DueOrders(now) \subseteq Orders
    BY DEF DueOrders
  <2>2. [Idle EXCEPT !.stage = "next", !.now = now, !.due = DueOrders(now)] \in Request
    BY <1>a, <1>t, <2>1 DEF Idle, Request, Locals, Stage
  <2>3. request' \in [Requests -> Request]
    BY <1>4, <2>2 DEF RunJobs, TypeOK
  <2> QED
    BY <1>4, <2>3 DEF RunJobs, TypeOK
<1>5. CASE Abort(r)
  <2>1. request' \in [Requests -> Request]
    BY <1>5, <1>a DEF Abort, TypeOK
  <2>2. aborts' \in 0..MaxAborts
    BY <1>5, DispatchAssumption DEF Abort, TypeOK
  <2> QED
    BY <1>5, <2>1, <2>2 DEF Abort, TypeOK
<1> QED
  BY <1>2, <1>3, <1>4, <1>5 DEF Arrive

\* Steps that no request slot takes.
LEMMA OutsideStepsType ==
  ASSUME TypeOK,
         \/ \E o \in Orders : ConfirmFee(o) \/ CheckIn(o) \/ SubmitReport(o)
         \/ Administer
         \/ Tick
  PROVE  TypeOK'
<1> USE DEF orderVars, profileVars, trailVars, boundVars
<1>1. CASE \E o \in Orders : ConfirmFee(o) \/ CheckIn(o) \/ SubmitReport(o)
  BY <1>1 DEF ConfirmFee, CheckIn, SubmitReport, Advance, TypeOK, OrderStatus
<1>2. CASE Administer
  <2>1. PICK p \in Providers :
          \/ \E verdict \in {"APPROVED", "SUSPENDED"} : ReviewProvider(p, verdict)
          \/ \E covered \in SUBSET Orders : SetAvailability(p, covered)
          \/ \E disable \in BOOLEAN : SetDisabled(p, disable)
    BY <1>2 DEF Administer
  <2>2. CASE \E verdict \in {"APPROVED", "SUSPENDED"} : ReviewProvider(p, verdict)
    <3>1. invitation' \in [Keys -> Invitation]
      BY <2>2, RespondType DEF ReviewProvider, TypeOK
    <3>2. review' \in [Providers -> ReviewStatus]
      BY <2>2 DEF ReviewProvider, TypeOK, ReviewStatus
    <3>3. adminOps' \in 0..MaxAdminOps
      BY <2>2, DispatchAssumption DEF ReviewProvider, AdminOp, TypeOK
    <3> QED
      BY <2>2, <3>1, <3>2, <3>3 DEF ReviewProvider, TypeOK
  <2>3. CASE \E covered \in SUBSET Orders : SetAvailability(p, covered)
    <3>1. available' \in [Providers -> SUBSET Orders]
      BY <2>3 DEF SetAvailability, TypeOK
    <3>2. adminOps' \in 0..MaxAdminOps
      BY <2>3, DispatchAssumption DEF SetAvailability, AdminOp, TypeOK
    <3> QED
      BY <2>3, <3>1, <3>2 DEF SetAvailability, TypeOK
  <2>4. CASE \E disable \in BOOLEAN : SetDisabled(p, disable)
    <3>1. adminOps' \in 0..MaxAdminOps
      BY <2>4, DispatchAssumption DEF SetDisabled, AdminOp, TypeOK
    <3>2. disabled' \subseteq Providers
      BY <2>4 DEF SetDisabled, TypeOK
    <3> QED
      BY <2>4, <3>1, <3>2 DEF SetDisabled, TypeOK
  <2> QED
    BY <2>1, <2>2, <2>3, <2>4
<1>3. CASE Tick
  BY <1>3, DispatchAssumption DEF Tick, TypeOK
<1> QED
  BY <1>1, <1>2, <1>3

LEMMA NextType == TypeOK /\ [Next]_vars => TypeOK'
<1> SUFFICES ASSUME TypeOK, [Next]_vars PROVE TypeOK'
  OBVIOUS
<1>1. CASE UNCHANGED vars
  BY <1>1 DEF vars, orderVars, profileVars, trailVars, boundVars, TypeOK
<1>2. CASE Next
  BY <1>2, StartStepsType, OtherStepsType, ArriveType, OutsideStepsType DEF Next, Proceed
<1> QED
  BY <1>1, <1>2

\* Every variable keeps the shape its row has in the database, and a request
\* works on an order of the system from its first step to its last.
THEOREM TypeCorrect == Spec => []TypeOK
<1> QED
  BY InitType, NextType, PTL DEF Spec

-----------------------------------------------------------------------------
(* One taker per order.                                                    *)

\* An answer other than ACCEPTED neither makes nor unmakes an acceptance, and
\* no invitation disappears.
LEMMA RespondKeepsAccepted ==
  ASSUME TypeOK, NEW S, NEW answer \in {"EXPIRED", "CANCELLED"}, NEW k \in Keys
  PROVE  /\ Respond(S, answer)[k].status = "ACCEPTED" <=> Accepted(k)
         /\ Respond(S, answer)[k].status # "NONE" <=> Exists(k)
BY DEF Respond, TypeOK, Invitation, Accepted, Pending, Exists

\* Only a provider's acceptance assigns an order.
LEMMA OnlyAcceptanceAssigns ==
  ASSUME TypeOK, [Next]_vars, \A r \in Requests : ~AcceptInvitation(r)
  PROVE  /\ assigned' = assigned
         /\ \A k \in Keys : Accepted(k)' <=> Accepted(k)
         /\ \A k \in Keys : Exists(k) => Exists(k)'
<1> USE DEF orderVars, profileVars, trailVars, boundVars
<1>1. ASSUME assigned' = assigned, NEW S, NEW answer \in {"EXPIRED", "CANCELLED"},
             invitation' = Respond(S, answer)
      PROVE  /\ assigned' = assigned
             /\ \A k \in Keys : Accepted(k)' <=> Accepted(k)
             /\ \A k \in Keys : Exists(k) => Exists(k)'
  BY <1>1, RespondKeepsAccepted DEF Accepted, Exists
<1>2. CASE UNCHANGED <<assigned, invitation>>
  BY <1>2 DEF Accepted, Exists
<1>3. CASE \E r \in Requests : VoidIneligible(r) \/ ExpireOverdue(r)
  BY <1>1, <1>3 DEF VoidIneligible, ExpireOverdue
<1>4. CASE \E p \in Providers, verdict \in {"APPROVED", "SUSPENDED"} : ReviewProvider(p, verdict)
  <2>1. PICK p \in Providers, verdict \in {"APPROVED", "SUSPENDED"} : ReviewProvider(p, verdict)
    BY <1>4
  <2> QED
    BY <1>1, <1>2, <2>1 DEF ReviewProvider
<1>5. CASE \E r \in Requests : CreateWave(r)
  <2>1. PICK r \in Requests : CreateWave(r)
    BY <1>5
  <2>2. assigned' = assigned
    BY <2>1 DEF CreateWave
  <2>3. ASSUME NEW k \in Keys
        PROVE  (Accepted(k)' <=> Accepted(k)) /\ (Exists(k) => Exists(k)')
    BY <2>1 DEF CreateWave, Accepted, Exists, TypeOK
  <2> QED
    BY <2>2, <2>3
<1>6. ASSUME NEW r \in Requests, Arrive(r) \/ Abort(r)
      PROVE  UNCHANGED <<assigned, invitation>>
  BY <1>6 DEF Arrive, StartDispatch, ExpireWave, RequestCancellation, RequestAccept, RunJobs, Abort
<1>7. ASSUME NEW r \in Requests,
             \/ SweepIneligible(r) \/ ReadCurrent(r) \/ LoadOrder(r) \/ RankCandidates(r)
             \/ FailClosed(r) \/ AuditFailure(r) \/ NotifyFailure(r)
             \/ ReadLatestWave(r) \/ NextDue(r) \/ CommitCancellation(r)
      PROVE  UNCHANGED <<assigned, invitation>>
  BY <1>7 DEF SweepIneligible, ReadCurrent, LoadOrder, RankCandidates, FailClosed, AuditFailure,
       NotifyFailure, ReadLatestWave, NextDue, CommitCancellation
<1>8. ASSUME \E o \in Orders : ConfirmFee(o) \/ CheckIn(o) \/ SubmitReport(o)
      PROVE  UNCHANGED <<assigned, invitation>>
  BY <1>8 DEF ConfirmFee, CheckIn, SubmitReport, Advance
<1>9. ASSUME NEW p \in Providers,
             \/ \E covered \in SUBSET Orders : SetAvailability(p, covered)
             \/ \E disable \in BOOLEAN : SetDisabled(p, disable)
      PROVE  UNCHANGED <<assigned, invitation>>
  BY <1>9 DEF SetAvailability, SetDisabled
<1>10. CASE Administer
  BY <1>2, <1>4, <1>9, <1>10 DEF Administer
<1>11. CASE Tick \/ UNCHANGED vars
  BY <1>2, <1>11 DEF Tick, vars
<1>12. CASE \E r \in Requests : Proceed(r) \/ Arrive(r) \/ Abort(r)
  BY <1>2, <1>3, <1>5, <1>6, <1>7, <1>12 DEF Proceed
<1> QED
  BY <1>2, <1>8, <1>10, <1>11, <1>12 DEF Next

\* How the status of an order moves, and when its provider may change.  The last
\* case is acceptInvitation, the only step that assigns.
LEMMA HowOrdersMove ==
  ASSUME TypeOK, ReadsStayTrue, [Next]_vars, NEW o \in Orders
  PROVE  \/ status'[o] = status[o] /\ assigned'[o] = assigned[o]
         \/ /\ assigned'[o] = assigned[o]
            /\ \/ status[o] = "PENDING_PAYMENT" /\ status'[o] = "PENDING_DISPATCH"
               \/ status[o] = "PENDING_SERVICE" /\ status'[o] = "IN_SERVICE"
               \/ status[o] = "IN_SERVICE" /\ status'[o] = "PENDING_CONFIRMATION"
               \/ status[o] = "PENDING_DISPATCH" /\ status'[o] = "DISPATCH_FAILED"
               \/ status[o] # "PENDING_PAYMENT" /\ status'[o] = "CANCELLED"
         \/ /\ status[o] = "PENDING_DISPATCH" /\ status'[o] = "PENDING_SERVICE"
            /\ assigned'[o] # None
<1> USE DEF orderVars, profileVars, trailVars, boundVars
<1>1. CASE UNCHANGED <<status, assigned>>
  BY <1>1
<1>2. CASE \E r \in Requests : FailClosed(r)
  BY <1>2 DEF FailClosed, MayFail, TypeOK
<1>3. CASE \E r \in Requests : CommitCancellation(r)
  BY <1>3 DEF CommitCancellation, At, ReadsStayTrue, StillTrue, TypeOK
<1>4. CASE \E r \in Requests : AcceptInvitation(r)
  <2>1. PICK r \in Requests : AcceptInvitation(r)
    BY <1>4
  <2>2. PICK k \in request[r].keys :
          \/ /\ status[k[1]] = "PENDING_DISPATCH"
             /\ status' = [status EXCEPT ![k[1]] = "PENDING_SERVICE"]
             /\ assigned' = [assigned EXCEPT ![k[1]] = k[2]]
          \/ UNCHANGED <<status, assigned>>
    BY <2>1 DEF AcceptInvitation, Acceptable
  <2>3. k[1] \in Orders /\ k[2] \in Providers
    BY <2>1 DEF TypeOK, Request, Locals, Keys
  <2> QED
    BY <2>2, <2>3, DispatchAssumption DEF TypeOK
<1>5. CASE \E oo \in Orders : ConfirmFee(oo) \/ CheckIn(oo) \/ SubmitReport(oo)
  BY <1>5 DEF ConfirmFee, CheckIn, SubmitReport, Advance, TypeOK
<1>6. ASSUME NEW r \in Requests,
             \/ SweepIneligible(r) \/ VoidIneligible(r) \/ ReadCurrent(r) \/ LoadOrder(r)
             \/ RankCandidates(r) \/ CreateWave(r) \/ AuditFailure(r) \/ NotifyFailure(r)
             \/ ExpireOverdue(r) \/ ReadLatestWave(r) \/ NextDue(r) \/ Arrive(r) \/ Abort(r)
      PROVE  UNCHANGED <<status, assigned>>
  BY <1>6 DEF SweepIneligible, VoidIneligible, ReadCurrent, LoadOrder, RankCandidates, CreateWave,
       AuditFailure, NotifyFailure, ExpireOverdue, ReadLatestWave, NextDue, Arrive, StartDispatch,
       ExpireWave, RequestCancellation, RequestAccept, RunJobs, Abort
<1>7. CASE Administer \/ Tick \/ UNCHANGED vars
  BY <1>1, <1>7 DEF Administer, ReviewProvider, SetAvailability, SetDisabled, Tick, vars
<1> QED
  BY <1>1, <1>2, <1>3, <1>4, <1>5, <1>6, <1>7 DEF Next, Proceed

Assignments == AssignedByAcceptance /\ StatusMatchesAssignment

LEMMA NextAssignments ==
  ASSUME TypeOK, ReadsStayTrue, Assignments, [Next]_vars
  PROVE  Assignments'
<1>1. StatusMatchesAssignment'
  BY HowOrdersMove DEF Assignments, StatusMatchesAssignment
<1>2. CASE \A r \in Requests : ~AcceptInvitation(r)
  <2>1. /\ assigned' = assigned
        /\ \A k \in Keys : Accepted(k)' <=> Accepted(k)
    BY <1>2, OnlyAcceptanceAssigns
  <2>2. AssignedByAcceptance'
    BY <2>1 DEF Assignments, AssignedByAcceptance, KeysOf
  <2> QED
    BY <1>1, <2>2 DEF Assignments
<1>3. CASE \E r \in Requests : AcceptInvitation(r)
  <2>1. PICK r \in Requests : AcceptInvitation(r)
    BY <1>3
  <2>2. PICK k \in request[r].keys :
          \/ /\ Acceptable(k, request[r].now)
             /\ assigned' = [assigned EXCEPT ![k[1]] = k[2]]
             /\ invitation' = [Respond(KeysOf(k[1]), "CANCELLED")
                                 EXCEPT ![k].status = "ACCEPTED"]
          \/ UNCHANGED <<assigned, invitation>>
    BY <2>1 DEF AcceptInvitation, orderVars
  <2>3. k \in Keys /\ k[1] \in Orders /\ k[2] \in Providers
    BY <2>1 DEF TypeOK, Request, Locals, Keys
  <2>4. CASE UNCHANGED <<assigned, invitation>>
    BY <1>1, <2>4 DEF Assignments, AssignedByAcceptance, Accepted
  <2>5. CASE /\ Acceptable(k, request[r].now)
             /\ assigned' = [assigned EXCEPT ![k[1]] = k[2]]
             /\ invitation' = [Respond(KeysOf(k[1]), "CANCELLED")
                                 EXCEPT ![k].status = "ACCEPTED"]
    <3>1. assigned[k[1]] = None
      BY <2>3, <2>5 DEF Assignments, StatusMatchesAssignment, Acceptable
    <3>2. \A j \in KeysOf(k[1]) : ~Accepted(j)
      <4>1. ASSUME NEW j \in KeysOf(k[1]), Accepted(j)
            PROVE  FALSE
        <5>1. assigned[k[1]] = j[2] /\ j[2] \in Providers
          BY <2>3, <4>1 DEF Assignments, AssignedByAcceptance, KeysOf, Keys
        <5> QED
          BY <3>1, <5>1, DispatchAssumption
      <4> QED
        BY <4>1
    <3>3. \A j \in Keys : Accepted(j)' <=> (j = k \/ Accepted(j))
      <4>1. Respond(KeysOf(k[1]), "CANCELLED") \in [Keys -> Invitation]
        BY RespondType
      <4>2. ASSUME NEW j \in Keys, j # k
            PROVE  Accepted(j)' <=> Accepted(j)
        BY <2>5, <4>1, <4>2, RespondKeepsAccepted DEF Accepted
      <4>3. Accepted(k)'
        BY <2>3, <2>5, <4>1 DEF Accepted, Invitation
      <4> QED
        BY <4>2, <4>3
    <3>4. assigned'[k[1]] = k[2] /\ \A o \in Orders : o # k[1] => assigned'[o] = assigned[o]
      BY <2>3, <2>5 DEF TypeOK
    <3>5. ASSUME NEW o \in Orders
          PROVE  /\ \A j \in KeysOf(o) : Accepted(j)' => assigned'[o] = j[2]
                 /\ assigned'[o] # None => \E j \in KeysOf(o) : Accepted(j)'
                 /\ \A i, j \in KeysOf(o) : Accepted(i)' /\ Accepted(j)' => i = j
      <4>1. CASE o = k[1]
        BY <2>3, <3>2, <3>3, <3>4, <4>1 DEF KeysOf
      <4>2. CASE o # k[1]
        <5>1. \A j \in KeysOf(o) : Accepted(j)' <=> Accepted(j)
          BY <3>3, <4>2 DEF KeysOf
        <5> QED
          BY <3>4, <4>2, <5>1 DEF Assignments, AssignedByAcceptance
      <4> QED
        BY <4>1, <4>2
    <3>6. AssignedByAcceptance'
      BY <3>5 DEF AssignedByAcceptance, KeysOf
    <3> QED
      BY <1>1, <3>6 DEF Assignments
  <2> QED
    BY <2>2, <2>4, <2>5
<1> QED
  BY <1>2, <1>3

-----------------------------------------------------------------------------
(* Invitations only ever move forward.                                     *)

\* How an invitation moves: it is created by a start that has picked its wave,
\* and is answered or withdrawn only while it is pending.
LEMMA HowInvitationsMove ==
  ASSUME TypeOK, [Next]_vars, NEW k \in Keys
  PROVE  \/ invitation'[k] = invitation[k]
         \/ /\ Pending(k)
            /\ invitation'[k].status \in {"ACCEPTED", "EXPIRED", "CANCELLED"}
         \/ /\ ~Exists(k) /\ invitation'[k].status = "PENDING"
            /\ \E r \in Requests : /\ At(r, "create") /\ ~At(r, "create")'
                                   /\ UNCHANGED status
                                   /\ k[1] = request[r].order /\ k[3] = request[r].wave
                                   /\ k[2] \in request[r].providers
<1> DEFINE Moved == \/ invitation'[k] = invitation[k]
                    \/ /\ Pending(k)
                       /\ invitation'[k].status \in {"ACCEPTED", "EXPIRED", "CANCELLED"}
<1> USE DEF orderVars, profileVars, trailVars, boundVars
<1>1. ASSUME NEW S, NEW answer \in {"EXPIRED", "CANCELLED"}
      PROVE  \/ Respond(S, answer)[k] = invitation[k]
             \/ Pending(k) /\ Respond(S, answer)[k].status = answer
  BY DEF Respond, TypeOK, Invitation
<1>2. CASE UNCHANGED invitation
  BY <1>2
<1>3. CASE \E r \in Requests : VoidIneligible(r) \/ ExpireOverdue(r)
  <2>1. Moved
    BY <1>1, <1>3 DEF VoidIneligible, ExpireOverdue
  <2> QED
    BY <2>1
<1>4. CASE \E r \in Requests : CreateWave(r)
  <2>1. PICK r \in Requests : CreateWave(r)
    BY <1>4
  <2>2. CASE UNCHANGED invitation
    BY <2>2
  <2>3. CASE ~UNCHANGED invitation
    <3> DEFINE rows == {<<request[r].order, p, request[r].wave>> : p \in request[r].providers}
    <3>1. /\ \A j \in rows : ~Exists(j)
          /\ invitation' = [j \in Keys |->
               IF j \in rows THEN [status |-> "PENDING", expiresAt |-> request[r].now + Ttl]
               ELSE invitation[j]]
      BY <2>1, <2>3 DEF CreateWave
    <3>2. CASE k \in rows
      <4>1. /\ k[1] = request[r].order /\ k[3] = request[r].wave
            /\ k[2] \in request[r].providers
        BY <3>2
      <4>2. ~Exists(k) /\ invitation'[k].status = "PENDING"
        BY <3>1, <3>2
      <4>3. At(r, "create") /\ UNCHANGED status
        BY <2>1 DEF CreateWave
      <4>4. request'[r] = AfterCall(request[r])
        BY <2>1, <2>3 DEF CreateWave, Return, Slot, TypeOK
      <4>5. ~At(r, "create")'
        BY <4>4 DEF At, AfterCall, Idle
      <4> QED
        BY <4>1, <4>2, <4>3, <4>5
    <3>3. CASE k \notin rows
      BY <3>1, <3>3
    <3> QED
      BY <3>2, <3>3
  <2> QED
    BY <2>2, <2>3
<1>5. CASE \E r \in Requests : AcceptInvitation(r)
  <2>1. PICK r \in Requests : AcceptInvitation(r)
    BY <1>5
  <2>2. PICK j \in request[r].keys :
          \/ /\ Pending(j)
             /\ invitation' = [Respond(KeysOf(j[1]), "CANCELLED")
                                 EXCEPT ![j].status = "ACCEPTED"]
          \/ UNCHANGED invitation
    BY <2>1 DEF AcceptInvitation, Acceptable
  <2>3. Respond(KeysOf(j[1]), "CANCELLED") \in [Keys -> Invitation]
    BY RespondType
  <2> QED
    BY <1>1, <2>2, <2>3 DEF Invitation
<1>6. CASE Administer
  <2>1. PICK p \in Providers :
          \/ \E verdict \in {"APPROVED", "SUSPENDED"} : ReviewProvider(p, verdict)
          \/ UNCHANGED invitation
    BY <1>6 DEF Administer, SetAvailability, SetDisabled
  <2> QED
    BY <1>1, <2>1 DEF ReviewProvider
<1>7. ASSUME NEW r \in Requests,
             \/ SweepIneligible(r) \/ ReadCurrent(r) \/ LoadOrder(r) \/ RankCandidates(r)
             \/ FailClosed(r) \/ AuditFailure(r) \/ NotifyFailure(r)
             \/ ReadLatestWave(r) \/ NextDue(r) \/ CommitCancellation(r)
             \/ Arrive(r) \/ Abort(r)
      PROVE  UNCHANGED invitation
  BY <1>7 DEF SweepIneligible, ReadCurrent, LoadOrder, RankCandidates, FailClosed, AuditFailure,
       NotifyFailure, ReadLatestWave, NextDue, CommitCancellation, Arrive, StartDispatch,
       ExpireWave, RequestCancellation, RequestAccept, RunJobs, Abort
<1>8. ASSUME \/ \E o \in Orders : ConfirmFee(o) \/ CheckIn(o) \/ SubmitReport(o)
             \/ Tick \/ UNCHANGED vars
      PROVE  UNCHANGED invitation
  BY <1>8 DEF ConfirmFee, CheckIn, SubmitReport, Advance, Tick, vars
<1> QED
  BY <1>2, <1>3, <1>4, <1>5, <1>6, <1>7, <1>8 DEF Next, Proceed

\* An invitation is never deleted.
LEMMA InvitationsStay ==
  ASSUME TypeOK, [Next]_vars, NEW k \in Keys, Exists(k)
  PROVE  Exists(k)'
BY HowInvitationsMove DEF Exists, Pending

\* The answer to an invitation is final, for any number of requests in flight
\* (every step that writes the table, among them acceptInvitation's
\* updateMany and the bulk withdrawal of a review).
THEOREM ResponsesStayFinal == Spec => ResponsesAreFinal
<1>1. ASSUME TypeOK, [Next]_vars
      PROVE  \A k \in Keys : invitation[k].status \in {"ACCEPTED", "EXPIRED", "CANCELLED"}
                               => invitation'[k] = invitation[k]
  BY <1>1, HowInvitationsMove DEF Pending, Exists
<1> QED
  BY <1>1, TypeCorrect, PTL DEF Spec, ResponsesAreFinal

-----------------------------------------------------------------------------
(* The inductive invariant.  An assignment is safe only if what requests   *)
(* remember between two statements stays true, and the records about       *)
(* orders are truthful only if orders and invitations move forward.        *)

Inv == TypeOK /\ Assignments /\ ReadsStayTrue /\ WavesInOrder /\ AlertsAreTruthful

LEMMA InitInv == Init => Inv
<1> SUFFICES ASSUME Init PROVE Inv
  OBVIOUS
<1>1. \A k \in Keys : ~Accepted(k) /\ ~Exists(k)
  BY DEF Init, Accepted, Exists
<1>2. Assignments
  BY <1>1 DEF Init, Assignments, AssignedByAcceptance, StatusMatchesAssignment, KeysOf
<1>3. ReadsStayTrue
  BY DEF Init, Idle, ReadsStayTrue, StillTrue
<1>4. WavesInOrder /\ AlertsAreTruthful
  BY <1>1 DEF Init, WavesInOrder, AlertsAreTruthful
<1> QED
  BY <1>2, <1>3, <1>4, InitType DEF Inv

\* The audit trail, the list of alerts and the history only grow.
LEMMA TrailsGrow ==
  ASSUME [Next]_vars
  PROVE  audited \subseteq audited' /\ alerted \subseteq alerted' /\ raced \subseteq raced'
<1> USE DEF orderVars, profileVars, trailVars, boundVars
<1>1. ASSUME NEW r \in Requests, Proceed(r)
      PROVE  audited \subseteq audited' /\ alerted \subseteq alerted' /\ raced \subseteq raced'
  BY <1>1 DEF Proceed, SweepIneligible, VoidIneligible, ReadCurrent, LoadOrder, RankCandidates,
       CreateWave, FailClosed, AuditFailure, NotifyFailure, ExpireOverdue, ReadLatestWave,
       NextDue, AcceptInvitation, CommitCancellation
<1>2. ASSUME NEW r \in Requests, Arrive(r) \/ Abort(r)
      PROVE  UNCHANGED trailVars
  BY <1>2 DEF Arrive, StartDispatch, ExpireWave, RequestCancellation, RequestAccept, RunJobs, Abort
<1>3. ASSUME \/ \E o \in Orders : ConfirmFee(o) \/ CheckIn(o) \/ SubmitReport(o)
             \/ Administer \/ Tick \/ UNCHANGED vars
      PROVE  UNCHANGED trailVars
  BY <1>3 DEF ConfirmFee, CheckIn, SubmitReport, Advance, Administer, ReviewProvider,
       SetAvailability, SetDisabled, Tick, vars
<1> QED
  BY <1>1, <1>2, <1>3 DEF Next

\* No step invalidates what a request remembers.
LEMMA MemoryKeeps ==
  ASSUME Inv, [Next]_vars, NEW q \in Request, StillTrue(q)
  PROVE  StillTrue(q)'
<1>1. CASE q.stage \in {"rank", "create"}
  <2>1. q.order \in Orders
    BY <1>1 DEF Request, Locals
  <2>2. status'[q.order] # "PENDING_PAYMENT"
    BY <1>1, <2>1, HowOrdersMove DEF Inv, StillTrue
  <2>3. q.wave > 1 => \E j \in KeysOf(q.order) : Exists(j)' /\ j[3] = q.wave - 1
    BY <1>1, InvitationsStay DEF Inv, StillTrue, KeysOf
  <2> QED
    BY <1>1, <2>2, <2>3 DEF StillTrue, KeysOf
<1>2. CASE q.stage \in {"audit", "alert"}
  <2>1. q.order \in Orders
    BY <1>2 DEF Request, Locals
  <2>2. status'[q.order] \in {"DISPATCH_FAILED", "CANCELLED"} /\ assigned'[q.order] = None
    BY <1>2, <2>1, HowOrdersMove DEF Inv, StillTrue
  <2>3. q.stage = "alert" => q.order \in audited'
    BY TrailsGrow DEF StillTrue
  <2> QED
    BY <1>2, <2>2, <2>3 DEF StillTrue
<1>3. CASE q.stage = "refund"
  <2>1. q.order \in Orders
    BY <1>3 DEF Request, Locals
  <2> QED
    BY <1>3, <2>1, HowOrdersMove DEF Inv, StillTrue
<1>4. CASE q.stage \notin {"rank", "create", "audit", "alert", "refund"}
  BY <1>4 DEF StillTrue
<1> QED
  BY <1>1, <1>2, <1>3, <1>4

\* What the step of a request makes it remember is true.
LEMMA NewMemory ==
  ASSUME Inv, [Next]_vars, NEW r \in Requests, Proceed(r) \/ Arrive(r) \/ Abort(r)
  PROVE  StillTrue(request[r])'
<1>p. PICK q \in Request : q = request[r]
  BY DEF Inv, TypeOK
<1>q. q \in Request /\ q = request[r] /\ StillTrue(q) /\ StillTrue(q)'
  BY <1>p, MemoryKeeps DEF Inv, ReadsStayTrue
<1>l. q \in Locals /\ request'[r] \in Locals /\ AfterCall(q).stage \in {"idle", "next"}
  BY <1>q, NextType DEF Inv, TypeOK, Request, AfterCall, Idle
<1>i. Idle.stage = "idle"
  BY DEF Idle
<1>s. \A n : Slot(r, n) => request'[r] = n
  BY DEF Inv, TypeOK, Slot
<1> USE DEF At, Return, Throw, orderVars, profileVars, trailVars, boundVars
<1>1. CASE request'[r].stage \notin {"rank", "create", "audit", "alert", "refund"}
  BY <1>1 DEF StillTrue
<1>2. CASE LoadOrder(r)
  <2>o. PICK o \in Orders : o = q.order
    BY <1>2, <1>q DEF LoadOrder, Request, Locals
  <2>1. \/ request'[r] = Idle
        \/ request'[r] = [q EXCEPT !.stage = "fail"]
        \/ /\ DispatchAllowed(o)
           /\ \E w, P : /\ w = LatestWave(o) + 1
                        /\ request'[r] = [q EXCEPT !.stage = "rank", !.wave = w, !.providers = P]
    BY <1>2, <1>q, <1>s, <2>o DEF LoadOrder, NextWave
  <2>2. CASE request'[r].stage = "rank"
    <3>2. DispatchAllowed(o) /\ request'[r].order = o /\ request'[r].wave = LatestWave(o) + 1
      BY <1>l, <1>i, <2>o, <2>1, <2>2 DEF Locals
    <3>3. LatestWave(o) \in Nat
      BY LatestWaveIsGreatest, DispatchAssumption
    <3>4. LatestWave(o) + 1 > 1 => \E j \in KeysOf(o) : Exists(j) /\ j[3] = LatestWave(o)
      <4>1. CASE WavesOf(o) = {}
        BY <4>1 DEF LatestWave
      <4>2. CASE WavesOf(o) # {}
        BY <4>2, LatestWaveIsGreatest DEF WavesOf
      <4> QED
        BY <4>1, <4>2
    <3>5. UNCHANGED <<status, invitation>>
      BY <1>2 DEF LoadOrder
    <3> QED
      BY <2>2, <3>2, <3>3, <3>4, <3>5 DEF StillTrue, DispatchAllowed, Exists, KeysOf
  <2>3. request'[r].stage \in {"idle", "fail", "rank"}
    BY <1>l, <1>i, <2>1 DEF Locals
  <2> QED
    BY <1>1, <2>2, <2>3
<1>3. CASE RankCandidates(r)
  <2>1. \/ request'[r] = AfterCall(q)
        \/ request'[r] = [q EXCEPT !.stage = "fail", !.wave = 0, !.providers = {}]
        \/ \E picked : request'[r] = [q EXCEPT !.stage = "create", !.providers = picked]
    BY <1>3, <1>q, <1>s DEF RankCandidates
  <2>2. CASE request'[r].stage = "create"
    <3>1. request'[r].order = q.order /\ request'[r].wave = q.wave
      BY <1>l, <2>1, <2>2 DEF Locals
    <3>2. q.stage = "rank"
      BY <1>3, <1>q DEF RankCandidates
    <3> QED
      BY <2>2, <3>1, <3>2, <1>q DEF StillTrue
  <2>3. request'[r].stage \in {"idle", "next", "fail", "create"}
    BY <1>l, <2>1 DEF Locals
  <2> QED
    BY <1>1, <2>2, <2>3
<1>4. CASE FailClosed(r)
  <2>1. \/ request'[r] = AfterCall(q)
        \/ /\ status[q.order] = "PENDING_DISPATCH"
           /\ status' = [status EXCEPT ![q.order] = "DISPATCH_FAILED"]
           /\ request'[r] = [q EXCEPT !.stage = "audit"]
    BY <1>4, <1>q, <1>s DEF FailClosed, MayFail
  <2>2. CASE request'[r].stage = "audit"
    <3>1. /\ status[q.order] = "PENDING_DISPATCH"
          /\ status' = [status EXCEPT ![q.order] = "DISPATCH_FAILED"]
          /\ request'[r].order = q.order
      BY <1>l, <2>1, <2>2 DEF Locals
    <3>2. q.order \in Orders /\ assigned' = assigned
      BY <1>4, <1>q DEF FailClosed, Request, Locals
    <3>3. assigned[q.order] = None
      BY <3>1, <3>2 DEF Inv, Assignments, StatusMatchesAssignment
    <3>4. status'[q.order] = "DISPATCH_FAILED"
      BY <3>1, <3>2 DEF Inv, TypeOK
    <3> QED
      BY <2>2, <3>1, <3>2, <3>3, <3>4 DEF StillTrue
  <2>3. request'[r].stage \in {"idle", "next", "audit"}
    BY <1>l, <2>1 DEF Locals
  <2> QED
    BY <1>1, <2>2, <2>3
<1>5. CASE AuditFailure(r)
  <2>1. request'[r] = [q EXCEPT !.stage = "alert"]
    BY <1>5, <1>q, <1>s DEF AuditFailure
  <2>2. request'[r].stage = "alert" /\ request'[r].order = q.order
    BY <1>l, <2>1 DEF Locals
  <2>3. q.order \in audited' /\ q.stage = "audit"
    BY <1>5, <1>q DEF AuditFailure
  <2> QED
    BY <2>2, <2>3, <1>q DEF StillTrue
<1>6. CASE \E o \in Orders : RequestCancellation(r, o)
  <2>1. PICK o \in Orders : RequestCancellation(r, o)
    BY <1>6
  <2>2. request'[r] = [Idle EXCEPT !.stage = "refund", !.order = o]
    BY <2>1, <1>s DEF RequestCancellation
  <2>3. request'[r].stage = "refund" /\ request'[r].order = o
    BY <2>2 DEF Idle
  <2>4. status'[o] # "PENDING_PAYMENT"
    BY <2>1 DEF RequestCancellation
  <2> QED
    BY <2>3, <2>4 DEF StillTrue
<1>7. ASSUME \/ SweepIneligible(r) \/ VoidIneligible(r) \/ ReadCurrent(r) \/ CreateWave(r)
             \/ NotifyFailure(r) \/ ExpireOverdue(r) \/ ReadLatestWave(r) \/ NextDue(r)
             \/ AcceptInvitation(r) \/ CommitCancellation(r) \/ Abort(r)
      PROVE  request'[r].stage \notin {"rank", "create", "audit", "alert", "refund"}
  <2>1. \/ request'[r] = AfterCall(q)
        \/ request'[r] = Idle
        \/ request'[r] = [q EXCEPT !.stage = "current"]
        \/ \E K : request'[r] = [q EXCEPT !.stage = "void", !.keys = K]
        \/ request'[r] = [q EXCEPT !.stage = "current", !.keys = {}]
        \/ request'[r] = [q EXCEPT !.stage = "load"]
        \/ request'[r] = [q EXCEPT !.stage = "latest"]
        \/ \E s \in {"fail", "sweep"} : request'[r] = [q EXCEPT !.stage = s]
        \/ \E o, D : request'[r] = [q EXCEPT !.stage = "expire", !.order = o, !.due = D]
    <3>1. CASE SweepIneligible(r) \/ VoidIneligible(r) \/ ReadCurrent(r)
      BY <3>1, <1>q, <1>s DEF SweepIneligible, VoidIneligible, ReadCurrent
    <3>2. CASE CreateWave(r) \/ AcceptInvitation(r) \/ CommitCancellation(r) \/ Abort(r)
      BY <3>2, <1>q, <1>s DEF CreateWave, AcceptInvitation, CommitCancellation, Abort
    <3>3. CASE NotifyFailure(r) \/ ExpireOverdue(r) \/ ReadLatestWave(r)
      BY <3>3, <1>q, <1>s DEF NotifyFailure, ExpireOverdue, ReadLatestWave
    <3>4. CASE NextDue(r)
      <4>1. PICK o : Slot(r, [q EXCEPT !.stage = "expire", !.order = o, !.due = @ \ {o}])
        BY <3>4, <1>q DEF NextDue
      <4>2. PICK D : D = q.due \ {o}
        OBVIOUS
      <4>3. [q EXCEPT !.stage = "expire", !.order = o, !.due = @ \ {o}]
              = [q EXCEPT !.stage = "expire", !.order = o, !.due = D]
        BY <4>2
      <4>4. request'[r] = [q EXCEPT !.stage = "expire", !.order = o, !.due = D]
        BY <4>1, <4>3, <1>s
      <4>5. \E u, E : request'[r] = [q EXCEPT !.stage = "expire", !.order = u, !.due = E]
        <5> WITNESS o, D
        <5> QED
          BY <4>4
      <4> QED
        BY <4>5
    <3> QED
      BY <1>7, <3>1, <3>2, <3>3, <3>4
  <2> QED
    BY <1>l, <1>i, <2>1 DEF Locals
<1>8. ASSUME \/ \E o \in Orders : StartDispatch(r, o) \/ ExpireWave(r, o)
             \/ \E k \in Keys : RequestAccept(r, k)
             \/ RunJobs(r)
      PROVE  request'[r].stage \notin {"rank", "create", "audit", "alert", "refund"}
  <2>1. \/ \E s \in {"sweep", "expire"} : \E o :
             request'[r] = [Idle EXCEPT !.stage = s, !.order = o, !.now = now]
        \/ \E k : request'[r] = [Idle EXCEPT !.stage = "accept", !.order = k[1],
                                             !.keys = {k}, !.now = now]
        \/ request'[r] = [Idle EXCEPT !.stage = "next", !.now = now, !.due = DueOrders(now)]
    BY <1>8, <1>s DEF StartDispatch, ExpireWave, RequestAccept, RunJobs, Begin
  <2> QED
    BY <2>1 DEF Idle
<1> QED
  BY <1>1, <1>2, <1>3, <1>4, <1>5, <1>6, <1>7, <1>8 DEF Proceed, Arrive

\* The step of a request writes its slot and no other.
LEMMA SlotStep ==
  ASSUME NEW x \in Requests, Proceed(x) \/ Arrive(x) \/ Abort(x)
  PROVE  \E n : request' = [request EXCEPT ![x] = n]
<1> USE DEF Slot, Return, Throw
<1>1. CASE Proceed(x)
  BY <1>1 DEF Proceed, SweepIneligible, VoidIneligible, ReadCurrent, LoadOrder,
       RankCandidates, CreateWave, FailClosed, AuditFailure, NotifyFailure, ExpireOverdue,
       ReadLatestWave, NextDue, AcceptInvitation, CommitCancellation
<1>2. CASE Arrive(x) \/ Abort(x)
  BY <1>2 DEF Arrive, StartDispatch, ExpireWave, RequestCancellation, RequestAccept,
       RunJobs, Begin, Abort
<1> QED
  BY <1>1, <1>2

\* A step outside the slot r leaves the slot alone.
LEMMA OtherSlotsKeep ==
  ASSUME TypeOK, [Next]_vars, NEW r \in Requests, request'[r] # request[r]
  PROVE  Proceed(r) \/ Arrive(r) \/ Abort(r)
<1> USE DEF orderVars, profileVars, trailVars, boundVars
<1>1. ASSUME NEW x \in Requests, Proceed(x) \/ Arrive(x) \/ Abort(x)
      PROVE  x = r
  BY <1>1, SlotStep DEF TypeOK
<1>2. ASSUME \/ \E o \in Orders : ConfirmFee(o) \/ CheckIn(o) \/ SubmitReport(o)
             \/ Administer \/ Tick \/ UNCHANGED vars
      PROVE  FALSE
  BY <1>2 DEF ConfirmFee, CheckIn, SubmitReport, Advance, Administer, ReviewProvider,
       SetAvailability, SetDisabled, Tick, vars
<1> QED
  BY <1>1, <1>2 DEF Next

\* One slot moves at a time.
LEMMA OneSlotMoves ==
  ASSUME TypeOK, [Next]_vars, NEW r \in Requests, NEW s \in Requests,
         request'[r] # request[r], request'[s] # request[s]
  PROVE  r = s
<1>1. PICK n : request' = [request EXCEPT ![r] = n]
  BY OtherSlotsKeep, SlotStep
<1> QED
  BY <1>1 DEF TypeOK

\* An order enters the audit trail, or the list of alerts, only through a
\* request that remembers it as given up.
LEMMA HowTrailsGrow ==
  ASSUME Inv, [Next]_vars
  PROVE  \A o \in Orders :
           /\ o \in audited' \ audited
                => \E r \in Requests : At(r, "audit") /\ request[r].order = o
           /\ o \in alerted' \ alerted
                => \E r \in Requests : At(r, "alert") /\ request[r].order = o
<1> USE DEF orderVars, profileVars, trailVars, boundVars
<1>1. CASE \E r \in Requests : AuditFailure(r)
  BY <1>1 DEF AuditFailure
<1>2. CASE \E r \in Requests : NotifyFailure(r)
  BY <1>2 DEF NotifyFailure
<1>3. ASSUME NEW r \in Requests, Proceed(r), ~AuditFailure(r), ~NotifyFailure(r)
      PROVE  UNCHANGED <<audited, alerted>>
  BY <1>3 DEF Proceed, SweepIneligible, VoidIneligible, ReadCurrent, LoadOrder, RankCandidates,
       CreateWave, FailClosed, ExpireOverdue, ReadLatestWave, NextDue, AcceptInvitation,
       CommitCancellation
<1>4. ASSUME NEW r \in Requests, Arrive(r) \/ Abort(r)
      PROVE  UNCHANGED <<audited, alerted>>
  BY <1>4 DEF Arrive, StartDispatch, ExpireWave, RequestCancellation, RequestAccept, RunJobs, Abort
<1>5. ASSUME \/ \E o \in Orders : ConfirmFee(o) \/ CheckIn(o) \/ SubmitReport(o)
             \/ Administer \/ Tick \/ UNCHANGED vars
      PROVE  UNCHANGED <<audited, alerted>>
  BY <1>5 DEF ConfirmFee, CheckIn, SubmitReport, Advance, Administer, ReviewProvider,
       SetAvailability, SetDisabled, Tick, vars
<1>6. CASE UNCHANGED <<audited, alerted>>
  BY <1>6
<1> QED
  BY <1>1, <1>2, <1>3, <1>4, <1>5, <1>6 DEF Next

LEMMA NextInv == Inv /\ [Next]_vars => Inv'
<1> SUFFICES ASSUME Inv, [Next]_vars PROVE Inv'
  OBVIOUS
<1>1. TypeOK'
  BY NextType DEF Inv
<1>2. Assignments'
  BY NextAssignments DEF Inv
<1>3. ReadsStayTrue'
  <2>1. ASSUME NEW r \in Requests
        PROVE  StillTrue(request[r])'
    <3>1. CASE request'[r] # request[r]
      BY <3>1, OtherSlotsKeep, NewMemory DEF Inv
    <3>2. CASE request'[r] = request[r]
      <4>1. PICK q \in Request : q = request[r] /\ StillTrue(q)
        BY DEF Inv, TypeOK, ReadsStayTrue
      <4>2. StillTrue(q)'
        BY <4>1, MemoryKeeps
      <4> QED
        BY <3>2, <4>1, <4>2 DEF StillTrue
    <3> QED
      BY <3>1, <3>2
  <2> QED
    BY <2>1 DEF ReadsStayTrue
<1>4. WavesInOrder'
  <2>1. ASSUME NEW k \in Keys, Exists(k)'
        PROVE  /\ status'[k[1]] # "PENDING_PAYMENT"
               /\ k[3] > 1 => \E j \in KeysOf(k[1]) : Exists(j)' /\ j[3] = k[3] - 1
    <3>1. k[1] \in Orders
      BY DEF Keys
    <3>2. /\ status[k[1]] # "PENDING_PAYMENT"
          /\ k[3] > 1 => \E j \in KeysOf(k[1]) : Exists(j) /\ j[3] = k[3] - 1
      <4>1. CASE Exists(k)
        BY <4>1 DEF Inv, WavesInOrder
      <4>2. CASE ~Exists(k)
        <5>1. PICK r \in Requests : /\ At(r, "create")
                                    /\ k[1] = request[r].order /\ k[3] = request[r].wave
          BY <2>1, <4>2, HowInvitationsMove DEF Inv, Exists, Pending
        <5> QED
          BY <5>1 DEF Inv, ReadsStayTrue, StillTrue, At
      <4> QED
        BY <4>1, <4>2
    <3>3. \A j \in KeysOf(k[1]) : Exists(j) => Exists(j)'
      BY InvitationsStay DEF Inv, KeysOf
    <3>4. status'[k[1]] # "PENDING_PAYMENT"
      BY <3>1, <3>2, HowOrdersMove DEF Inv
    <3> QED
      BY <3>2, <3>3, <3>4
  <2> QED
    BY <2>1 DEF WavesInOrder, KeysOf
<1>5. AlertsAreTruthful'
  <2>1. audited' \subseteq Orders /\ alerted' \subseteq Orders
    BY <1>1 DEF TypeOK
  <2>2. ASSUME NEW o \in audited'
        PROVE  status'[o] \in {"DISPATCH_FAILED", "CANCELLED"} /\ assigned'[o] = None
    <3>1. o \in Orders
      BY <2>1
    <3>2. status[o] \in {"DISPATCH_FAILED", "CANCELLED"} /\ assigned[o] = None
      <4>1. CASE o \in audited
        BY <4>1 DEF Inv, AlertsAreTruthful
      <4>2. CASE o \notin audited
        <5>1. PICK r \in Requests : At(r, "audit") /\ request[r].order = o
          BY <3>1, <4>2, HowTrailsGrow
        <5> QED
          BY <5>1 DEF Inv, ReadsStayTrue, StillTrue, At
      <4> QED
        BY <4>1, <4>2
    <3> QED
      BY <3>1, <3>2, HowOrdersMove DEF Inv
  <2>3. ASSUME NEW o \in alerted'
        PROVE  o \in audited'
    <3>1. o \in Orders
      BY <2>1, <2>3
    <3>2. CASE o \in alerted
      BY <3>2, TrailsGrow DEF Inv, AlertsAreTruthful
    <3>3. CASE o \notin alerted
      <4>1. PICK r \in Requests : At(r, "alert") /\ request[r].order = o
        BY <3>1, <3>3, HowTrailsGrow
      <4>2. o \in audited
        BY <4>1 DEF Inv, ReadsStayTrue, StillTrue, At
      <4> QED
        BY <4>2, TrailsGrow
    <3> QED
      BY <3>2, <3>3
  <2> QED
    BY <2>2, <2>3 DEF AlertsAreTruthful
<1> QED
  BY <1>1, <1>2, <1>3, <1>4, <1>5 DEF Inv

THEOREM InvHolds == Spec => []Inv
BY InitInv, NextInv, PTL DEF Spec

\* Whatever the number of orders, providers, requests and waves: at most one
\* provider accepts an order, and the order is that provider's.
THEOREM OneTaker == Spec => []AssignedByAcceptance
<1>1. Inv => AssignedByAcceptance
  BY DEF Inv, Assignments
<1> QED
  BY <1>1, InvHolds, PTL

\* An order is in service only with a provider, and dispatch gives none up that
\* has one (acceptInvitation, failClosed).
THEOREM ServiceHasAProvider == Spec => []StatusMatchesAssignment
<1>1. Inv => StatusMatchesAssignment
  BY DEF Inv, Assignments
<1> QED
  BY <1>1, InvHolds, PTL

\* Overlapping starts never skip a wave, and no invitation precedes payment.
THEOREM WavesStayInOrder == Spec => []WavesInOrder
<1>1. Inv => WavesInOrder
  BY DEF Inv
<1> QED
  BY <1>1, InvHolds, PTL

\* The audit trail and the alerts only name orders that dispatch gave up.
THEOREM AlertsStayTruthful == Spec => []AlertsAreTruthful
<1>1. Inv => AlertsAreTruthful
  BY DEF Inv
<1> QED
  BY <1>1, InvHolds, PTL

\* What a request remembers is still true when it uses it.
THEOREM MemoryIsSound == Spec => []ReadsStayTrue
<1>1. Inv => ReadsStayTrue
  BY DEF Inv
<1> QED
  BY <1>1, InvHolds, PTL

-----------------------------------------------------------------------------
(* Dispatch implements Assignment.                                         *)

LEMMA InitImplements == Init => Contract!Init
<1> SUFFICES ASSUME Init PROVE Contract!Init
  OBVIOUS
<1>1. Phases = [o \in Orders |-> "unpaid"]
  BY DEF Init, Phases, Phase
<1>2. OffersOut = [o \in Orders |-> {}]
  BY DEF Init, OffersOut, KeysOf, Pending
<1> QED
  BY <1>1, <1>2 DEF Init, Contract!Init

\* Changes of the invitations that only withdraw some.
LEMMA Withdrawing ==
  ASSUME TypeOK, UNCHANGED <<status, assigned>>, NEW S, NEW answer \in {"EXPIRED", "CANCELLED"},
         invitation' = Respond(S, answer)
  PROVE  Contract!Withdraw
<1>1. UNCHANGED Phases
  BY DEF Phases, Phase
<1>2. \A k \in Keys : Pending(k)' => Pending(k)
  BY DEF Respond, Pending, TypeOK, Invitation
<1>3. OffersOut' \in [Orders -> SUBSET Providers]
  BY DEF OffersOut, KeysOf, Keys
<1>4. ASSUME NEW o \in Orders
      PROVE  OffersOut'[o] \subseteq OffersOut[o]
  BY <1>2 DEF OffersOut, KeysOf
<1> QED
  BY <1>1, <1>3, <1>4 DEF Contract!Withdraw

\* Steps that leave orders, providers and invitations alone.
LEMMA Stuttering ==
  ASSUME UNCHANGED <<status, assigned, invitation>>
  PROVE  UNCHANGED Contract!assignmentVars
BY DEF Contract!assignmentVars, Phases, Phase, OffersOut, KeysOf, Pending

\* An order that changes its status and keeps its provider and invitations.
LEMMA OneStatus ==
  ASSUME TypeOK, NEW o \in Orders, NEW s, status' = [status EXCEPT ![o] = s],
         UNCHANGED <<assigned, invitation>>
  PROVE  /\ Phases' = [Phases EXCEPT ![o] = Phase(o)']
         /\ UNCHANGED <<assigned, OffersOut>>
<1>1. ASSUME NEW oo \in Orders
      PROVE  Phases'[oo] = IF oo = o THEN Phase(o)' ELSE Phases[oo]
  BY DEF Phases, Phase, TypeOK
<1>2. Phases' = [Phases EXCEPT ![o] = Phase(o)']
  BY <1>1 DEF Phases
<1>3. UNCHANGED OffersOut
  BY DEF OffersOut, KeysOf, Pending
<1> QED
  BY <1>2, <1>3

\* start invites the providers it picked, and nobody else.
LEMMA CreatingOffers ==
  ASSUME Inv, NEW r \in Requests, CreateWave(r)
  PROVE  [Contract!Next]_(Contract!assignmentVars)
<1> USE DEF orderVars, profileVars, trailVars, boundVars
<1>1. CASE UNCHANGED invitation
  BY <1>1, Stuttering DEF CreateWave
<1>2. CASE ~UNCHANGED invitation
  <2>1. PICK o \in Orders, P \in SUBSET Providers, w \in 0..MaxWaves :
          o = request[r].order /\ P = request[r].providers /\ w = request[r].wave
    BY DEF CreateWave, At, Inv, TypeOK, Request, Locals
  <2> DEFINE rows == {<<o, p, w>> : p \in P}
  <2>2. PICK t :
          /\ \A j \in rows : ~Exists(j)
          /\ invitation' = [j \in Keys |->
               IF j \in rows THEN [status |-> "PENDING", expiresAt |-> t] ELSE invitation[j]]
    BY <1>2, <2>1 DEF CreateWave
  <2>3. \A k \in Keys : Pending(k)' <=> (k \in rows \/ Pending(k))
    BY <2>2 DEF Pending
  <2>4. UNCHANGED <<Phases, assigned>>
    BY DEF CreateWave, Phases, Phase
  <2>5. w \in Waves
    BY <2>1, DispatchAssumption DEF CreateWave, At, Inv, ReadsStayTrue, StillTrue, Waves
  <2>6. ASSUME NEW oo \in Orders
        PROVE  OffersOut'[oo] = IF oo = o THEN OffersOut[o] \cup P ELSE OffersOut[oo]
    <3>1. CASE oo = o
      <4>1. \A p \in P : <<o, p, w>> \in KeysOf(o) /\ <<o, p, w>> \in rows
        BY <2>5 DEF KeysOf, Keys
      <4>2. ASSUME NEW p
            PROVE  (\E k \in KeysOf(o) : Pending(k)' /\ p = k[2])
                     <=> p \in P \/ \E k \in KeysOf(o) : Pending(k) /\ p = k[2]
        <5>1. ASSUME p \in P
              PROVE  \E k \in KeysOf(o) : Pending(k)' /\ p = k[2]
          <6>1. <<o, p, w>>[2] = p
            OBVIOUS
          <6>2. Pending(<<o, p, w>>)'
            BY <2>3, <4>1, <5>1 DEF KeysOf
          <6> QED
            BY <4>1, <5>1, <6>1, <6>2
        <5>2. \A k \in rows : k[2] \in P
          OBVIOUS
        <5> QED
          BY <2>3, <5>1, <5>2 DEF KeysOf
      <4>3. OffersOut[o] = {k[2] : k \in {j \in KeysOf(o) : Pending(j)}}
        BY DEF OffersOut
      <4>4. OffersOut'[o] = {k[2] : k \in {j \in KeysOf(o) : Pending(j)'}}
        BY DEF OffersOut, KeysOf
      <4> QED
        BY <3>1, <4>2, <4>3, <4>4
    <3>2. CASE oo # o
      <4>1. \A k \in KeysOf(oo) : Pending(k)' <=> Pending(k)
        BY <2>3, <3>2 DEF KeysOf
      <4> QED
        BY <3>2, <4>1 DEF OffersOut, KeysOf
    <3> QED
      BY <3>1, <3>2
  <2>7. Contract!Offer(o, P)
    <3>1. OffersOut' = [OffersOut EXCEPT ![o] = @ \cup P]
      BY <2>6 DEF OffersOut
    <3> QED
      BY <2>4, <3>1 DEF Contract!Offer
  <2> QED
    BY <2>7 DEF Contract!Next
<1> QED
  BY <1>1, <1>2

\* Accepting takes an open order out of the offers for it.
LEMMA Taking ==
  ASSUME Inv, NEW r \in Requests, AcceptInvitation(r)
  PROVE  [Contract!Next]_(Contract!assignmentVars)
<1> USE DEF orderVars, profileVars, trailVars, boundVars
<1>1. PICK k \in request[r].keys :
        \/ /\ Acceptable(k, request[r].now)
           /\ status' = [status EXCEPT ![k[1]] = "PENDING_SERVICE"]
           /\ assigned' = [assigned EXCEPT ![k[1]] = k[2]]
           /\ invitation' = [Respond(KeysOf(k[1]), "CANCELLED") EXCEPT ![k].status = "ACCEPTED"]
        \/ UNCHANGED <<status, assigned, invitation>>
  BY DEF AcceptInvitation
<1>2. k \in Keys /\ k[1] \in Orders /\ k[2] \in Providers
  BY DEF AcceptInvitation, At, Inv, TypeOK, Request, Locals, Keys
<1>3. CASE UNCHANGED <<status, assigned, invitation>>
  BY <1>3, Stuttering
<1>4. CASE /\ Acceptable(k, request[r].now)
           /\ status' = [status EXCEPT ![k[1]] = "PENDING_SERVICE"]
           /\ assigned' = [assigned EXCEPT ![k[1]] = k[2]]
           /\ invitation' = [Respond(KeysOf(k[1]), "CANCELLED") EXCEPT ![k].status = "ACCEPTED"]
  <2> DEFINE answered == Respond(KeysOf(k[1]), "CANCELLED")
  <2>1. answered \in [Keys -> Invitation]
    BY RespondType DEF Inv
  <2>2. \A j \in Keys : Pending(j)' <=> (j # k /\ answered[j].status = "PENDING")
    BY <1>2, <1>4, <2>1 DEF Pending, Invitation
  <2>3. \A j \in Keys : answered[j].status = "PENDING" <=> (Pending(j) /\ j \notin KeysOf(k[1]))
    BY DEF Respond, Pending, Inv, TypeOK, Invitation
  <2>4. \A j \in Keys : Pending(j)' <=> (Pending(j) /\ j[1] # k[1])
    BY <1>2, <2>2, <2>3 DEF KeysOf
  <2>5. ASSUME NEW o \in Orders
        PROVE  OffersOut'[o] = IF o = k[1] THEN {} ELSE OffersOut[o]
    BY <2>4 DEF OffersOut, KeysOf
  <2>6. OffersOut' = [OffersOut EXCEPT ![k[1]] = {}]
    BY <2>5 DEF OffersOut
  <2>7. ASSUME NEW o \in Orders
        PROVE  Phases'[o] = IF o = k[1] THEN "taken" ELSE Phases[o]
    BY <1>2, <1>4 DEF Phases, Phase, Inv, TypeOK
  <2>8. Phases' = [Phases EXCEPT ![k[1]] = "taken"]
    BY <2>7 DEF Phases
  <2>9. Phases[k[1]] = "open" /\ k[2] \in OffersOut[k[1]]
    BY <1>2, <1>4 DEF Acceptable, Phases, Phase, OffersOut, KeysOf
  <2>10. Contract!Take(k[1], k[2])
    BY <1>4, <2>6, <2>8, <2>9 DEF Contract!Take
  <2> QED
    BY <1>2, <2>10 DEF Contract!Next
<1> QED
  BY <1>1, <1>3, <1>4

\* Giving an order up, or cancelling it, closes it once.
LEMMA Closing ==
  ASSUME Inv, NEW r \in Requests, FailClosed(r) \/ CommitCancellation(r)
  PROVE  [Contract!Next]_(Contract!assignmentVars)
<1> USE DEF orderVars, profileVars, trailVars, boundVars
<1>1. PICK o \in Orders : o = request[r].order
  BY DEF FailClosed, CommitCancellation, At, Inv, TypeOK, Request, Locals
<1>2. \/ UNCHANGED <<status, assigned, invitation>>
      \/ /\ status[o] # "PENDING_PAYMENT"
         /\ \E s \in {"DISPATCH_FAILED", "CANCELLED"} : status' = [status EXCEPT ![o] = s]
         /\ UNCHANGED <<assigned, invitation>>
  BY <1>1 DEF FailClosed, MayFail, CommitCancellation, At, Inv, ReadsStayTrue, StillTrue
<1>3. CASE UNCHANGED <<status, assigned, invitation>>
  BY <1>3, Stuttering
<1>4. ASSUME status[o] # "PENDING_PAYMENT", NEW s \in {"DISPATCH_FAILED", "CANCELLED"},
             status' = [status EXCEPT ![o] = s], UNCHANGED <<assigned, invitation>>
      PROVE  [Contract!Next]_(Contract!assignmentVars)
  <2>1. Phases' = [Phases EXCEPT ![o] = Phase(o)'] /\ UNCHANGED <<assigned, OffersOut>>
    BY <1>4, OneStatus DEF Inv
  <2>2. Phase(o)' = "closed"
    BY <1>4 DEF Phase, Inv, TypeOK
  <2>3. CASE Phase(o) = "closed"
    <3>1. UNCHANGED Phases
      BY <2>1, <2>2, <2>3 DEF Phases
    <3> QED
      BY <2>1, <3>1 DEF Contract!assignmentVars
  <2>4. CASE Phase(o) # "closed"
    <3>1. Phases[o] \in {"open", "taken"}
      BY <1>4, <2>4 DEF Phases, Phase
    <3>2. Contract!Close(o)
      BY <2>1, <2>2, <3>1 DEF Contract!Close
    <3> QED
      BY <3>2 DEF Contract!Next
  <2> QED
    BY <2>3, <2>4
<1> QED
  BY <1>2, <1>3, <1>4

\* Payment opens an order; the visit itself is no step of the contract.
LEMMA Advancing ==
  ASSUME Inv, NEW o \in Orders, ConfirmFee(o) \/ CheckIn(o) \/ SubmitReport(o)
  PROVE  [Contract!Next]_(Contract!assignmentVars)
<1> USE DEF orderVars, profileVars, trailVars, boundVars
<1>1. ASSUME NEW from, NEW to, Advance(o, from, to)
      PROVE  /\ Phases' = [Phases EXCEPT ![o] = Phase(o)'] /\ UNCHANGED <<assigned, OffersOut>>
             /\ status[o] = from /\ status'[o] = to
  BY <1>1, OneStatus DEF Advance, Inv, TypeOK
<1>2. CASE ConfirmFee(o)
  <2>1. /\ Phases' = [Phases EXCEPT ![o] = Phase(o)'] /\ UNCHANGED <<assigned, OffersOut>>
        /\ status[o] = "PENDING_PAYMENT" /\ status'[o] = "PENDING_DISPATCH"
    BY <1>1, <1>2 DEF ConfirmFee
  <2>2. Phases[o] = "unpaid" /\ Phase(o)' = "open"
    BY <2>1 DEF Phases, Phase
  <2>3. Contract!Open(o)
    BY <2>1, <2>2 DEF Contract!Open
  <2> QED
    BY <2>3 DEF Contract!Next
<1>3. CASE CheckIn(o) \/ SubmitReport(o)
  <2>1. /\ Phases' = [Phases EXCEPT ![o] = Phase(o)'] /\ UNCHANGED <<assigned, OffersOut>>
        /\ status[o] \in {"PENDING_SERVICE", "IN_SERVICE"}
        /\ status'[o] \in {"IN_SERVICE", "PENDING_CONFIRMATION"}
    BY <1>1, <1>3 DEF CheckIn, SubmitReport
  <2>2. Phases[o] = "taken" /\ Phase(o)' = "taken"
    BY <2>1 DEF Phases, Phase
  <2>3. UNCHANGED Phases
    BY <2>1, <2>2 DEF Phases
  <2> QED
    BY <2>1, <2>3 DEF Contract!assignmentVars
<1> QED
  BY <1>2, <1>3

LEMMA NextImplements ==
  ASSUME Inv, [Next]_vars
  PROVE  [Contract!Next]_(Contract!assignmentVars)
<1> USE DEF orderVars, profileVars, trailVars, boundVars
<1>1. CASE UNCHANGED <<status, assigned, invitation>>
  BY <1>1, Stuttering
<1>2. ASSUME NEW S, NEW answer \in {"EXPIRED", "CANCELLED"},
             UNCHANGED <<status, assigned>>, invitation' = Respond(S, answer)
      PROVE  [Contract!Next]_(Contract!assignmentVars)
  BY <1>2, Withdrawing DEF Inv, Contract!Next
<1>3. ASSUME NEW r \in Requests, VoidIneligible(r) \/ ExpireOverdue(r)
      PROVE  [Contract!Next]_(Contract!assignmentVars)
  BY <1>2, <1>3 DEF VoidIneligible, ExpireOverdue
<1>4. ASSUME NEW r \in Requests,
             \/ SweepIneligible(r) \/ ReadCurrent(r) \/ LoadOrder(r) \/ RankCandidates(r)
             \/ AuditFailure(r) \/ NotifyFailure(r) \/ ReadLatestWave(r) \/ NextDue(r)
             \/ Arrive(r) \/ Abort(r)
      PROVE  UNCHANGED <<status, assigned, invitation>>
  BY <1>4 DEF SweepIneligible, ReadCurrent, LoadOrder, RankCandidates, AuditFailure,
       NotifyFailure, ReadLatestWave, NextDue, Arrive, StartDispatch, ExpireWave,
       RequestCancellation, RequestAccept, RunJobs, Abort
<1>5. CASE Administer
  <2>1. PICK p \in Providers :
          \/ \E verdict \in {"APPROVED", "SUSPENDED"} : ReviewProvider(p, verdict)
          \/ UNCHANGED <<status, assigned, invitation>>
    BY <1>5 DEF Administer, SetAvailability, SetDisabled
  <2>2. CASE \E verdict \in {"APPROVED", "SUSPENDED"} : ReviewProvider(p, verdict)
    BY <1>1, <1>2, <2>2 DEF ReviewProvider
  <2> QED
    BY <1>1, <2>1, <2>2
<1>6. CASE Tick \/ UNCHANGED vars
  BY <1>1, <1>6 DEF Tick, vars
<1>7. CASE \E r \in Requests : Proceed(r) \/ Arrive(r) \/ Abort(r)
  BY <1>1, <1>3, <1>4, <1>7, CreatingOffers, Taking, Closing DEF Proceed
<1> QED
  BY <1>5, <1>6, <1>7, Advancing DEF Next

\* Dispatch implements Assignment, for every number of requests in flight: each
\* statement of a handler is one step of the contract, or none.
THEOREM DispatchImplementsAssignment == Spec => ImplementsAssignment
<1>1. Inv /\ [Next]_vars => [Contract!Next]_(Contract!assignmentVars)
  BY NextImplements
<1> QED
  BY <1>1, InvHolds, InitImplements, PTL DEF Spec, ImplementsAssignment, Contract!Spec

-----------------------------------------------------------------------------
(* One wave out.  Two overlapping starts may both find no wave and open one *)
(* each; that is what puts the order into raced.  Whatever else overlaps, a  *)
(* start that found no wave knows until it creates its own that there is     *)
(* none, or the order is in raced.                                           *)

\* What a request knows of the wave it is about to create.
KnowsTheWave(q) ==
  /\ q.now <= now
  /\ q.stage \in {"load", "rank", "create"}
       => Live(q.order, q.now) = {} \/ q.order \in raced
  /\ q.stage = "create" => IsFiniteSet(q.providers) /\ Cardinality(q.providers) <= WaveSize

WaveInv ==
  /\ \A o \in Orders \ raced : IsFiniteSet(Live(o, now))
  /\ OneWaveAtATime
  /\ \A r \in Requests : KnowsTheWave(request[r])

\* An invitation is live after a step if it was before or the step created it.
LEMMA HowWavesGrow ==
  ASSUME TypeOK, [Next]_vars, NEW o, NEW t, NEW k \in Live(o, t)'
  PROVE  \/ k \in Live(o, t)
         \/ \E r \in Requests : /\ At(r, "create") /\ ~At(r, "create")'
                                /\ o = request[r].order
                                /\ k[3] = request[r].wave
                                /\ k[2] \in request[r].providers
<1>1. k \in Keys /\ k[1] = o /\ invitation'[k].status = "PENDING" /\ invitation'[k].expiresAt > t
  BY DEF Live, KeysOf, Pending
<1>2. CASE invitation'[k] = invitation[k]
  BY <1>1, <1>2 DEF Live, KeysOf, Pending
<1>3. CASE invitation'[k] # invitation[k]
  BY <1>1, <1>3, HowInvitationsMove
<1> QED
  BY <1>2, <1>3

\* The clock does not go back.
LEMMA ClockGoesOn ==
  ASSUME TypeOK, [Next]_vars
  PROVE  now \in Nat /\ now' \in Nat /\ now <= now'
<1>1. now \in Nat /\ now' \in Nat
  BY NextType DEF TypeOK
<1>2. CASE Tick
  BY <1>1, <1>2 DEF Tick
<1>3. CASE UNCHANGED now
  BY <1>1, <1>3
<1> USE DEF orderVars, profileVars, trailVars, boundVars
<1>4. ASSUME NEW r \in Requests, Proceed(r) \/ Arrive(r) \/ Abort(r)
      PROVE  UNCHANGED now
  BY <1>4 DEF Proceed, SweepIneligible, VoidIneligible, ReadCurrent, LoadOrder, RankCandidates,
       CreateWave, FailClosed, AuditFailure, NotifyFailure, ExpireOverdue, ReadLatestWave,
       NextDue, AcceptInvitation, CommitCancellation, Arrive, StartDispatch, ExpireWave,
       RequestCancellation, RequestAccept, RunJobs, Abort
<1>5. ASSUME \/ \E o \in Orders : ConfirmFee(o) \/ CheckIn(o) \/ SubmitReport(o)
             \/ Administer \/ UNCHANGED vars
      PROVE  UNCHANGED now
  BY <1>5 DEF ConfirmFee, CheckIn, SubmitReport, Advance, Administer, AdminOp, ReviewProvider,
       SetAvailability, SetDisabled, vars
<1> QED
  BY <1>2, <1>3, <1>4, <1>5 DEF Next

\* What the step of a request makes it know is so.
LEMMA NewKnowledge ==
  ASSUME TypeOK, [Next]_vars, NEW r \in Requests, KnowsTheWave(request[r]),
         Proceed(r) \/ Arrive(r) \/ Abort(r)
  PROVE  KnowsTheWave(request[r])'
<1>p. PICK q \in Request : q = request[r]
  BY DEF TypeOK
<1>q. /\ q \in Request /\ q \in Locals /\ q.now \in Nat /\ q.now <= now
      /\ request'[r] \in Locals
      /\ now \in Nat /\ now' \in Nat /\ now <= now' /\ raced \subseteq raced'
  BY <1>p, NextType, ClockGoesOn, TrailsGrow DEF TypeOK, Request, Locals, KnowsTheWave
<1>s. \A n : Slot(r, n) => request'[r] = n
  BY DEF TypeOK, Slot
<1>a. /\ Idle.stage = "idle" /\ Idle.now = 0
      /\ AfterCall(q).stage \in {"idle", "next"} /\ AfterCall(q).now \in {0, q.now}
  BY DEF AfterCall, Idle
<1> DEFINE Blind == /\ request'[r].now \in {0, q.now, now}
                    /\ request'[r].stage \notin {"load", "rank", "create"}
<1>b. ASSUME Blind PROVE KnowsTheWave(request[r])'
  BY <1>b, <1>q DEF KnowsTheWave
<1> USE DEF At, Return, Throw, orderVars, profileVars, trailVars, boundVars
<1>1. CASE ReadCurrent(r)
  <2>1. /\ UNCHANGED <<invitation, now>>
        /\ \/ request'[r] = AfterCall(q)
           \/ /\ request'[r] = [q EXCEPT !.stage = "load"]
              /\ Live(q.order, q.now) = {}
    BY <1>1, <1>p, <1>s DEF ReadCurrent, HasCurrent
  <2>2. CASE request'[r] = AfterCall(q)
    BY <2>2, <1>a, <1>b
  <2>3. CASE request'[r] = [q EXCEPT !.stage = "load"] /\ Live(q.order, q.now) = {}
    <3>1. request'[r].stage = "load" /\ request'[r].order = q.order /\ request'[r].now = q.now
      BY <2>3, <1>q DEF Locals
    <3> QED
      BY <3>1, <2>1, <2>3, <1>q DEF KnowsTheWave, Live, KeysOf, Pending
  <2> QED
    BY <2>1, <2>2, <2>3
<1>2. CASE LoadOrder(r)
  <2>1. /\ UNCHANGED <<invitation, now>> /\ q.stage = "load"
        /\ \/ request'[r] = Idle
           \/ request'[r] = [q EXCEPT !.stage = "fail"]
           \/ \E w, P : request'[r] = [q EXCEPT !.stage = "rank", !.wave = w, !.providers = P]
    BY <1>2, <1>p, <1>s DEF LoadOrder
  <2>2. CASE request'[r] = Idle
    BY <2>2, <1>a, <1>b
  <2>3. CASE request'[r] = [q EXCEPT !.stage = "fail"]
    <3>1. request'[r].stage = "fail" /\ request'[r].now = q.now
      BY <2>3, <1>q DEF Locals
    <3> QED
      BY <3>1, <1>b
  <2>4. CASE \E w, P : request'[r] = [q EXCEPT !.stage = "rank", !.wave = w, !.providers = P]
    <3>1. request'[r].stage = "rank" /\ request'[r].order = q.order /\ request'[r].now = q.now
      BY <2>4, <1>q DEF Locals
    <3>2. Live(q.order, q.now) = {} \/ q.order \in raced
      BY <2>1, <1>p DEF KnowsTheWave
    <3>3. Live(q.order, q.now)' = Live(q.order, q.now)
      BY <2>1 DEF Live, KeysOf, Pending
    <3> QED
      BY <3>1, <3>2, <3>3, <1>q DEF KnowsTheWave
  <2> QED
    BY <2>1, <2>2, <2>3, <2>4
<1>3. CASE RankCandidates(r)
  <2>1. /\ UNCHANGED <<invitation, now>> /\ q.stage = "rank"
        /\ \/ request'[r] = AfterCall(q)
           \/ request'[r] = [q EXCEPT !.stage = "fail", !.wave = 0, !.providers = {}]
           \/ \E picked \in TopOf(Candidates(q.order, q.providers)) :
                request'[r] = [q EXCEPT !.stage = "create", !.providers = picked]
    BY <1>3, <1>p, <1>s DEF RankCandidates
  <2>2. CASE request'[r] = AfterCall(q)
    BY <2>2, <1>a, <1>b
  <2>3. CASE request'[r] = [q EXCEPT !.stage = "fail", !.wave = 0, !.providers = {}]
    <3>1. request'[r].stage = "fail" /\ request'[r].now = q.now
      BY <2>3, <1>q DEF Locals
    <3> QED
      BY <3>1, <1>b
  <2>4. ASSUME NEW picked \in TopOf(Candidates(q.order, q.providers)),
               request'[r] = [q EXCEPT !.stage = "create", !.providers = picked]
        PROVE  KnowsTheWave(request[r])'
    <3>1. /\ request'[r].stage = "create" /\ request'[r].order = q.order
          /\ request'[r].now = q.now /\ request'[r].providers = picked
      BY <2>4, <1>q DEF Locals
    <3>2. Live(q.order, q.now) = {} \/ q.order \in raced
      BY <2>1, <1>p DEF KnowsTheWave
    <3>3. picked \subseteq Providers /\ Cardinality(picked) <= WaveSize
      <4>1. picked \subseteq Candidates(q.order, q.providers)
        BY DEF TopOf
      <4>2. \/ Cardinality(picked) <= WaveSize
        BY DEF TopOf
      <4> QED
        BY <4>1, <4>2 DEF Candidates
    <3>4. IsFiniteSet(picked)
      BY <3>3, FS_Subset, DispatchAssumption
    <3>5. Live(q.order, q.now)' = {} \/ q.order \in raced'
      BY <3>2, <2>1, <1>q DEF Live, KeysOf, Pending
    <3> QED
      BY <3>1, <3>3, <3>4, <3>5, <1>q DEF KnowsTheWave
  <2> QED
    BY <2>1, <2>2, <2>3, <2>4
<1>4. ASSUME \/ SweepIneligible(r) \/ VoidIneligible(r) \/ CreateWave(r)
             \/ FailClosed(r) \/ AuditFailure(r)
             \/ NotifyFailure(r) \/ ExpireOverdue(r) \/ ReadLatestWave(r) \/ NextDue(r)
             \/ AcceptInvitation(r) \/ CommitCancellation(r) \/ Abort(r)
      PROVE  Blind
  <2>1. \/ request'[r] = AfterCall(q)
        \/ request'[r] = Idle
        \/ \E s \in {"current", "latest", "audit", "alert", "fail", "sweep"} :
             request'[r] = [q EXCEPT !.stage = s]
        \/ \E K : request'[r] = [q EXCEPT !.stage = "void", !.keys = K]
        \/ request'[r] = [q EXCEPT !.stage = "current", !.keys = {}]
        \/ \E o, D : request'[r] = [q EXCEPT !.stage = "expire", !.order = o, !.due = D]
    <3>1. CASE SweepIneligible(r) \/ VoidIneligible(r)
      BY <3>1, <1>p, <1>s DEF SweepIneligible, VoidIneligible
    <3>2. CASE CreateWave(r) \/ AcceptInvitation(r) \/ CommitCancellation(r) \/ Abort(r)
      BY <3>2, <1>p, <1>s DEF CreateWave, AcceptInvitation, CommitCancellation, Abort
    <3>3. CASE FailClosed(r) \/ AuditFailure(r) \/ NotifyFailure(r)
      BY <3>3, <1>p, <1>s DEF FailClosed, AuditFailure, NotifyFailure
    <3>4. CASE ExpireOverdue(r) \/ ReadLatestWave(r)
      BY <3>4, <1>p, <1>s DEF ExpireOverdue, ReadLatestWave
    <3>5. CASE NextDue(r)
      <4>1. PICK o : Slot(r, [q EXCEPT !.stage = "expire", !.order = o, !.due = @ \ {o}])
        BY <3>5, <1>p DEF NextDue
      <4>2. PICK D : D = q.due \ {o}
        OBVIOUS
      <4>3. [q EXCEPT !.stage = "expire", !.order = o, !.due = @ \ {o}]
              = [q EXCEPT !.stage = "expire", !.order = o, !.due = D]
        BY <4>2
      <4>4. request'[r] = [q EXCEPT !.stage = "expire", !.order = o, !.due = D]
        BY <4>1, <4>3, <1>s
      <4>5. \E u, E : request'[r] = [q EXCEPT !.stage = "expire", !.order = u, !.due = E]
        <5> WITNESS o, D
        <5> QED
          BY <4>4
      <4> QED
        BY <4>5
    <3> QED
      BY <1>4, <3>1, <3>2, <3>3, <3>4, <3>5
  <2> QED
    BY <1>q, <1>a, <2>1 DEF Locals
<1>5. ASSUME Arrive(r)
      PROVE  Blind
  <2>1. \/ \E s \in {"sweep", "expire"} : \E o :
             request'[r] = [Idle EXCEPT !.stage = s, !.order = o, !.now = now]
        \/ \E o : request'[r] = [Idle EXCEPT !.stage = "refund", !.order = o]
        \/ \E k : request'[r] = [Idle EXCEPT !.stage = "accept", !.order = k[1],
                                             !.keys = {k}, !.now = now]
        \/ request'[r] = [Idle EXCEPT !.stage = "next", !.now = now, !.due = DueOrders(now)]
    BY <1>5, <1>s DEF Arrive, StartDispatch, ExpireWave, RequestCancellation, RequestAccept,
         RunJobs, Begin
  <2> QED
    BY <2>1 DEF Idle
<1> QED
  BY <1>1, <1>2, <1>3, <1>4, <1>5, <1>b DEF Proceed

\* A start that creates its wave after another start of the order has looked
\* puts the order into the history.
LEMMA CreationIsSeen ==
  ASSUME TypeOK, [Next]_vars, NEW r \in Requests, At(r, "create"), ~At(r, "create")',
         invitation' # invitation, OthersLooked(r, request[r].order)
  PROVE  request[r].order \in raced'
<1>1. Proceed(r) \/ Arrive(r) \/ Abort(r)
  BY OtherSlotsKeep DEF At
<1>2. ~Arrive(r)
  BY DEF At, Arrive, StartDispatch, ExpireWave, RequestCancellation, RequestAccept, RunJobs, Begin
<1>3. ~Abort(r)
  BY DEF Abort
<1>4. CreateWave(r)
  BY <1>1, <1>2, <1>3 DEF Proceed, At, SweepIneligible, VoidIneligible, ReadCurrent, LoadOrder,
       RankCandidates, FailClosed, AuditFailure, NotifyFailure, ExpireOverdue, ReadLatestWave,
       NextDue, AcceptInvitation, CommitCancellation
<1> QED
  BY <1>4 DEF CreateWave

\* A request that takes no step still knows: a wave that another start creates
\* meanwhile is in the history.
LEMMA KnowledgeKeeps ==
  ASSUME TypeOK, [Next]_vars, NEW r \in Requests, KnowsTheWave(request[r])
  PROVE  KnowsTheWave(request[r])'
<1>1. CASE request'[r] # request[r]
  BY <1>1, OtherSlotsKeep, NewKnowledge
<1>2. CASE request'[r] = request[r]
  <2>1. PICK q \in Request : q = request[r] /\ q = request'[r]
    BY <1>2 DEF TypeOK
  <2>2. q.now \in Nat /\ q.now <= now'
    BY <2>1, ClockGoesOn DEF Request, Locals, KnowsTheWave
  <2>3. ASSUME q.stage \in {"load", "rank", "create"}, q.order \notin raced'
        PROVE  Live(q.order, q.now)' = {}
    <3>1. Live(q.order, q.now) = {}
      BY <2>1, <2>3, TrailsGrow DEF KnowsTheWave
    <3>2. ASSUME NEW k \in Live(q.order, q.now)'
          PROVE  FALSE
      <4>1. PICK s \in Requests : /\ At(s, "create") /\ ~At(s, "create")'
                                  /\ q.order = request[s].order
        BY <3>1, HowWavesGrow
      <4>2. s # r
        BY <4>1, <1>2 DEF At
      <4>3. OthersLooked(s, request[s].order)
        BY <4>1, <4>2, <2>1, <2>3 DEF OthersLooked
      <4>4. invitation' # invitation
        BY <3>1, <3>2 DEF Live, KeysOf, Pending
      <4> QED
        BY <4>1, <4>3, <4>4, <2>3, CreationIsSeen
    <3> QED
      BY <3>2
  <2> QED
    BY <2>1, <2>2, <2>3 DEF KnowsTheWave
<1> QED
  BY <1>1, <1>2

\* The providers a start invites are as many rows.
LEMMA RowsOfAWave ==
  ASSUME NEW o, NEW w, NEW P, IsFiniteSet(P)
  PROVE  LET rows == {<<o, p, w>> : p \in P}
         IN  IsFiniteSet(rows) /\ Cardinality(rows) <= Cardinality(P)
<1> DEFINE rows == {<<o, p, w>> : p \in P}
           f == [p \in P |-> <<o, p, w>>]
<1>1. f \in Surjection(P, rows)
  BY DEF Surjection
<1> QED
  BY <1>1, FS_Surjection

LEMMA NextWaveInv ==
  ASSUME TypeOK, WaveInv, [Next]_vars
  PROVE  WaveInv'
<1>1. \A r \in Requests : KnowsTheWave(request[r])'
  BY KnowledgeKeeps DEF WaveInv
<1>2. ASSUME NEW o \in Orders \ raced'
      PROVE  /\ IsFiniteSet(Live(o, now)')
             /\ Cardinality(Live(o, now)') <= WaveSize
             /\ \A j, k \in Live(o, now)' : j[3] = k[3]
  <2>1. now \in Nat /\ now' \in Nat /\ now <= now' /\ o \in Orders \ raced
    BY ClockGoesOn, TrailsGrow
  <2>2. PICK t \in Nat : t = now'
    BY <2>1
  <2>3. Live(o, t) \subseteq Live(o, now) /\ Live(o, now)' = Live(o, t)'
    <3>1. \A k \in Keys : invitation[k].expiresAt \in Nat
      <4>1. MaxTime + Ttl \in Nat
        BY DispatchAssumption
      <4> QED
        BY <4>1 DEF TypeOK, Invitation
    <3> QED
      BY <3>1, <2>1, <2>2 DEF Live, KeysOf, Pending
  <2>4. CASE Live(o, t)' \subseteq Live(o, t)
    <3>1. /\ IsFiniteSet(Live(o, now)) /\ Cardinality(Live(o, now)) <= WaveSize
          /\ \A j, k \in Live(o, now) : j[3] = k[3]
      BY <2>1 DEF WaveInv, OneWaveAtATime, OneWave
    <3>2. Live(o, now)' \subseteq Live(o, now)
      BY <2>3, <2>4
    <3>3. /\ IsFiniteSet(Live(o, now)')
          /\ Cardinality(Live(o, now)') <= Cardinality(Live(o, now))
      BY <3>1, <3>2, FS_Subset
    <3>4. Cardinality(Live(o, now)') \in Nat /\ Cardinality(Live(o, now)) \in Nat
      BY <3>1, <3>3, FS_CardinalityType
    <3>5. Cardinality(Live(o, now)') <= WaveSize
      BY <3>1, <3>3, <3>4, DispatchAssumption
    <3> QED
      BY <3>1, <3>2, <3>3, <3>5
  <2>5. ASSUME ~(Live(o, t)' \subseteq Live(o, t))
        PROVE  /\ IsFiniteSet(Live(o, now)')
               /\ Cardinality(Live(o, now)') <= WaveSize
               /\ \A j, k \in Live(o, now)' : j[3] = k[3]
    <3>1. PICK r \in Requests : /\ At(r, "create") /\ ~At(r, "create")'
                                /\ o = request[r].order
      <4>1. PICK k \in Live(o, t)' : k \notin Live(o, t)
        BY <2>5
      <4> QED
        BY <4>1, HowWavesGrow
    <3>2. PICK q \in Request : q = request[r]
      BY DEF TypeOK
    <3>3. /\ q.now \in Nat /\ q.now <= now /\ Live(o, q.now) = {}
          /\ IsFiniteSet(q.providers) /\ Cardinality(q.providers) <= WaveSize
      BY <2>1, <3>1, <3>2 DEF WaveInv, KnowsTheWave, At, Request, Locals
    <3> DEFINE rows == {<<o, p, q.wave>> : p \in q.providers}
    <3>4. Live(o, now)' \subseteq rows
      <4>1. Live(o, now)' \subseteq Live(o, q.now)'
        <5>1. \A k \in Keys : invitation'[k].expiresAt \in Nat
          <6>1. MaxTime + Ttl \in Nat
            BY DispatchAssumption
          <6> QED
            BY <6>1, NextType DEF TypeOK, Invitation
        <5> QED
          BY <5>1, <2>1, <3>3 DEF Live, KeysOf, Pending
      <4>2. ASSUME NEW k \in Live(o, q.now)'
            PROVE  k \in rows
        <5>1. PICK s \in Requests : /\ At(s, "create") /\ ~At(s, "create")'
                                    /\ k[3] = request[s].wave
                                    /\ k[2] \in request[s].providers
          BY <3>3, HowWavesGrow
        <5>2. request[s] = q
          BY <3>1, <3>2, <5>1, OneSlotMoves DEF At
        <5>3. k = <<o, k[2], k[3]>>
          BY DEF Live, KeysOf, Keys
        <5> QED
          BY <5>1, <5>2, <5>3
      <4> QED
        BY <4>1, <4>2
    <3>5. IsFiniteSet(rows) /\ Cardinality(rows) <= Cardinality(q.providers)
      BY <3>3, RowsOfAWave
    <3>6. IsFiniteSet(Live(o, now)') /\ Cardinality(Live(o, now)') <= Cardinality(rows)
      BY <3>4, <3>5, FS_Subset
    <3>7. /\ Cardinality(Live(o, now)') \in Nat /\ Cardinality(rows) \in Nat
          /\ Cardinality(q.providers) \in Nat
      BY <3>3, <3>5, <3>6, FS_CardinalityType
    <3>8. Cardinality(Live(o, now)') <= WaveSize
      BY <3>3, <3>5, <3>6, <3>7, DispatchAssumption
    <3>9. \A k \in rows : k[3] = q.wave
      OBVIOUS
    <3> QED
      BY <3>4, <3>6, <3>8, <3>9
  <2> QED
    BY <2>4, <2>5
<1> QED
  BY <1>1, <1>2 DEF WaveInv, OneWaveAtATime, OneWave

\* One wave of at most WaveSize providers is out at a time, whatever overlaps: the
\* only thing that opens a second one is a start whose wave is created after
\* another start of the order has looked (start's test for a current wave,
\* dispatch-service.ts, is a read before a separate transaction).
THEOREM WavesDoNotOverlap == Spec => []OneWaveAtATime
<1>1. Init => WaveInv
  <2> SUFFICES ASSUME Init PROVE WaveInv
    OBVIOUS
  <2>1. \A o \in Orders : Live(o, now) = {}
    BY DEF Init, Live, KeysOf, Pending
  <2>2. \A r \in Requests : KnowsTheWave(request[r])
    BY DEF Init, Idle, KnowsTheWave
  <2>3. IsFiniteSet({}) /\ Cardinality({}) = 0 /\ 0 <= WaveSize
    BY FS_EmptySet, DispatchAssumption
  <2>4. \A o \in Orders : IsFiniteSet(Live(o, now)) /\ Cardinality(Live(o, now)) <= WaveSize
    BY <2>1, <2>3
  <2> QED
    BY <2>1, <2>2, <2>4 DEF WaveInv, OneWaveAtATime, OneWave
<1>2. TypeOK /\ WaveInv /\ [Next]_vars => WaveInv'
  BY NextWaveInv
<1>3. WaveInv => OneWaveAtATime
  BY DEF WaveInv
<1> QED
  BY <1>1, <1>2, <1>3, TypeCorrect, PTL DEF Spec

=============================================================================
