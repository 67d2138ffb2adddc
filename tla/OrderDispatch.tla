--------------------------- MODULE OrderDispatch ---------------------------
(***************************************************************************)
(* Dispatching paid orders to providers: the invitation waves of           *)
(* DispatchService, the reviews of ProviderService that withdraw           *)
(* invitations, the expiry sweep of ScheduledJobs, and the steps of the    *)
(* other services that race with them on the same order row.               *)
(*                                                                         *)
(* A request runs in a slot.  Every awaited database statement of a        *)
(* handler is one step of its slot, so what a handler read may be stale    *)
(* when it writes; a Serializable transaction is one step, because a       *)
(* conflicting writer of the rows it touches makes it fail.                *)
(*                                                                         *)
(* A definition X_Slip, written before X, is X with a plausible slip: the  *)
(* properties are tested by putting it in the place of X.                  *)
(***************************************************************************)
EXTENDS Integers, FiniteSets

CONSTANTS Orders,       \* order ids
          Providers,    \* provider profile ids
          Requests,     \* slots for requests the API is serving
          None,         \* "no provider" and "no order"
          Suited,       \* Suited[o]: providers of o's service type, zone and radius
          StartsAt,     \* StartsAt[o], EndsAt[o]: o's visit
          EndsAt,
          ActiveLimit,  \* ActiveLimit[p]: ProviderProfile.activeOrderLimit
          WaveSize,     \* providers invited per wave (3 in the code)
          MaxWaves,     \* MAX_WAVES (2 in the code)
          Ttl,          \* INVITATION_TTL_MS in ticks
          MaxTime,      \* bound: the clock stops here
          MaxAdminOps,  \* bound: reviews, disablings and availability changes
          MaxAborts     \* bound: requests that die half-way

ASSUME DispatchAssumption ==
  /\ None \notin Orders /\ None \notin Providers
  /\ IsFiniteSet(Providers)
  /\ Suited \in [Orders -> SUBSET Providers]
  /\ StartsAt \in [Orders -> Int] /\ EndsAt \in [Orders -> Int]
  /\ ActiveLimit \in [Providers -> Nat]
  /\ WaveSize \in Nat \ {0} /\ MaxWaves \in Nat \ {0} /\ Ttl \in Nat \ {0}
  /\ MaxTime \in Nat /\ MaxAdminOps \in Nat /\ MaxAborts \in Nat

VARIABLES status,      \* Order.status
          assigned,    \* Order.assignedProviderId
          invitation,  \* the DispatchInvitation rows, by their unique key
          review,      \* ProviderProfile.reviewStatus
          disabled,    \* providers whose staff account is disabled
          available,   \* available[p]: orders whose visit p's intervals cover
          request,     \* what each slot is doing
          audited,     \* orders with a DISPATCH_FAILED audit event
          alerted,     \* orders the alert sink was told about
          raced,       \* history, which no action reads: orders of which a start
                       \* opened a wave behind the back of another start
          now, adminOps, aborts

orderVars == <<status, assigned>>
profileVars == <<review, disabled, available>>
trailVars == <<audited, alerted, raced>>
boundVars == <<now, adminOps, aborts>>
vars == <<orderVars, invitation, profileVars, request, trailVars, boundVars>>

-----------------------------------------------------------------------------
OrderStatus == {"PENDING_PAYMENT", "PENDING_DISPATCH", "PENDING_SERVICE", "IN_SERVICE",
                "PENDING_CONFIRMATION", "CANCELLED", "DISPATCH_FAILED"}

\* REJECTED has the same effect as SUSPENDED and is not told apart from it.
ReviewStatus == {"PENDING", "APPROVED", "SUSPENDED"}

Waves == 1..MaxWaves
Keys == Orders \X Providers \X Waves

\* "NONE": there is no such row.
Invitation == [status : {"NONE", "PENDING", "ACCEPTED", "EXPIRED", "CANCELLED"},
               expiresAt : 0..(MaxTime + Ttl)]

Stage == {"idle", "next", "sweep", "void", "current", "load", "rank", "create",
          "fail", "audit", "alert", "expire", "latest", "accept", "refund"}

Locals == [stage : Stage, order : Orders \cup {None},
           now : 0..MaxTime,                \* the clock value the handler was given
           wave : 0..MaxWaves,
           providers : SUBSET Providers,    \* already invited, then picked
           keys : SUBSET Keys,              \* invitations read
           due : SUBSET Orders]             \* what a run of the jobs has left

Request == {q \in Locals : q.order = None <=> q.stage \in {"idle", "next"}}

Idle == [stage |-> "idle", order |-> None, now |-> 0, wave |-> 0,
         providers |-> {}, keys |-> {}, due |-> {}]

TypeOK ==
  /\ status \in [Orders -> OrderStatus]
  /\ assigned \in [Orders -> Providers \cup {None}]
  /\ invitation \in [Keys -> Invitation]
  /\ review \in [Providers -> ReviewStatus]
  /\ disabled \subseteq Providers
  /\ available \in [Providers -> SUBSET Orders]
  /\ request \in [Requests -> Request]
  /\ audited \subseteq Orders
  /\ alerted \subseteq Orders
  /\ raced \subseteq Orders
  /\ now \in 0..MaxTime /\ adminOps \in 0..MaxAdminOps /\ aborts \in 0..MaxAborts

Init ==
  /\ status = [o \in Orders |-> "PENDING_PAYMENT"]
  /\ assigned = [o \in Orders |-> None]
  /\ invitation = [k \in Keys |-> [status |-> "NONE", expiresAt |-> 0]]
  /\ review \in [Providers -> {"PENDING", "APPROVED"}]
  /\ disabled = {}
  /\ available \in [Providers -> {{}, Orders}]
  /\ request = [r \in Requests |-> Idle]
  /\ audited = {} /\ alerted = {} /\ raced = {}
  /\ now = 0 /\ adminOps = 0 /\ aborts = 0

-----------------------------------------------------------------------------
(* What the handlers read.                                                 *)

KeysOf(o) == {k \in Keys : k[1] = o}
Exists(k) == invitation[k].status # "NONE"
Pending(k) == invitation[k].status = "PENDING"

\* Pending invitations of o that have not expired at time t, and those that have.
Live(o, t) == {k \in KeysOf(o) : Pending(k) /\ invitation[k].expiresAt > t}
Overdue(o, t) == {k \in KeysOf(o) : Pending(k) /\ invitation[k].expiresAt <= t}

\* reviewStatus APPROVED and acceptsInvitations: review() is the only writer of
\* the flag after the schema's default TRUE and sets it to status = 'APPROVED'.
Eligible(p) == review[p] = "APPROVED"

WavesOf(o) == {k[3] : k \in {j \in KeysOf(o) : Exists(j)}}
LatestWave(o) ==
  IF WavesOf(o) = {} THEN 0 ELSE CHOOSE w \in WavesOf(o) : \A v \in WavesOf(o) : v <= w

\* The wave a start would open, and the test that there is none left.
NextWave(o) == LatestWave(o) + 1
Exhausted_Slip(wave) == wave > MaxWaves + 1
Exhausted(wave) == wave > MaxWaves

\* previouslyInvited: whatever became of the invitation.
InvitedTo(o) == {k[2] : k \in {j \in KeysOf(o) : Exists(j)}}

\* start's test that dispatch is allowed, and failClosed's where clause.
DispatchAllowed_Slip(o) == status[o] \in {"PENDING_PAYMENT", "PENDING_DISPATCH"}
DispatchAllowed(o) == status[o] = "PENDING_DISPATCH"
MayFail_Slip(o) == TRUE
MayFail(o) == status[o] = "PENDING_DISPATCH"

\* The assignedOrders the candidate query loads for p when it ranks p for o.
ActiveFor(p, o) ==
  {a \in Orders : /\ assigned[a] = p
                  /\ status[a] \in {"PENDING_SERVICE", "IN_SERVICE"}
                  /\ StartsAt[a] < EndsAt[o]}

HasConflict(p, o) == \E a \in ActiveFor(p, o) : EndsAt[a] > StartsAt[o]

Candidates(o, invited) ==
  {p \in Providers \ invited :
     /\ p \in Suited[o]
     /\ Eligible(p)
     /\ p \notin disabled
     /\ o \in available[p]
     /\ ~HasConflict(p, o)
     /\ Cardinality(ActiveFor(p, o)) < ActiveLimit[p]}

\* rankCandidates(...).slice(0, 3): the ranking keys are data, so any WaveSize
\* of the candidates may come first.
TopOf(C) ==
  {S \in SUBSET C : /\ Cardinality(S) <= WaveSize
                    /\ Cardinality(S) = WaveSize \/ S = C}

-----------------------------------------------------------------------------
(* How a step writes.                                                      *)

Slot(r, q) == request' = [request EXCEPT ![r] = q]

\* The handler returns: a run of the jobs goes on with the next order due.
AfterCall(q) ==
  IF q.due = {} THEN Idle ELSE [Idle EXCEPT !.stage = "next", !.now = q.now, !.due = q.due]
Return(r) == Slot(r, AfterCall(request[r]))

\* The handler throws: the error leaves the loop of the jobs as well.
Throw(r) == Slot(r, Idle)

\* updateMany over the invitations in S that are still PENDING.
Respond_Slip(S, answer) ==
  [k \in Keys |-> IF k \in S /\ Exists(k)
                  THEN [invitation[k] EXCEPT !.status = answer] ELSE invitation[k]]
Respond(S, answer) ==
  [k \in Keys |-> IF k \in S /\ Pending(k)
                  THEN [invitation[k] EXCEPT !.status = answer] ELSE invitation[k]]

At(r, stage) == request[r].stage = stage

Begin(r, stage, o) ==
  /\ At(r, "idle")
  /\ Slot(r, [Idle EXCEPT !.stage = stage, !.order = o, !.now = now])

-----------------------------------------------------------------------------
(* DispatchService.start, statement by statement.                          *)

StartDispatch(r, o) ==
  /\ Begin(r, "sweep", o)
  /\ UNCHANGED <<orderVars, invitation, profileVars, trailVars, boundVars>>

\* Read the live invitations whose provider is no longer eligible.
SweepIneligible(r) ==
  /\ At(r, "sweep")
  /\ LET q == request[r]
         ineligible == {k \in Live(q.order, q.now) : ~Eligible(k[2])}
     IN  IF ineligible = {}
         THEN Slot(r, [q EXCEPT !.stage = "current"])
         ELSE Slot(r, [q EXCEPT !.stage = "void", !.keys = ineligible])
  /\ UNCHANGED <<orderVars, invitation, profileVars, trailVars, boundVars>>

VoidIneligible(r) ==
  /\ At(r, "void")
  /\ invitation' = Respond(request[r].keys, "CANCELLED")
  /\ Slot(r, [request[r] EXCEPT !.stage = "current", !.keys = {}])
  /\ UNCHANGED <<orderVars, profileVars, trailVars, boundVars>>

\* A wave that is still live answers the call: start is idempotent.
HasCurrent_Slip(o, t) == FALSE
HasCurrent(o, t) == Live(o, t) # {}

ReadCurrent(r) ==
  /\ At(r, "current")
  /\ LET q == request[r]
     IN  IF HasCurrent(q.order, q.now)
         THEN Return(r)
         ELSE Slot(r, [q EXCEPT !.stage = "load"])
  /\ UNCHANGED <<orderVars, invitation, profileVars, trailVars, boundVars>>

\* The order with its invitations: the next wave, or none is left.
LoadOrder(r) ==
  /\ At(r, "load")
  /\ LET q == request[r]
         wave == NextWave(q.order)
     IN  \/ /\ ~DispatchAllowed(q.order)
            /\ Throw(r)
         \/ /\ DispatchAllowed(q.order)
            /\ Exhausted(wave)
            /\ Slot(r, [q EXCEPT !.stage = "fail"])
         \/ /\ DispatchAllowed(q.order)
            /\ ~Exhausted(wave)
            /\ Slot(r, [q EXCEPT !.stage = "rank", !.wave = wave,
                                 !.providers = InvitedTo(q.order)])
  /\ UNCHANGED <<orderVars, invitation, profileVars, trailVars, boundVars>>

RankCandidates(r) ==
  /\ At(r, "rank")
  /\ LET q == request[r]
         candidates == Candidates(q.order, q.providers)
     IN  \/ /\ candidates = {} /\ q.wave >= MaxWaves
            /\ Slot(r, [q EXCEPT !.stage = "fail", !.wave = 0, !.providers = {}])
         \/ /\ candidates = {} /\ q.wave < MaxWaves
            /\ Return(r)
         \/ /\ candidates # {}
            /\ \E picked \in TopOf(candidates) :
                 Slot(r, [q EXCEPT !.stage = "create", !.providers = picked])
  /\ UNCHANGED <<orderVars, invitation, profileVars, trailVars, boundVars>>

\* Another start of o has seen that no wave is out and not created its own yet.
OthersLooked(r, o) ==
  \E s \in Requests \ {r} : request[s].stage \in {"load", "rank", "create"}
                             /\ request[s].order = o

\* One transaction; it does not look at the order again.  The unique key
\* (order, provider, wave) makes it fail as a whole.
CreateWave(r) ==
  /\ At(r, "create")
  /\ LET q == request[r]
         rows == {<<q.order, p, q.wave>> : p \in q.providers}
     IN  \/ /\ \E k \in rows : Exists(k)
            /\ Throw(r)
            /\ UNCHANGED <<invitation, raced>>
         \/ /\ \A k \in rows : ~Exists(k)
            /\ invitation' = [k \in Keys |->
                 IF k \in rows THEN [status |-> "PENDING", expiresAt |-> q.now + Ttl]
                 ELSE invitation[k]]
            /\ raced' = IF OthersLooked(r, q.order) THEN raced \cup {q.order} ELSE raced
            /\ Return(r)
  /\ UNCHANGED <<orderVars, profileVars, audited, alerted, boundVars>>

-----------------------------------------------------------------------------
(* DispatchService.failClosed.                                             *)

FailClosed(r) ==
  /\ At(r, "fail")
  /\ LET o == request[r].order
     IN  \/ /\ MayFail(o)
            /\ status' = [status EXCEPT ![o] = "DISPATCH_FAILED"]
            /\ Slot(r, [request[r] EXCEPT !.stage = "audit"])
         \/ /\ ~MayFail(o)
            /\ Return(r)
            /\ UNCHANGED status
  /\ UNCHANGED <<assigned, invitation, profileVars, trailVars, boundVars>>

AuditFailure(r) ==
  /\ At(r, "audit")
  /\ audited' = audited \cup {request[r].order}
  /\ Slot(r, [request[r] EXCEPT !.stage = "alert"])
  /\ UNCHANGED <<orderVars, invitation, profileVars, alerted, raced, boundVars>>

NotifyFailure(r) ==
  /\ At(r, "alert")
  /\ alerted' = alerted \cup {request[r].order}
  /\ Return(r)
  /\ UNCHANGED <<orderVars, invitation, profileVars, audited, raced, boundVars>>

-----------------------------------------------------------------------------
(* DispatchService.expireWave and ScheduledJobs.runDue.                    *)

ExpireWave(r, o) ==
  /\ Begin(r, "expire", o)
  /\ UNCHANGED <<orderVars, invitation, profileVars, trailVars, boundVars>>

ExpireOverdue(r) ==
  /\ At(r, "expire")
  /\ LET q == request[r]
     IN  /\ invitation' = Respond(Overdue(q.order, q.now), "EXPIRED")
         /\ Slot(r, [q EXCEPT !.stage = "latest"])
  /\ UNCHANGED <<orderVars, profileVars, trailVars, boundVars>>

ReadLatestWave(r) ==
  /\ At(r, "latest")
  /\ LET q == request[r]
     IN  Slot(r, [q EXCEPT !.stage = IF LatestWave(q.order) >= MaxWaves
                                    THEN "fail" ELSE "sweep"])
  /\ UNCHANGED <<orderVars, invitation, profileVars, trailVars, boundVars>>

DueOrders_Slip(t) == {o \in Orders : status[o] = "PENDING_DISPATCH" /\ Live(o, t) # {}}
DueOrders(t) == {o \in Orders : status[o] = "PENDING_DISPATCH" /\ Overdue(o, t) # {}}

RunJobs(r) ==
  /\ At(r, "idle")
  /\ DueOrders(now) # {}
  /\ Slot(r, [Idle EXCEPT !.stage = "next", !.now = now, !.due = DueOrders(now)])
  /\ UNCHANGED <<orderVars, invitation, profileVars, trailVars, boundVars>>

NextDue(r) ==
  /\ At(r, "next")
  /\ \E o \in request[r].due :
       Slot(r, [request[r] EXCEPT !.stage = "expire", !.order = o, !.due = @ \ {o}])
  /\ UNCHANGED <<orderVars, invitation, profileVars, trailVars, boundVars>>

-----------------------------------------------------------------------------
(* DispatchService.acceptInvitation: the request arrives with its clock    *)
(* value, then one Serializable transaction.                               *)

RequestAccept(r, k) ==
  /\ Exists(k)
  /\ k[2] \notin disabled          \* disabling an account revokes its sessions
  /\ At(r, "idle")
  /\ Slot(r, [Idle EXCEPT !.stage = "accept", !.order = k[1], !.keys = {k}, !.now = now])
  /\ UNCHANGED <<orderVars, invitation, profileVars, trailVars, boundVars>>

Acceptable_Slip(k, t) ==
  /\ Pending(k) /\ invitation[k].expiresAt > t
  /\ Eligible(k[2])
Acceptable(k, t) ==
  /\ Pending(k) /\ invitation[k].expiresAt > t
  /\ status[k[1]] = "PENDING_DISPATCH"
  /\ Eligible(k[2])

AcceptInvitation(r) ==
  /\ At(r, "accept")
  /\ \E k \in request[r].keys :
       \/ /\ Acceptable(k, request[r].now)
          /\ status' = [status EXCEPT ![k[1]] = "PENDING_SERVICE"]
          /\ assigned' = [assigned EXCEPT ![k[1]] = k[2]]
          /\ invitation' = [Respond(KeysOf(k[1]), "CANCELLED")
                              EXCEPT ![k].status = "ACCEPTED"]
       \/ /\ ~Acceptable(k, request[r].now)
          /\ UNCHANGED <<orderVars, invitation>>
  /\ Slot(r, Idle)
  /\ UNCHANGED <<profileVars, trailVars, boundVars>>


-----------------------------------------------------------------------------
(* ProviderService and the account switch of StaffCredentialService.       *)

AdminOp == adminOps < MaxAdminOps /\ adminOps' = adminOps + 1

ReviewProvider(p, verdict) ==
  /\ AdminOp
  /\ review' = [review EXCEPT ![p] = verdict]
  /\ invitation' = IF verdict = "APPROVED" THEN invitation
                   ELSE Respond({k \in Keys : k[2] = p}, "CANCELLED")
  /\ UNCHANGED <<orderVars, disabled, available, request, trailVars, now, aborts>>

SetAvailability(p, covered) ==
  /\ AdminOp
  /\ available' = [available EXCEPT ![p] = @ \cup covered]
  /\ UNCHANGED <<orderVars, invitation, review, disabled, request, trailVars, now, aborts>>

SetDisabled(p, disable) ==
  /\ AdminOp
  /\ disabled' = IF disable THEN disabled \cup {p} ELSE disabled \ {p}
  /\ UNCHANGED <<orderVars, invitation, review, available, request, trailVars, now, aborts>>

-----------------------------------------------------------------------------
(* The other services that write the order row.  Fee confirmation,         *)
(* check-in and report submission compare status and version when they     *)
(* write, so each is one step; a cancellation reads, calls the gateway and *)
(* then writes CANCELLED whatever the order has become.                    *)

Advance(o, from, to) ==
  /\ status[o] = from
  /\ status' = [status EXCEPT ![o] = to]
  /\ UNCHANGED <<assigned, invitation, profileVars, request, trailVars, boundVars>>

ConfirmFee(o) == Advance(o, "PENDING_PAYMENT", "PENDING_DISPATCH")
CheckIn(o) == Advance(o, "PENDING_SERVICE", "IN_SERVICE")
SubmitReport(o) == Advance(o, "IN_SERVICE", "PENDING_CONFIRMATION")

RequestCancellation(r, o) ==
  /\ status[o] \in {"PENDING_DISPATCH", "PENDING_SERVICE"}
  /\ At(r, "idle")
  /\ Slot(r, [Idle EXCEPT !.stage = "refund", !.order = o])
  /\ UNCHANGED <<orderVars, invitation, profileVars, trailVars, boundVars>>

CommitCancellation(r) ==
  /\ At(r, "refund")
  /\ status' = [status EXCEPT ![request[r].order] = "CANCELLED"]
  /\ Slot(r, Idle)
  /\ UNCHANGED <<assigned, invitation, profileVars, trailVars, boundVars>>

-----------------------------------------------------------------------------
(* The clock, and requests that die: a lost database connection, a         *)
(* serialization failure, the end of the API process.                      *)

Tick ==
  /\ now < MaxTime
  /\ now' = now + 1
  /\ UNCHANGED <<orderVars, invitation, profileVars, request, trailVars, adminOps, aborts>>

Abort(r) ==
  /\ aborts < MaxAborts
  /\ ~At(r, "idle")
  /\ Slot(r, Idle)
  /\ aborts' = aborts + 1
  /\ UNCHANGED <<orderVars, invitation, profileVars, trailVars, now, adminOps>>

\* The next statement of the handler in slot r.
Proceed(r) ==
  \/ SweepIneligible(r) \/ VoidIneligible(r) \/ ReadCurrent(r)
  \/ LoadOrder(r) \/ RankCandidates(r) \/ CreateWave(r)
  \/ FailClosed(r) \/ AuditFailure(r) \/ NotifyFailure(r)
  \/ ExpireOverdue(r) \/ ReadLatestWave(r) \/ NextDue(r)
  \/ AcceptInvitation(r) \/ CommitCancellation(r)

Arrive(r) ==
  \/ \E o \in Orders : StartDispatch(r, o) \/ ExpireWave(r, o) \/ RequestCancellation(r, o)
  \/ \E k \in Keys : RequestAccept(r, k)
  \/ RunJobs(r)

Administer ==
  \E p \in Providers :
    \/ \E verdict \in {"APPROVED", "SUSPENDED"} : ReviewProvider(p, verdict)
    \/ \E covered \in SUBSET Orders : SetAvailability(p, covered)
    \/ \E disable \in BOOLEAN : SetDisabled(p, disable)

Next ==
  \/ \E r \in Requests : Proceed(r) \/ Arrive(r) \/ Abort(r)
  \/ \E o \in Orders : ConfirmFee(o) \/ CheckIn(o) \/ SubmitReport(o)
  \/ Administer
  \/ Tick

Spec == Init /\ [][Next]_vars


-----------------------------------------------------------------------------
(* Properties.                                                             *)

Accepted(k) == invitation[k].status = "ACCEPTED"

\* An order belongs to a provider exactly when that provider, and nobody else,
\* accepted an invitation for it (acceptInvitation writes both rows; failClosed,
\* cancellations, sweeps and later waves may run at any point in between).
AssignedByAcceptance ==
  \A o \in Orders :
    /\ \A k \in KeysOf(o) : Accepted(k) => assigned[o] = k[2]
    /\ assigned[o] # None => \E k \in KeysOf(o) : Accepted(k)
    /\ \A j, k \in KeysOf(o) : Accepted(j) /\ Accepted(k) => j = k

\* Work only starts on an order that has a provider, and an order that waits for
\* one, or was given up by dispatch, has none.
StatusMatchesAssignment ==
  \A o \in Orders :
    /\ status[o] \in {"PENDING_SERVICE", "IN_SERVICE", "PENDING_CONFIRMATION"}
         => assigned[o] # None
    /\ status[o] \in {"PENDING_PAYMENT", "PENDING_DISPATCH", "DISPATCH_FAILED"}
         => assigned[o] = None

\* Dispatch invites only after payment, and opens a wave only after the one
\* before it: two overlapping starts cannot skip a wave number.
WavesInOrder ==
  \A k \in Keys : Exists(k) =>
    /\ status[k[1]] # "PENDING_PAYMENT"
    /\ k[3] > 1 => \E j \in KeysOf(k[1]) : Exists(j) /\ j[3] = k[3] - 1

\* The audit trail and the alert only report orders that dispatch gave up and
\* that no provider took, and every alert is in the audit trail.
AlertsAreTruthful ==
  /\ alerted \subseteq audited
  /\ \A o \in audited : /\ status[o] \in {"DISPATCH_FAILED", "CANCELLED"}
                         /\ assigned[o] = None

\* What slot q has read and not yet acted on.
StillTrue(q) ==
  /\ q.stage \in {"rank", "create"}
       => /\ status[q.order] # "PENDING_PAYMENT"
          /\ q.wave > 0
          /\ q.wave > 1 => \E j \in KeysOf(q.order) : Exists(j) /\ j[3] = q.wave - 1
  /\ q.stage \in {"audit", "alert"}
       => /\ status[q.order] \in {"DISPATCH_FAILED", "CANCELLED"}
          /\ assigned[q.order] = None
  /\ q.stage = "alert" => q.order \in audited
  /\ q.stage = "refund" => status[q.order] # "PENDING_PAYMENT"

\* What a request found out stays true until it acts on it, although other
\* requests write in between: the order a start ranks for has been paid and has
\* the wave before, the order an audit entry or an alert is about stays given up
\* and unassigned, the order a cancellation refunds has been paid.
ReadsStayTrue == \A r \in Requests : StillTrue(request[r])

\* An invitation that was answered, expired or withdrawn keeps that answer: no
\* sweep, review or late transaction overwrites it.
ResponsesAreFinal ==
  [][\A k \in Keys : invitation[k].status \in {"ACCEPTED", "EXPIRED", "CANCELLED"}
       => invitation'[k] = invitation[k]]_vars

OneWave(o) == \A j, k \in Live(o, now) : j[3] = k[3]

\* An order has one wave out, of at most WaveSize providers, whatever sweeps,
\* reviews, acceptances, cancellations and runs of the jobs overlap.  The one
\* thing that opens two is a start that creates its wave after another start of
\* that order has looked for one (the look and the creation are two statements
\* of DispatchService.start).
OneWaveAtATime ==
  \A o \in Orders \ raced : Cardinality(Live(o, now)) <= WaveSize /\ OneWave(o)

\* Dispatch gives an order up only after its rounds: nobody still holds an
\* invitation that could be accepted.
FailsOnlyAfterRounds ==
  [][\A o \in Orders : status[o] # "DISPATCH_FAILED" /\ status'[o] = "DISPATCH_FAILED"
       => Live(o, now) = {}]_vars

-----------------------------------------------------------------------------
(* Refinement and liveness.                                                *)

Phase(o) == CASE status[o] = "PENDING_PAYMENT" -> "unpaid"
              [] status[o] = "PENDING_DISPATCH" -> "open"
              [] status[o] \in {"CANCELLED", "DISPATCH_FAILED"} -> "closed"
              [] OTHER -> "taken"

Phases == [o \in Orders |-> Phase(o)]
OffersOut == [o \in Orders |-> {k[2] : k \in {j \in KeysOf(o) : Pending(j)}}]

Contract == INSTANCE Assignment
  WITH phase <- Phases, holder <- assigned, offers <- OffersOut

\* Dispatch implements Assignment: one taker per order, only among the providers
\* who hold a pending invitation, and no order is ever reopened.
ImplementsAssignment == Contract!Spec

\* A handler that was started goes on: this is all that the server gives.
FairSpec == Spec /\ \A r \in Requests : WF_vars(Proceed(r))

\* A deployment that calls runDue again and again, which the repository leaves to
\* its operator: only tests construct ScheduledJobs.  A call needs no free slot
\* in the code, hence strong fairness.
JobsRun == SF_vars(\E r \in Requests : RunJobs(r))

\* Calling runDue again and again is enough: a wave that ran out of time on an
\* order still in dispatch is then expired or overtaken by a decision about the
\* order, although each run gives up at the first order it cannot handle.
OverdueWavesAreHandled ==
  JobsRun =>
    \A o \in Orders :
      (status[o] = "PENDING_DISPATCH" /\ Overdue(o, now) # {})
        ~> (status[o] # "PENDING_DISPATCH" \/ Overdue(o, now) = {})

\* The same deployment, as a specification.
ScheduledSpec == FairSpec /\ JobsRun

\* An order whose invitations have all been answered, expired or withdrawn gets
\* another wave or leaves dispatch.
AnsweredOrdersMoveOn ==
  \A o \in Orders :
    (status[o] = "PENDING_DISPATCH" /\ LatestWave(o) > 0 /\ ~\E k \in KeysOf(o) : Pending(k))
      ~> (status[o] # "PENDING_DISPATCH" \/ \E k \in KeysOf(o) : Pending(k))

=============================================================================
