---------------------------- MODULE GuestLimiter ----------------------------
(***************************************************************************)
(* GuestOwnerLimiter: how many guests one API process creates, at once and *)
(* in a window of time.  A request creates its guest if there is a place,  *)
(* waits in a bounded queue if there is none, and is turned away when the  *)
(* queue or the window is full; it may be aborted while it waits.          *)
(*                                                                         *)
(* drain resolves a promise: the request that waited goes on later, with   *)
(* the code after its await, and everything can happen in between.  A      *)
(* request that creates is counted in active and in reservedCreates from   *)
(* its start to its end, so the two are the number of those that create.   *)
(*                                                                         *)
(* A definition X_Slip, written before X, is X with a plausible slip: the  *)
(* properties are tested by putting it in the place of X.                  *)
(***************************************************************************)
EXTENDS Integers, FiniteSets, SequencesExt

CONSTANTS Guests,  \* the requests
          MaximumConcurrent, MaximumQueued, MaximumCreates, Window,
          MaxTime  \* bound: of the clock

ASSUME LimiterAssumption ==
  /\ IsFiniteSet(Guests)
  /\ {MaximumConcurrent, MaximumCreates} \subseteq Nat \ {0}
  /\ {MaximumQueued, Window, MaxTime} \subseteq Nat

VARIABLES clock,
          phase,  \* of a request; woken: resolved, not yet gone on
          queue,
          made,   \* when each guest was created, all that ever were
          gone    \* how many createdAt has shifted out: it is the rest of made

limiterVars == <<clock, phase, queue, made, gone>>

Phase == {"idle", "queued", "woken", "aborted", "creating"}

LimiterInit ==
  /\ clock = 0
  /\ phase = [g \in Guests |-> "idle"]
  /\ queue = <<>>
  /\ made = <<>> /\ gone = 0

Creating == {g \in Guests : phase[g] = "creating"}
Woken == {g \in Guests : phase[g] \in {"woken", "aborted"}}

\* The creations that have left the window are shifted out from the front.
Outdated(t) == t <= clock - Window
Shift ==
  /\ gone' \in gone..Len(made)
  /\ \A i \in gone+1..gone' : Outdated(made[i])
  /\ gone' < Len(made) => ~Outdated(made[gone' + 1])
RateLimited == Len(made) - gone' + Cardinality(Creating) >= MaximumCreates

Becomes(g, p) == phase' = [phase EXCEPT ![g] = p]
\* Request g ends; drain wakes the first that waits.
EndAndDrain(g) ==
  IF queue = <<>> THEN Becomes(g, "idle") /\ UNCHANGED queue
  ELSE /\ phase' = [phase EXCEPT ![g] = "idle", ![Head(queue)] = "woken"]
       /\ queue' = Tail(queue)

Ask(g) ==
  /\ phase[g] = "idle"
  /\ Shift
  /\ IF RateLimited THEN UNCHANGED <<phase, queue>>
     ELSE IF Cardinality(Creating) < MaximumConcurrent
     THEN Becomes(g, "creating") /\ UNCHANGED queue
     ELSE IF Len(queue) >= MaximumQueued THEN UNCHANGED <<phase, queue>>
     ELSE Becomes(g, "queued") /\ queue' = Append(queue, g)
  /\ UNCHANGED <<clock, made>>

\* One that waits leaves at once, one that was woken when it goes on.
Abort(g) ==
  /\ phase[g] \in {"queued", "woken"}
  /\ IF phase[g] = "queued"
     THEN /\ Becomes(g, "idle")
          /\ \E i \in DOMAIN queue : queue[i] = g /\ queue' = RemoveAt(queue, i)
     ELSE Becomes(g, "aborted") /\ UNCHANGED queue
  /\ UNCHANGED <<clock, made, gone>>

\* The code after the await: who leaves here has to wake the next.
GoOn_Slip(g) ==
  IF phase[g] = "aborted" THEN Becomes(g, "idle") /\ UNCHANGED queue
  ELSE IF RateLimited THEN EndAndDrain(g)
  ELSE Becomes(g, "creating") /\ UNCHANGED queue
GoOnUnchecked_Slip(g) ==
  IF phase[g] = "aborted" THEN EndAndDrain(g)
  ELSE Becomes(g, "creating") /\ UNCHANGED queue
GoOn(g) ==
  IF phase[g] = "aborted" \/ RateLimited THEN EndAndDrain(g)
  ELSE Becomes(g, "creating") /\ UNCHANGED queue
WakeUp(g) ==
  /\ g \in Woken
  /\ Shift
  /\ GoOn(g)
  /\ UNCHANGED <<clock, made>>

\* The guest is there, or the transaction has failed.
Finish(g) ==
  /\ g \in Creating
  /\ made' \in {made, Append(made, clock)}
  /\ EndAndDrain(g)
  /\ UNCHANGED <<clock, gone>>

Tick ==
  /\ clock < MaxTime /\ clock' = clock + 1
  /\ UNCHANGED <<phase, queue, made, gone>>

LimiterNext == Tick \/ \E g \in Guests : Ask(g) \/ Abort(g) \/ WakeUp(g) \/ Finish(g)
LimiterSpec == LimiterInit /\ [][LimiterNext]_limiterVars

-----------------------------------------------------------------------------
LimiterTypeOK ==
  /\ clock \in 0..MaxTime
  /\ phase \in [Guests -> Phase]
  /\ queue \in Seq(Guests)
  /\ made \in Seq(0..MaxTime)
  /\ gone \in 0..Len(made)

\* No window holds more guests than its limit, although the limit is checked
\* before they are created, some of the requests waited in between, and others
\* came when nobody had to wait (guest-owner-limiter.ts:28).
GuestsStayWithinTheRate ==
  \A i \in 1..Len(made) - MaximumCreates : made[i + MaximumCreates] >= made[i] + Window

\* While somebody waits, every place is taken by a request that creates or was
\* woken for it, whoever left, failed or was aborted on the way: no wake-up is
\* lost (guest-owner-limiter.ts:40).
PlacesAreTakenWhileOneWaits ==
  queue # <<>> => Cardinality(Creating) + Cardinality(Woken) >= MaximumConcurrent

=============================================================================
