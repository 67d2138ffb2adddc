-------------------------- MODULE OrderPath_proofs --------------------------
(***************************************************************************)
(* An order's way from the booking to the report: OrderIntake,             *)
(* FeeConfirmation and ProviderTask, for every set of calls, orders, keys, *)
(* slots, attempts and faults, and what MCOrderIntake runs of them.        *)
(*                                                                         *)
(* That what a booking page is sure of is so needs more than its own       *)
(* state: SureHasSeenAll and GivenUpIsOver say what may be on its way.     *)
(*                                                                         *)
(* FeeConfirmedOnce is not inductive: a call that is about to write must   *)
(* be known to name an order that exists and to hold the version of an     *)
(* unpaid one.  CallsHoldUnpaid says so.                                   *)
(*                                                                         *)
(* Nor is what the pages of a provider know: TaskInv adds what a call      *)
(* carries at every stage, that the task page waits for one call at most,  *)
(* and that a list of the web page which still counts is no older than     *)
(* what the page was told.                                                 *)
(***************************************************************************)
EXTENDS MCOrderIntake, FiniteSetTheorems, TLAPS

-----------------------------------------------------------------------------
(* OrderIntake.                                                            *)

Kept == {"pet", "order"}
There(kind, key) == IF kind = "pet" THEN key \in pets ELSE key \in Keys /\ Ordered(key)
Given(kind) == IF kind = "pet" THEN minted.pet ELSE minted.order
Current(kind) == IF kind = "pet" THEN booking.saving ELSE booking.attempt
\* Request r is about an attempt.
About(r, kind, key) ==
  request[r].stage # "idle" /\ request[r].kind = kind /\ request[r].key = key

\* A key is given out before anything is done under it.
KeysAreMinted ==
  /\ \A r \in Requests :
       /\ request[r].stage # "idle" /\ request[r].kind \in Kept
            => request[r].key <= Given(request[r].kind)
       /\ request[r].stage # "idle" /\ request[r].kind = "order" => request[r].key >= 1
  /\ \A kind \in Kept : Current(kind) <= Given(kind)
  /\ \A a \in settled : a.key <= Given(a.kind) /\ (a.kind = "order" => a.key >= 1)
  /\ \A k \in pets : k <= minted.pet
  /\ \A k \in Keys : Ordered(k) => k <= minted.order

\* What the handlers know: an answer "done" has its row, an order that is about
\* to be created has a price, and who collided did so with a row.
Honest(q) ==
  /\ q.stage = "answered" /\ q.result = "done" /\ q.kind \in Kept => There(q.kind, q.key)
  /\ q.stage = "create" /\ q.kind = "order" => q.price # 0
  /\ q.stage = "collided" => q.kind = "pet" /\ q.key \in pets
AnswersAreTrue == \A r \in Requests : Honest(request[r])

\* The mini program waits for a request about the attempt it shows.
HeardIsCurrent ==
  app = "mini" =>
    \A r \in Requests :
      request[r].stage # "idle" /\ Heard(r) =>
        /\ request[r].kind = "pet" =>
             request[r].key = booking.saving /\ booking.saving # 0 /\ booking.attempt = 0
        /\ request[r].kind = "order" =>
             request[r].key = booking.attempt /\ booking.attempt # 0 /\ booking.saving = 0

\* While the mini program has no doubt, no request about its attempt is out of
\* sight, and there is no row but one it is about to hear of.
SureHasSeenAll ==
  app = "mini" /\ booking.doubt = "sure" =>
    \A kind \in Kept : Current(kind) # 0 =>
      /\ \A r \in Requests : About(r, kind, Current(kind)) => Heard(r)
      /\ There(kind, Current(kind)) =>
           \E r \in Requests : /\ Heard(r) /\ About(r, kind, Current(kind))
                               /\ At(r, "answered") /\ request[r].result = "done"

\* What was given up is neither there nor on its way, and is not asked for again.
GivenUpIsOver ==
  \A a \in settled :
    /\ a.end = "done" => There(a.kind, a.key)
    /\ a.end = "given up" =>
         /\ ~There(a.kind, a.key) /\ a.key # 0 /\ Current(a.kind) # a.key
         /\ \A r \in Requests : About(r, a.kind, a.key) => At(r, "answered")

IInv == /\ TypeOK /\ KeysAreMinted /\ AnswersAreTrue
        /\ HeardIsCurrent /\ SureHasSeenAll /\ GivenUpIsOver

-----------------------------------------------------------------------------
LEMMA InvImpliesPageIsRight == IInv => PageIsRight
<1> SUFFICES ASSUME IInv, NEW a \in settled
             PROVE  (IF a.kind = "pet" THEN a.key \in pets ELSE Ordered(a.key)) <=> a.end = "done"
  BY DEF PageIsRight
<1>1. a \in Attempt /\ MaxKeys \in Nat
  BY IntakeAssumption DEF IInv, TypeOK, IntakeAssumption
<1>2. ASSUME a.kind = "order" PROVE a.key \in Keys
  <2>1. minted.order \in 0..MaxKeys /\ a.key \in Nat
    BY <1>1 DEF IInv, TypeOK, Attempt
  <2>2. a.key <= minted.order /\ a.key >= 1
    BY <1>2 DEF IInv, KeysAreMinted, Given
  <2> QED
    BY <1>1, <2>1, <2>2 DEF Keys
<1>3. There(a.kind, a.key) <=> a.end = "done"
  BY <1>1 DEF IInv, GivenUpIsOver, Attempt
<1> QED
  BY <1>1, <1>2, <1>3 DEF There, Attempt

LEMMA InitSound == Init => IInv
<1> SUFFICES ASSUME Init PROVE IInv
  OBVIOUS
<1>1. {MaxPets, MaxKeys, MaxPages, MaxEdits, MaxFaults} \subseteq Nat
  BY IntakeAssumption DEF IntakeAssumption
<1>2. Idle \in Request /\ Idle.stage = "idle"
  BY <1>1 DEF Idle, Request, Stage, Kind, Result
<1>3. /\ booking = [pet |-> "new", saving |-> 0, shown |-> 0, attempt |-> 0, doubt |-> "sure",
                    done |-> 0, on |-> None]
      /\ booking \in Booking
  BY <1>1 DEF Init, Fresh, Booking
<1>4. TypeOK
  <2>1. app \in Apps /\ editing \in [Admins -> 1..MaxEdits] /\ page \in 1..MaxPages
    BY IntakeAssumption DEF IntakeAssumption, Init
  <2>2. catalog \in [open : {"open", "closed"}, version : 1..MaxEdits]
    BY IntakeAssumption DEF IntakeAssumption, Init
  <2>3. minted \in [pet : 0..MaxPets, order : 0..MaxKeys] /\ faults \in 0..MaxFaults
    BY <1>1 DEF Init
  <2>4. orders \in [Keys -> 0..MaxEdits]
    BY <1>1 DEF Init
  <2>5. request \in [Requests -> Request] /\ pets \subseteq 0..MaxPets /\ settled \subseteq Attempt
    BY <1>2 DEF Init
  <2> QED
    BY <1>3, <2>1, <2>2, <2>3, <2>4, <2>5 DEF TypeOK
<1> QED
  BY <1>2, <1>3, <1>4 DEF Init, IInv, KeysAreMinted, AnswersAreTrue, Honest, HeardIsCurrent,
     SureHasSeenAll, GivenUpIsOver, Current, Given, Kept, Ordered

-----------------------------------------------------------------------------
(* The handlers.                                                           *)

\* A handler that goes on changes its slot, and at most the row of its key,
\* which it then answers with.
LEMMA HandlersKeepInv ==
  ASSUME IInv, NEW r \in Requests, NEW q \in Request, Slot(r, q),
         request[r].stage \in {"arrived", "priced", "create", "collided"}, q.stage # "idle",
         q.kind = request[r].kind /\ q.key = request[r].key /\ q.page = request[r].page,
         UNCHANGED <<app, shopVars, pageVars>>, faults' \in 0..MaxFaults,
         pets' \subseteq 0..MaxPets /\ orders' \in [Keys -> 0..MaxEdits],
         \A kind \in Kept, key \in Nat : There(kind, key) => There(kind, key)',
         \A kind \in Kept, key \in Nat :
           There(kind, key)' =>
             \/ There(kind, key)
             \/ kind = q.kind /\ key = q.key /\ q.stage = "answered" /\ q.result = "done",
         Honest(q)'
  PROVE  IInv'
<1>1. /\ request' = [request EXCEPT ![r] = q] /\ request' \in [Requests -> Request]
      /\ \A t \in Requests : request'[t] = IF t = r THEN q ELSE request[t]
  BY DEF Slot, IInv, TypeOK
<1>2. UNCHANGED <<app, catalog, editing, booking, page, minted, settled>>
  BY DEF shopVars, pageVars
<1>3. TypeOK'
  BY <1>1, <1>2 DEF IInv, TypeOK
<1>4. \A t \in Requests : request[t].key \in Nat /\ request'[t].key \in Nat
  BY <1>1, IntakeAssumption DEF IInv, TypeOK, Request, IntakeAssumption
<1>5. \A kind \in Kept : UNCHANGED <<Given(kind), Current(kind)>>
  BY <1>2 DEF Given, Current
<1>6. KeysAreMinted'
  <2>1. /\ \A t \in Requests :
             /\ request'[t].stage # "idle" /\ request'[t].kind \in Kept
                  => request'[t].key <= Given(request'[t].kind)
             /\ request'[t].stage # "idle" /\ request'[t].kind = "order" => request'[t].key >= 1
        /\ \A kind \in Kept : Current(kind) <= Given(kind)
        /\ \A a \in settled : a.key <= Given(a.kind) /\ (a.kind = "order" => a.key >= 1)
    BY <1>1 DEF IInv, KeysAreMinted
  <2>2. \A k \in pets' : k <= minted.pet
    <3> SUFFICES ASSUME NEW k \in pets' PROVE k <= minted.pet
      OBVIOUS
    <3>1. k \in Nat /\ There("pet", k)'
      BY IntakeAssumption DEF IntakeAssumption, There
    <3>2. There("pet", k) \/ (q.kind = "pet" /\ k = q.key)
      BY <3>1 DEF Kept
    <3> QED
      BY <3>2 DEF IInv, KeysAreMinted, There, Given, Kept
  <2>3. \A k \in Keys : Ordered(k)' => k <= minted.order
    <3> SUFFICES ASSUME NEW k \in Keys, Ordered(k)' PROVE k <= minted.order
      OBVIOUS
    <3>1. k \in Nat /\ There("order", k)'
      BY IntakeAssumption DEF IntakeAssumption, There, Keys
    <3>2. There("order", k) \/ (q.kind = "order" /\ k = q.key)
      BY <3>1 DEF Kept
    <3> QED
      BY <3>2 DEF IInv, KeysAreMinted, There, Given, Kept
  <2> QED
    BY <1>2, <2>1, <2>2, <2>3 DEF KeysAreMinted, Given, Current
<1>7. AnswersAreTrue'
  <2> SUFFICES ASSUME NEW t \in Requests PROVE Honest(request[t])'
    BY DEF AnswersAreTrue
  <2>1. CASE t = r
    BY <1>1, <2>1 DEF Honest, There, Ordered
  <2>2. CASE t # r
    <3>1. request'[t] = request[t] /\ request[t].key \in Nat /\ Honest(request[t])
      BY <1>1, <1>4, <2>2 DEF IInv, AnswersAreTrue
    <3>2. \A kind \in Kept, key \in Nat : There(kind, key) => There(kind, key)'
      OBVIOUS
    <3>3. request[t].kind \in Kept /\ There(request[t].kind, request[t].key)
            => There(request[t].kind, request[t].key)'
      BY <3>1, <3>2 DEF There, Ordered
    <3>4. request[t].key \in pets => request[t].key \in pets'
      BY <3>1, <3>2 DEF There, Kept
    <3> QED
      BY <3>1, <3>3, <3>4 DEF Honest, There, Ordered
  <2> QED
    BY <2>1, <2>2
<1>8. HeardIsCurrent'
  BY <1>1, <1>2 DEF IInv, HeardIsCurrent, Heard
<1>9. SureHasSeenAll'
  <2> SUFFICES ASSUME app = "mini", booking.doubt = "sure", NEW kind \in Kept, Current(kind) # 0
               PROVE  /\ \A t \in Requests : About(t, kind, Current(kind))' => Heard(t)'
                      /\ There(kind, Current(kind))' =>
                           \E t \in Requests :
                              /\ Heard(t)' /\ About(t, kind, Current(kind))'
                              /\ At(t, "answered")' /\ request'[t].result = "done"
    BY <1>2, <1>5 DEF SureHasSeenAll
  <2>1. /\ \A t \in Requests : About(t, kind, Current(kind)) => Heard(t)
        /\ There(kind, Current(kind)) =>
             \E t \in Requests : /\ Heard(t) /\ About(t, kind, Current(kind))
                                 /\ At(t, "answered") /\ request[t].result = "done"
    BY DEF IInv, SureHasSeenAll
  <2>2. \A t \in Requests : /\ About(t, kind, Current(kind))' => About(t, kind, Current(kind))
                            /\ Heard(t)' <=> Heard(t)
    BY <1>1, <1>2, <1>5 DEF About, Heard
  <2>3. Current(kind) \in Nat /\ UNCHANGED Current(kind)
    BY <1>5, IntakeAssumption DEF IntakeAssumption, Current, IInv, TypeOK, Booking
  <2>4. ASSUME There(kind, Current(kind))
        PROVE  \E t \in Requests :
                  /\ Heard(t)' /\ About(t, kind, Current(kind))'
                  /\ At(t, "answered")' /\ request'[t].result = "done"
    <3>1. PICK t \in Requests : /\ Heard(t) /\ About(t, kind, Current(kind))
                                /\ At(t, "answered") /\ request[t].result = "done"
      BY <2>1, <2>4
    <3>2. t # r
      BY <3>1 DEF At
    <3> QED
      BY <1>1, <1>2, <1>5, <2>2, <3>1, <3>2 DEF At, About
  <2>5. ASSUME kind = q.kind, Current(kind) = q.key, q.stage = "answered", q.result = "done"
        PROVE  \E t \in Requests :
                  /\ Heard(t)' /\ About(t, kind, Current(kind))'
                  /\ At(t, "answered")' /\ request'[t].result = "done"
    <3>1. About(r, kind, Current(kind)) /\ About(r, kind, Current(kind))'
      BY <1>1, <1>5, <2>5 DEF About
    <3> QED
      BY <1>1, <2>1, <2>2, <2>5, <3>1 DEF At
  <2> QED
    BY <2>1, <2>2, <2>3, <2>4, <2>5
<1>10. GivenUpIsOver'
  <2> SUFFICES ASSUME NEW a \in settled
               PROVE  /\ a.end = "done" => There(a.kind, a.key)'
                      /\ a.end = "given up" =>
                           /\ ~There(a.kind, a.key)' /\ a.key # 0 /\ Current(a.kind)' # a.key
                           /\ \A t \in Requests : About(t, a.kind, a.key)' => At(t, "answered")'
    BY <1>2 DEF GivenUpIsOver
  <2>1. a.kind \in Kept /\ a.key \in Nat
    BY DEF IInv, TypeOK, Attempt, Kept
  <2>2. /\ a.end = "done" => There(a.kind, a.key)
        /\ a.end = "given up" =>
             /\ ~There(a.kind, a.key) /\ a.key # 0 /\ Current(a.kind) # a.key
             /\ \A t \in Requests : About(t, a.kind, a.key) => At(t, "answered")
    BY DEF IInv, GivenUpIsOver
  <2>3. a.end = "given up" => ~(a.kind = q.kind /\ a.key = q.key)
    BY <2>2 DEF About, At
  <2>4. a.end = "given up" => \A t \in Requests : About(t, a.kind, a.key)' => At(t, "answered")'
    BY <1>1, <2>2, <2>3 DEF About, At
  <2> QED
    BY <1>5, <2>1, <2>2, <2>3, <2>4
<1> QED
  BY <1>3, <1>6, <1>7, <1>8, <1>9, <1>10 DEF IInv

LEMMA ServeKeepsInv ==
  ASSUME IInv, NEW r \in Requests, Serve(r) \/ Refuse(r) \/ Fail(r)
  PROVE  IInv'
<1>0. /\ request[r] \in Request /\ request[r].key \in Nat /\ Honest(request[r])
      /\ request[r].kind = "order" => request[r].key \in Nat
      /\ faults \in 0..MaxFaults /\ MaxFaults \in Nat /\ MaxEdits \in Nat /\ MaxKeys \in Nat
      /\ pets \subseteq 0..MaxPets /\ orders \in [Keys -> 0..MaxEdits]
  BY IntakeAssumption DEF IntakeAssumption, IInv, TypeOK, Request, AnswersAreTrue
<1>1. ASSUME NEW stage \in Stage \ {"idle"}, NEW price \in 0..MaxEdits, NEW result \in Result,
             NEW q, q = [request[r] EXCEPT !.stage = stage, !.price = price, !.result = result]
      PROVE  /\ q \in Request /\ q.stage = stage /\ q.price = price /\ q.result = result
             /\ q.kind = request[r].kind /\ q.key = request[r].key /\ q.page = request[r].page
  BY <1>0, <1>1 DEF Request
<1>2. ASSUME NEW q \in Request, Slot(r, q),
             request[r].stage \in {"arrived", "priced", "create", "collided"}, q.stage # "idle",
             q.kind = request[r].kind /\ q.key = request[r].key /\ q.page = request[r].page,
             UNCHANGED <<app, shopVars, pageVars, rowVars>>, faults' \in 0..MaxFaults,
             Honest(q)
      PROVE  IInv'
  <2>1. UNCHANGED <<pets, orders>>
    BY <1>2 DEF rowVars
  <2>2. Honest(q)'
    BY <1>2, <2>1 DEF Honest, There, Ordered
  <2>3. \A kind \in Kept, key \in Nat : There(kind, key)' = There(kind, key)
    BY <2>1 DEF There, Ordered
  <2> QED
    BY <1>0, <1>2, <2>1, <2>2, <2>3, HandlersKeepInv
<1>3. ASSUME NEW result \in {"rejected", "failed"}, Answer(r, result),
             request[r].stage \in {"arrived", "priced", "create", "collided"},
             UNCHANGED <<app, shopVars, pageVars, rowVars>>, faults' \in 0..MaxFaults
      PROVE  IInv'
  <2>1. PICK q : q = [request[r] EXCEPT !.stage = "answered", !.result = result]
    OBVIOUS
  <2>2. /\ q \in Request /\ q.stage = "answered" /\ q.result = result
        /\ q.kind = request[r].kind /\ q.key = request[r].key /\ q.page = request[r].page
    BY <1>0, <2>1 DEF Request, Stage, Result
  <2>3. Slot(r, q)
    BY <1>3, <2>1 DEF Answer
  <2> QED
    BY <1>2, <1>3, <2>2, <2>3 DEF Honest
<1>4. ASSUME Answer(r, "done"), There(request[r].kind, request[r].key),
             request[r].stage \in {"arrived", "priced", "create", "collided"},
             UNCHANGED <<app, shopVars, pageVars, rowVars, faults>>
      PROVE  IInv'
  <2>1. PICK q : q = [request[r] EXCEPT !.stage = "answered", !.result = "done"]
    OBVIOUS
  <2>2. /\ q \in Request /\ q.stage = "answered" /\ q.result = "done"
        /\ q.kind = request[r].kind /\ q.key = request[r].key /\ q.page = request[r].page
    BY <1>0, <2>1 DEF Request, Stage, Result
  <2>3. Slot(r, q)
    BY <1>4, <2>1 DEF Answer
  <2> QED
    BY <1>0, <1>2, <1>4, <2>2, <2>3 DEF Honest
<1>5. CASE Refuse(r)
  BY <1>0, <1>3, <1>5 DEF Refuse, At
<1>6. CASE Fail(r)
  BY <1>0, <1>3, <1>6 DEF Fail, At
<1>7. ASSUME NEW stage \in {"create", "priced", "collided"},
             Slot(r, [request[r] EXCEPT !.stage = stage]),
             stage = "create" => request[r].kind = "pet",
             stage = "collided" => request[r].kind = "pet" /\ request[r].key \in pets,
             request[r].stage \in {"arrived", "priced", "create", "collided"},
             UNCHANGED <<app, shopVars, pageVars, rowVars, faults>>
      PROVE  IInv'
  <2>1. PICK q : q = [request[r] EXCEPT !.stage = stage]
    OBVIOUS
  <2>2. /\ q \in Request /\ q.stage = stage
        /\ q.kind = request[r].kind /\ q.key = request[r].key /\ q.page = request[r].page
    BY <1>0, <2>1 DEF Request, Stage
  <2> QED
    BY <1>0, <1>2, <1>7, <2>1, <2>2 DEF Honest
<1>8. CASE FindPet(r)
  <2>1. request[r].stage = "arrived" /\ request[r].kind = "pet"
    BY <1>8 DEF FindPet, At
  <2> QED
    BY <1>4, <1>7, <1>8, <2>1 DEF FindPet, There
<1>9. CASE FindRacedPet(r)
  <2>1. request[r].stage = "collided" /\ request[r].kind = "pet" /\ request[r].key \in pets
    BY <1>0, <1>9 DEF FindRacedPet, At, Honest
  <2> QED
    BY <1>4, <1>9, <2>1 DEF FindRacedPet, There
<1>10. CASE FindOrder(r)
  <2>1. request[r].stage = "arrived" /\ request[r].kind = "order" /\ request[r].key \in Keys
    <3>1. request[r].stage = "arrived" /\ request[r].kind = "order"
      BY <1>10 DEF FindOrder, At
    <3>2. request[r].key >= 1 /\ request[r].key <= minted.order /\ minted.order \in 0..MaxKeys
      BY <3>1 DEF IInv, TypeOK, KeysAreMinted, Given, Kept
    <3> QED
      BY <1>0, <3>1, <3>2 DEF Keys
  <2> QED
    BY <1>4, <1>7, <1>10, <2>1 DEF FindOrder, There
<1>11. CASE Quote(r)
  <2>1. request[r].stage \in {"arrived", "priced"}
    BY <1>11 DEF Quote, At
  <2>2. CASE catalog.open = "closed"
    BY <1>0, <1>3, <1>11, <2>1, <2>2 DEF Quote
  <2>3. CASE catalog.open # "closed"
    <3> DEFINE stage == IF request[r].kind = "quote" THEN "answered" ELSE "create"
    <3>1. PICK q : q = [request[r] EXCEPT !.price = catalog.version, !.result = "done",
                                          !.stage = stage]
      OBVIOUS
    <3>2. catalog.version \in 0..MaxEdits /\ catalog.version # 0
      BY <1>0 DEF IInv, TypeOK
    <3>3. /\ q \in Request /\ q.stage = stage /\ q.price # 0
          /\ q.kind = request[r].kind /\ q.key = request[r].key /\ q.page = request[r].page
      BY <1>0, <3>1, <3>2 DEF Request, Stage, Result
    <3>4. Honest(q)
      BY <3>3 DEF Honest, Kept
    <3>5. Slot(r, q) /\ UNCHANGED <<app, shopVars, pageVars, rowVars, faults>>
      BY <1>11, <2>3, <3>1 DEF Quote
    <3> QED
      BY <1>0, <1>2, <2>1, <3>3, <3>4, <3>5
  <2> QED
    BY <2>2, <2>3
<1>12. ASSUME Answer(r, "done"), request[r].stage = "create", request[r].kind \in Kept,
              pets' \subseteq 0..MaxPets /\ orders' \in [Keys -> 0..MaxEdits],
              request[r].kind = "pet" => request[r].key \in pets',
              request[r].kind = "order" => request[r].key \in Keys /\ orders'[request[r].key] # 0,
              \A kind \in Kept, key \in Nat : There(kind, key) => There(kind, key)',
              \A kind \in Kept, key \in Nat :
                There(kind, key)' =>
                  There(kind, key) \/ (kind = request[r].kind /\ key = request[r].key),
              UNCHANGED <<app, shopVars, pageVars, faults>>
       PROVE  IInv'
  <2>1. PICK q : q = [request[r] EXCEPT !.stage = "answered", !.result = "done"]
    OBVIOUS
  <2>2. /\ q \in Request /\ q.stage = "answered" /\ q.result = "done"
        /\ q.kind = request[r].kind /\ q.key = request[r].key /\ q.page = request[r].page
    BY <1>0, <2>1 DEF Request, Stage, Result
  <2>3. Slot(r, q)
    BY <1>12, <2>1 DEF Answer
  <2>4. Honest(q)'
    <3>1. q.kind = "pet" => q.key \in pets'
      BY <1>12, <2>2
    <3>2. q.kind = "order" => q.key \in Keys /\ orders'[q.key] # 0
      BY <1>12, <2>2
    <3> QED
      BY <2>2, <3>1, <3>2 DEF Honest, There, Ordered, Kept
  <2>5. \A kind \in Kept, key \in Nat :
          There(kind, key)' =>
            \/ There(kind, key)
            \/ kind = q.kind /\ key = q.key /\ q.stage = "answered" /\ q.result = "done"
    BY <1>12, <2>2
  <2> QED
    BY <1>0, <1>12, <2>2, <2>3, <2>4, <2>5, HandlersKeepInv
<1>13. CASE CreatePet(r)
  <2>1. request[r].stage = "create" /\ request[r].kind = "pet"
    BY <1>13 DEF CreatePet, At
  <2>2. CASE request[r].key # 0 /\ request[r].key \in pets
    BY <1>7, <1>13, <2>1, <2>2 DEF CreatePet, rowVars
  <2>3. CASE ~(request[r].key # 0 /\ request[r].key \in pets)
    <3>1. /\ Answer(r, "done") /\ pets' = pets \cup {request[r].key}
          /\ UNCHANGED <<app, shopVars, pageVars, orders, faults>>
      BY <1>13, <2>3 DEF CreatePet
    <3>2. request[r].key <= minted.pet /\ minted.pet \in 0..MaxPets /\ MaxPets \in Nat
      BY <2>1, IntakeAssumption
         DEF IntakeAssumption, IInv, TypeOK, KeysAreMinted, Given, Kept
    <3>3. pets' \subseteq 0..MaxPets
      <4>1. request[r].key \in 0..MaxPets
        BY <1>0, <3>2
      <4> QED
        BY <1>0, <3>1, <4>1
    <3>4. \A kind \in Kept, key \in Nat :
            There(kind, key)' <=>
              There(kind, key) \/ (kind = "pet" /\ key = request[r].key)
      BY <3>1 DEF There, Ordered, Kept
    <3>5. request[r].key \in pets'
      BY <3>1
    <3> QED
      BY <1>0, <1>12, <2>1, <3>1, <3>3, <3>4, <3>5 DEF Kept
  <2> QED
    BY <2>2, <2>3
<1>14. CASE CreateOrder(r)
  <2> DEFINE k == request[r].key
  <2>1. request[r].stage = "create" /\ request[r].kind = "order"
    BY <1>14 DEF CreateOrder, At
  <2>2. k \in Keys
    <3>1. k >= 1 /\ k <= minted.order /\ minted.order \in 0..MaxKeys
      BY <2>1 DEF IInv, TypeOK, KeysAreMinted, Given, Kept
    <3> QED
      BY <1>0, <3>1 DEF Keys
  <2>3. CASE Ordered(k)
    BY <1>0, <1>3, <1>14, <2>1, <2>3 DEF CreateOrder, rowVars
  <2>4. CASE ~Ordered(k)
    <3>1. /\ Answer(r, "done") /\ orders' = [orders EXCEPT ![k] = request[r].price]
          /\ UNCHANGED <<app, shopVars, pageVars, pets, faults>>
      BY <1>14, <2>4 DEF CreateOrder
    <3>2. request[r].price \in 0..MaxEdits /\ request[r].price # 0
      BY <1>0, <2>1 DEF Request, Honest
    <3>3. orders' \in [Keys -> 0..MaxEdits]
      BY <1>0, <3>1, <3>2
    <3>4. \A j \in Keys : orders'[j] # 0 <=> (orders[j] # 0 \/ j = k)
      BY <1>0, <2>2, <3>1, <3>2
    <3>5. \A kind \in Kept, key \in Nat :
            There(kind, key)' <=> There(kind, key) \/ (kind = "order" /\ key = k)
      BY <2>2, <3>1, <3>4 DEF There, Ordered, Kept
    <3>6. orders'[k] # 0
      BY <2>2, <3>4
    <3> QED
      BY <1>0, <1>12, <2>1, <2>2, <3>1, <3>3, <3>5, <3>6 DEF Kept
  <2> QED
    BY <2>3, <2>4
<1> QED
  BY <1>5, <1>6, <1>8, <1>9, <1>10, <1>11, <1>13, <1>14 DEF Serve

-----------------------------------------------------------------------------
(* The page.                                                               *)

\* The page changes without a request: the mini program forgets its attempts
\* and what it waits for, or keeps them.
LEMMA PageKeepsInv ==
  ASSUME IInv, booking' \in Booking, page' \in 1..MaxPages,
         booking'.saving \in {booking.saving, 0}, booking'.attempt \in {booking.attempt, 0},
         app = "mini" =>
           \/ booking'.saving = 0 /\ booking'.attempt = 0 /\ booking'.on = None
           \/ /\ booking'.saving = booking.saving /\ booking'.attempt = booking.attempt
              /\ booking'.doubt = booking.doubt /\ booking'.on = booking.on /\ UNCHANGED page,
         UNCHANGED <<app, shopVars, request, rowVars, minted, settled, faults>>
  PROVE  IInv'
<1>1. UNCHANGED <<catalog, editing, pets, orders>>
  BY DEF shopVars, rowVars
<1>2. TypeOK'
  BY <1>1 DEF IInv, TypeOK
<1>3. \A kind \in Kept : Current(kind)' \in {Current(kind), 0} /\ UNCHANGED Given(kind)
  BY DEF Current, Given
<1>4. KeysAreMinted'
  <2>1. minted.pet \in Nat /\ minted.order \in Nat
    BY IntakeAssumption DEF IntakeAssumption, IInv, TypeOK
  <2>2. \A kind \in Kept : Current(kind)' <= Given(kind)'
    BY <1>3, <2>1 DEF IInv, KeysAreMinted, Given
  <2> QED
    BY <1>1, <2>2 DEF IInv, KeysAreMinted, Given, Ordered
<1>5. AnswersAreTrue'
  BY <1>1 DEF IInv, AnswersAreTrue, Honest, There, Ordered
<1>6. None \notin Requests
  BY IntakeAssumption DEF IntakeAssumption
<1>7. HeardIsCurrent'
  BY <1>6 DEF IInv, HeardIsCurrent, Heard
<1>8. SureHasSeenAll'
  <2> SUFFICES ASSUME app = "mini", booking'.doubt = "sure", NEW kind \in Kept, Current(kind)' # 0
               PROVE  /\ \A r \in Requests : About(r, kind, Current(kind))' => Heard(r)'
                      /\ There(kind, Current(kind))' =>
                           \E r \in Requests : /\ Heard(r)' /\ About(r, kind, Current(kind))'
                                               /\ At(r, "answered")' /\ request'[r].result = "done"
    BY DEF SureHasSeenAll
  <2>1. /\ booking.doubt = "sure" /\ UNCHANGED Current(kind)
        /\ \A r \in Requests : UNCHANGED <<Heard(r), At(r, "answered"), request[r]>>
    BY <1>3 DEF Current, Heard, At
  <2>2. \A r \in Requests : UNCHANGED About(r, kind, Current(kind))
    BY <2>1 DEF About
  <2>3. UNCHANGED There(kind, Current(kind))
    BY <1>1, <2>1 DEF There, Ordered
  <2> QED
    BY <2>1, <2>2, <2>3 DEF IInv, SureHasSeenAll
<1>9. GivenUpIsOver'
  <2> SUFFICES ASSUME NEW a \in settled
               PROVE  /\ a.end = "done" => There(a.kind, a.key)'
                      /\ a.end = "given up" =>
                           /\ ~There(a.kind, a.key)' /\ a.key # 0 /\ Current(a.kind)' # a.key
                           /\ \A r \in Requests : About(r, a.kind, a.key)' => At(r, "answered")'
    BY DEF GivenUpIsOver
  <2>1. a.kind \in Kept
    BY DEF IInv, TypeOK, Attempt, Kept
  <2> QED
    BY <1>1, <1>3, <2>1 DEF IInv, GivenUpIsOver, There, Ordered, About, At
<1> QED
  BY <1>2, <1>4, <1>5, <1>7, <1>8, <1>9 DEF IInv

\* The page sends a request: about the attempt it shows, or a new one.
LEMMA AskingKeepsInv ==
  ASSUME IInv, NEW kind \in Kind, NEW key \in 0..(MaxKeys + MaxPets),
         NEW r \in Requests, At(r, "idle"), Slot(r, Asked(kind, key)),
         booking.on = None, booking' \in Booking, booking'.on = r,
         booking'.doubt = booking.doubt,
         minted' \in [pet : 0..MaxPets, order : 0..MaxKeys],
         minted.pet <= minted'.pet /\ minted.order <= minted'.order,
         \A k \in Kept : /\ Current(k)' = Current(k) \/ Current(k)' > Given(k)
                         /\ Current(k)' <= Given(k)',
         kind \in Kept => /\ key = Current(kind) \/ key > Given(kind) \/ key = 0
                          /\ key <= Given(kind)',
         kind = "order" => key >= 1,
         app = "mini" =>
           /\ kind = "pet" => booking'.saving = key /\ key # 0 /\ booking'.attempt = 0
           /\ kind = "order" => booking'.attempt = key /\ key # 0 /\ booking'.saving = 0
           /\ kind = "quote" => booking'.saving = 0 /\ booking'.attempt = 0,
         UNCHANGED <<app, shopVars, page, settled, rowVars, faults>>
  PROVE  IInv'
<1>0. /\ {MaxPets, MaxKeys, MaxPages, MaxEdits} \subseteq Nat /\ None \notin Requests
      /\ minted.pet \in Nat /\ minted.order \in Nat /\ page \in 1..MaxPages
      /\ minted'.pet \in Nat /\ minted'.order \in Nat
  BY IntakeAssumption DEF IntakeAssumption, IInv, TypeOK
<1>1. PICK q : q = Asked(kind, key)
  OBVIOUS
<1>2. /\ q \in Request /\ q.stage = "arrived" /\ q.kind = kind /\ q.key = key /\ q.page = page
  <2>1. q = [stage |-> "arrived", kind |-> kind, key |-> key, price |-> 0, page |-> page,
             result |-> "failed"]
    BY <1>1 DEF Asked, Idle
  <2>2. page \in 0..MaxPages /\ 0 \in 0..MaxEdits
    BY <1>0
  <2> QED
    BY <2>1, <2>2 DEF Request, Stage, Result
<1>3. /\ request' = [request EXCEPT ![r] = q] /\ request' \in [Requests -> Request]
      /\ \A t \in Requests : request'[t] = IF t = r THEN q ELSE request[t]
  BY <1>1, <1>2 DEF Slot, IInv, TypeOK
<1>4. UNCHANGED <<catalog, editing, pets, orders>>
  BY DEF shopVars, rowVars
<1>5. TypeOK'
  BY <1>3, <1>4 DEF IInv, TypeOK
<1>6. /\ \A t \in Requests : request[t].key \in Nat
      /\ \A a \in settled : a \in Attempt /\ a.key \in Nat /\ a.kind \in Kept
      /\ \A k \in pets : k \in Nat
      /\ \A k \in Keys : k \in Nat
      /\ \A k \in Kept : Given(k) \in Nat /\ Given(k)' \in Nat /\ Given(k) <= Given(k)'
  <2>1. \A t \in Requests : request[t].key \in Nat
    BY <1>0 DEF IInv, TypeOK, Request
  <2>2. \A a \in settled : a \in Attempt /\ a.key \in Nat /\ a.kind \in Kept
    BY DEF IInv, TypeOK, Attempt, Kept
  <2>3. \A k \in pets : k \in Nat
    BY <1>0 DEF IInv, TypeOK
  <2>4. \A k \in Kept : Given(k) \in Nat /\ Given(k)' \in Nat /\ Given(k) <= Given(k)'
    BY <1>0 DEF Given, Kept
  <2> QED
    BY <1>0, <2>1, <2>2, <2>3, <2>4 DEF Keys
<1>7. KeysAreMinted'
  <2>1. \A t \in Requests :
          /\ request'[t].stage # "idle" /\ request'[t].kind = "pet" => request'[t].key <= minted'.pet
          /\ request'[t].stage # "idle" /\ request'[t].kind = "order" =>
               request'[t].key <= minted'.order /\ request'[t].key >= 1
    BY <1>0, <1>2, <1>3, <1>6 DEF IInv, KeysAreMinted, Given, Kept
  <2>2. \A a \in settled : /\ a.kind = "pet" => a.key <= minted'.pet
                           /\ a.kind = "order" => a.key <= minted'.order /\ a.key >= 1
    BY <1>0, <1>6 DEF IInv, KeysAreMinted, Given, Kept
  <2>3. \A k \in pets : k <= minted'.pet
    BY <1>0, <1>6 DEF IInv, KeysAreMinted
  <2>4. \A k \in Keys : Ordered(k) => k <= minted'.order
    BY <1>0, <1>6 DEF IInv, KeysAreMinted
  <2> QED
    BY <1>4, <1>6, <2>1, <2>2, <2>3, <2>4 DEF KeysAreMinted, Given, Kept, Ordered
<1>8. AnswersAreTrue'
  BY <1>2, <1>3, <1>4 DEF IInv, AnswersAreTrue, Honest, There, Ordered
<1>9. HeardIsCurrent'
  BY <1>0, <1>2, <1>3 DEF HeardIsCurrent, Heard
<1>10. SureHasSeenAll'
  <2> SUFFICES ASSUME app = "mini", booking.doubt = "sure", NEW k \in Kept, Current(k)' # 0
               PROVE  /\ \A t \in Requests : About(t, k, Current(k))' => Heard(t)'
                      /\ ~There(k, Current(k))'
    BY DEF SureHasSeenAll
  <2>1. k = kind /\ Current(k)' = key
    BY DEF Current, Kept, Kind
  <2>2. Heard(r)'
    BY <1>2, <1>3 DEF Heard
  <2>3. \A t \in Requests : ~About(t, k, key)
    <3>1. CASE key = Current(k)
      BY <1>0, <2>1, <3>1 DEF IInv, SureHasSeenAll, Heard
    <3>2. CASE key > Given(k)
      BY <1>6, <2>1, <3>2 DEF IInv, KeysAreMinted, About
    <3> QED
      BY <2>1, <3>1, <3>2
  <2>4. ~There(k, key)
    <3>1. CASE key = Current(k)
      BY <1>0, <2>1, <3>1 DEF IInv, SureHasSeenAll, Heard
    <3>2. CASE key > Given(k)
      BY <1>6, <2>1, <3>2 DEF IInv, KeysAreMinted, There, Given, Kept
    <3> QED
      BY <2>1, <3>1, <3>2
  <2>5. ~There(k, Current(k))'
    BY <1>4, <2>1, <2>4 DEF There, Ordered
  <2>6. \A t \in Requests : About(t, k, Current(k))' => t = r
    BY <1>3, <2>1, <2>3 DEF About
  <2> QED
    BY <2>2, <2>5, <2>6
<1>11. GivenUpIsOver'
  <2> SUFFICES ASSUME NEW a \in settled
               PROVE  /\ a.end = "done" => There(a.kind, a.key)'
                      /\ a.end = "given up" =>
                           /\ ~There(a.kind, a.key)' /\ a.key # 0 /\ Current(a.kind)' # a.key
                           /\ \A t \in Requests : About(t, a.kind, a.key)' => At(t, "answered")'
    BY DEF GivenUpIsOver
  <2>1. a.kind \in Kept /\ a.key \in Nat /\ a.key <= Given(a.kind)
    BY <1>6 DEF IInv, KeysAreMinted
  <2>2. There(a.kind, a.key)' = There(a.kind, a.key)
    BY <1>4 DEF There, Ordered
  <2>3. ASSUME a.end = "given up"
        PROVE  /\ Current(a.kind)' # a.key
               /\ ~(a.kind = kind /\ a.key = key)
    <3>1. a.key # 0 /\ Current(a.kind) # a.key
      BY <2>3 DEF IInv, GivenUpIsOver
    <3>2. Current(a.kind)' = Current(a.kind) \/ Current(a.kind)' > Given(a.kind)
      BY <2>1
    <3>3. Given(a.kind) \in Nat
      BY <1>6, <2>1
    <3> QED
      BY <2>1, <3>1, <3>2, <3>3
  <2>4. ASSUME a.end = "given up"
        PROVE  \A t \in Requests : About(t, a.kind, a.key)' => At(t, "answered")'
    BY <1>2, <1>3, <2>3, <2>4 DEF IInv, GivenUpIsOver, About, At
  <2> QED
    BY <2>2, <2>3, <2>4 DEF IInv, GivenUpIsOver
<1> QED
  BY <1>5, <1>7, <1>8, <1>9, <1>10, <1>11 DEF IInv

LEMMA OwnerKeepsInv ==
  ASSUME IInv,
         \/ Reopen \/ BookAgain \/ NewPet \/ AbandonQuote
         \/ SavePet \/ PrepareQuote \/ SubmitOrder
  PROVE  IInv'
<1>1. /\ booking \in Booking /\ page \in 1..MaxPages
      /\ MaxPets \in Nat /\ MaxKeys \in Nat /\ MaxPages \in Nat /\ MaxEdits \in Nat
      /\ None \notin Requests /\ app \in {"web", "mini"}
      /\ minted \in [pet : 0..MaxPets, order : 0..MaxKeys]
      /\ 0 \in 0..MaxEdits /\ 0 \in 0..MaxKeys /\ 0 \in 0..MaxPets
  BY IntakeAssumption DEF IntakeAssumption, IInv, TypeOK
<1>2. Fresh(pets) \in Booking /\ Fresh(pets).saving = 0 /\ Fresh(pets).attempt = 0
      /\ Fresh(pets).on = None /\ Fresh(pets).pet \in {"new", "saved"}
  BY <1>1 DEF Fresh, Booking
<1>3. CASE Reopen
  <2>1. page' \in 1..MaxPages
    BY <1>1, <1>3 DEF Reopen
  <2> QED
    BY <1>2, <1>3, <2>1, PageKeepsInv DEF Reopen
<1>4. CASE BookAgain
  <2>1. /\ booking' \in Booking /\ booking'.saving = booking.saving
        /\ booking'.attempt = booking.attempt
    BY <1>1, <1>2, <1>4 DEF BookAgain, Booking
  <2> QED
    BY <1>1, <1>4, <2>1, PageKeepsInv DEF BookAgain
<1>5. CASE NewPet
  <2>1. /\ booking' \in Booking /\ booking'.saving = booking.saving
        /\ booking'.attempt = booking.attempt /\ booking'.doubt = booking.doubt
        /\ booking'.on = booking.on
    BY <1>1, <1>5 DEF NewPet, Booking
  <2> QED
    BY <1>1, <1>5, <2>1, PageKeepsInv DEF NewPet
<1>6. CASE AbandonQuote
  <2>1. /\ booking' \in Booking /\ booking'.saving = booking.saving /\ booking'.attempt = 0
    BY <1>1, <1>6 DEF AbandonQuote, Booking
  <2> QED
    BY <1>1, <1>6, <2>1, PageKeepsInv DEF AbandonQuote
<1>7. booking.saving \in 0..minted.pet /\ booking.attempt \in 0..minted.order
  <2>1. \A kind \in Kept : Current(kind) <= Given(kind)
    BY DEF IInv, KeysAreMinted
  <2>2. booking.saving <= minted.pet /\ booking.attempt <= minted.order
    BY <2>1 DEF Current, Given, Kept
  <2>3. /\ booking.saving \in 0..MaxPets /\ booking.attempt \in 0..MaxKeys
        /\ minted.pet \in 0..MaxPets /\ minted.order \in 0..MaxKeys
    BY <1>1 DEF Booking
  <2> QED
    BY <1>1, <2>2, <2>3
<1>8. CASE SavePet
  <2> DEFINE key == IF booking.saving # 0 THEN booking.saving ELSE minted.pet + 1
  <2>1. /\ app = "mini" /\ booking.on = None /\ booking.attempt = 0 /\ key <= MaxPets
        /\ minted' = [minted EXCEPT !.pet = IF key > @ THEN key ELSE @]
        /\ Ask("pet", key, [booking EXCEPT !.saving = key, !.shown = 0])
        /\ UNCHANGED <<app, shopVars, page, settled, rowVars, faults>>
    BY <1>8 DEF SavePet, Idling
  <2>2. key \in 1..MaxPets /\ key \in 0..MaxPets /\ (key = booking.saving \/ key > minted.pet)
    BY <1>1, <1>7, <2>1
  <2> HIDE DEF key
  <2>3. PICK r \in Requests : /\ At(r, "idle") /\ Slot(r, Asked("pet", key))
                              /\ booking' = [booking EXCEPT !.saving = key, !.shown = 0, !.on = r]
    BY <1>1, <2>1 DEF Ask
  <2>4. /\ booking' \in Booking /\ booking'.saving = key /\ booking'.attempt = 0
        /\ booking'.on = r /\ booking'.doubt = booking.doubt
    BY <1>1, <2>1, <2>2, <2>3 DEF Booking
  <2>5. /\ minted' \in [pet : 0..MaxPets, order : 0..MaxKeys] /\ minted'.order = minted.order
        /\ minted.pet <= minted'.pet /\ key <= minted'.pet
    BY <1>1, <2>1, <2>2
  <2>6. \A k \in Kept : /\ Current(k)' = Current(k) \/ Current(k)' > Given(k)
                        /\ Current(k)' <= Given(k)'
    BY <1>1, <1>7, <2>1, <2>2, <2>4, <2>5 DEF Current, Given, Kept
  <2>7. key = Current("pet") \/ key > Given("pet")
    BY <2>2 DEF Current, Given
  <2>8. key <= Given("pet")' /\ key # 0 /\ key \in 0..(MaxKeys + MaxPets)
    BY <1>1, <2>2, <2>5 DEF Given
  <2>9. minted.order <= minted'.order
    BY <1>1, <2>5
  <2> QED
    BY <2>1, <2>3, <2>4, <2>5, <2>6, <2>7, <2>8, <2>9, AskingKeepsInv DEF Kind
<1>9. CASE SubmitOrder
  <2> DEFINE key == IF booking.attempt # 0 THEN booking.attempt ELSE minted.order + 1
  <2>1. /\ booking.on = None /\ booking.saving = 0 /\ key <= MaxKeys
        /\ minted' = [minted EXCEPT !.order = IF key > @ THEN key ELSE @]
        /\ Ask("order", key, [booking EXCEPT !.attempt = key])
        /\ UNCHANGED <<app, shopVars, page, settled, rowVars, faults>>
    BY <1>9 DEF SubmitOrder, Idling
  <2>2. key \in 1..MaxKeys /\ key \in 0..MaxKeys /\ (key = booking.attempt \/ key > minted.order)
    BY <1>1, <1>7, <2>1
  <2> HIDE DEF key
  <2>3. PICK r \in Requests : /\ At(r, "idle") /\ Slot(r, Asked("order", key))
                              /\ booking' = [booking EXCEPT !.attempt = key, !.on = r]
    BY <1>1, <2>1 DEF Ask
  <2>4. /\ booking' \in Booking /\ booking'.attempt = key /\ booking'.saving = 0
        /\ booking'.on = r /\ booking'.doubt = booking.doubt
    BY <1>1, <2>1, <2>2, <2>3 DEF Booking
  <2>5. /\ minted' \in [pet : 0..MaxPets, order : 0..MaxKeys] /\ minted'.pet = minted.pet
        /\ minted.order <= minted'.order /\ key <= minted'.order
    BY <1>1, <2>1, <2>2
  <2>6. \A k \in Kept : /\ Current(k)' = Current(k) \/ Current(k)' > Given(k)
                        /\ Current(k)' <= Given(k)'
    BY <1>1, <1>7, <2>1, <2>2, <2>4, <2>5 DEF Current, Given, Kept
  <2>7. key = Current("order") \/ key > Given("order")
    BY <2>2 DEF Current, Given
  <2>8. key <= Given("order")' /\ key # 0 /\ key >= 1 /\ key \in 0..(MaxKeys + MaxPets)
    BY <1>1, <2>2, <2>5 DEF Given
  <2>9. minted.pet <= minted'.pet
    BY <1>1, <2>5
  <2> QED
    BY <2>1, <2>3, <2>4, <2>5, <2>6, <2>7, <2>8, <2>9, AskingKeepsInv DEF Kind
<1>10. CASE PrepareQuote
  <2>1. /\ booking.on = None /\ booking.attempt = 0 /\ booking.saving = 0
        /\ UNCHANGED <<app, shopVars, page, minted, settled, rowVars, faults>>
    BY <1>10 DEF PrepareQuote, Editable, Idling
  <2>2. PICK kind \in {"pet", "quote"} : /\ kind = "pet" => app = "web"
                                         /\ Ask(kind, 0, [booking EXCEPT !.shown = 0])
    BY <1>10 DEF PrepareQuote
  <2>3. PICK r \in Requests : /\ At(r, "idle") /\ Slot(r, Asked(kind, 0))
                              /\ booking' = [booking EXCEPT !.shown = 0, !.on = r]
    BY <1>1, <2>2 DEF Ask
  <2>4. /\ booking' \in Booking /\ booking'.attempt = 0 /\ booking'.saving = 0
        /\ booking'.on = r /\ booking'.doubt = booking.doubt
    BY <1>1, <2>1, <2>3 DEF Booking
  <2>5. \A k \in Kept : Current(k)' = Current(k) /\ Current(k)' <= Given(k)'
    BY <1>1, <2>1, <2>4 DEF Current, Given
  <2>6. minted.pet <= minted'.pet /\ minted.order <= minted'.order /\ 0 <= Given("pet")'
    BY <1>1, <2>1 DEF Given
  <2>7. 0 \in 0..(MaxKeys + MaxPets) /\ minted' \in [pet : 0..MaxPets, order : 0..MaxKeys]
    BY <1>1, <2>1
  <2> QED
    BY <2>1, <2>2, <2>3, <2>4, <2>5, <2>6, <2>7, AskingKeepsInv DEF Kind, Kept
<1> QED
  BY <1>3, <1>4, <1>5, <1>6, <1>8, <1>9, <1>10

\* A slot becomes free that the page does not wait for.
LEMMA ForgettingKeepsInv ==
  ASSUME IInv, NEW r \in Requests, ~Heard(r), Slot(r, Idle),
         UNCHANGED <<app, shopVars, pageVars, rowVars, faults>>
  PROVE  IInv'
<1>1. Idle \in Request /\ Idle.stage = "idle"
  BY IntakeAssumption DEF IntakeAssumption, Idle, Request, Stage, Kind, Result
<1>2. /\ request' \in [Requests -> Request]
      /\ \A t \in Requests : request'[t] = IF t = r THEN Idle ELSE request[t]
  BY <1>1 DEF Slot, IInv, TypeOK
<1>3. UNCHANGED <<app, catalog, editing, booking, page, minted, settled, pets, orders, faults>>
  BY DEF shopVars, pageVars, rowVars
<1>4. TypeOK' /\ KeysAreMinted' /\ AnswersAreTrue'
  BY <1>1, <1>2, <1>3 DEF IInv, TypeOK, KeysAreMinted, AnswersAreTrue, Honest, There, Given,
     Current, Ordered
<1>5. HeardIsCurrent'
  BY <1>1, <1>2, <1>3 DEF IInv, HeardIsCurrent, Heard
<1>6. SureHasSeenAll'
  <2>1. \A kind \in Kept : UNCHANGED <<Current(kind), There(kind, Current(kind))>>
    BY <1>3 DEF Current, There, Ordered
  <2>2. \A t \in Requests, kind \in Kept :
          /\ About(t, kind, Current(kind))' => t # r /\ About(t, kind, Current(kind))
          /\ t # r => UNCHANGED <<Heard(t), At(t, "answered"), request[t],
                                  About(t, kind, Current(kind))>>
    BY <1>1, <1>2, <1>3, <2>1 DEF About, Heard, At
  <2> QED
    BY <1>3, <2>1, <2>2 DEF IInv, SureHasSeenAll
<1>7. GivenUpIsOver'
  <2>1. ASSUME NEW kind, NEW key
        PROVE  UNCHANGED <<There(kind, key), Current(kind)>>
    BY <1>3 DEF There, Ordered, Current
  <2>2. ASSUME NEW kind, NEW key, NEW t \in Requests, About(t, kind, key)'
        PROVE  t # r /\ About(t, kind, key) /\ UNCHANGED At(t, "answered")
    BY <1>1, <1>2, <2>2 DEF About, At
  <2> QED
    BY <1>3, <2>1, <2>2 DEF IInv, GivenUpIsOver
<1> QED
  BY <1>4, <1>5, <1>6, <1>7 DEF IInv

\* What the page takes from an answer, or from the loss of one: an attempt is
\* closed when it is there, or when the mini program has seen all there was.
LEMMA TakingKeepsInv ==
  ASSUME IInv, NEW r \in Requests, request[r].stage # "idle", Heard(r),
         NEW result \in Result, Take(r, result),
         \/ Slot(r, Idle) /\ At(r, "answered") /\ result = request[r].result
         \/ Slot(r, [request[r] EXCEPT !.page = 0]) /\ result = "failed",
         faults' \in 0..MaxFaults,
         UNCHANGED <<app, shopVars, page, minted, rowVars>>
  PROVE  IInv'
<1>a. PICK q : q = request[r]
  OBVIOUS
<1>0. /\ MaxPets \in Nat /\ MaxKeys \in Nat /\ MaxPages \in Nat /\ MaxEdits \in Nat
      /\ None \notin Requests
      /\ app \in {"web", "mini"} /\ booking \in Booking /\ q \in Request
      /\ Idle \in Request /\ Idle.stage = "idle" /\ q.key \in Nat
  <2>1. /\ MaxPets \in Nat /\ MaxKeys \in Nat /\ MaxPages \in Nat /\ MaxEdits \in Nat
        /\ None \notin Requests
    BY <1>a, IntakeAssumption DEF IntakeAssumption
  <2>2. app \in {"web", "mini"} /\ booking \in Booking /\ q \in Request
    BY <1>a, IntakeAssumption DEF IntakeAssumption, IInv, TypeOK
  <2>3. Idle \in Request /\ Idle.stage = "idle"
    BY <1>a, <2>1 DEF Idle, Request, Stage, Kind, Result
  <2> QED
    BY <1>a, <2>1, <2>2, <2>3 DEF Request
<1>1. /\ request' \in [Requests -> Request]
      /\ \A t \in Requests : t # r => request'[t] = request[t]
      /\ \/ request'[r].stage = "idle"
         \/ /\ request'[r].stage = q.stage /\ request'[r].kind = q.kind
            /\ request'[r].key = q.key /\ request'[r].price = q.price
            /\ request'[r].result = q.result
  <2>1. CASE Slot(r, Idle)
    BY <1>a, <1>0, <2>1 DEF Slot, IInv, TypeOK
  <2>2. CASE Slot(r, [q EXCEPT !.page = 0])
    <3>1. PICK x : x = [q EXCEPT !.page = 0]
      OBVIOUS
    <3>2. /\ x \in Request /\ x.stage = q.stage /\ x.kind = q.kind /\ x.key = q.key
          /\ x.price = q.price /\ x.result = q.result
      BY <1>a, <1>0, <3>1 DEF Request
    <3> QED
      BY <1>a, <2>2, <3>1, <3>2 DEF Slot, IInv, TypeOK
  <2> QED
    BY <1>a, <2>1, <2>2
<1>2. UNCHANGED <<catalog, editing, pets, orders>>
  BY <1>a DEF shopVars, rowVars
<1>3. /\ result = "done" /\ q.kind \in Kept => There(q.kind, q.key)
      /\ result = "rejected" => At(r, "answered") /\ q.result = "rejected" /\ request'[r].stage = "idle"
  <2>1. request \in [Requests -> Request]
    BY <1>a DEF IInv, TypeOK
  <2> QED
    BY <1>a, <1>0, <2>1 DEF IInv, AnswersAreTrue, Honest, At, Slot
<1>4. booking.on = r /\ q.page = page
  BY <1>a DEF Heard
\* What is shown and what is closed, whatever the request was about.
<1> DEFINE Closed(end) == [kind |-> q.kind, key |-> q.key, end |-> end]
           Certain == app = "mini" /\ q.kind \in Kept /\ result = "rejected" /\ booking.doubt = "sure"
<1>5. /\ booking' \in Booking /\ booking'.on = None
      /\ booking'.saving \in {booking.saving, 0} /\ booking'.attempt \in {booking.attempt, 0}
      /\ q.kind \notin Kept => /\ booking'.saving = booking.saving
                              /\ booking'.attempt = booking.attempt
                              /\ booking'.doubt = booking.doubt
      /\ app = "mini" /\ q.kind \in Kept /\ booking'.doubt = "sure" =>
           IF q.kind = "pet" THEN booking'.saving = 0 /\ booking'.attempt = booking.attempt
                             ELSE booking'.attempt = 0 /\ booking'.saving = booking.saving
      /\ Certain => Current(q.kind)' = 0
  <2> DEFINE b == [booking EXCEPT !.on = None]
  <2>1. /\ b \in Booking /\ b.on = None /\ b.saving = booking.saving
        /\ b.attempt = booking.attempt /\ b.doubt = booking.doubt /\ b.shown = booking.shown
        /\ q.price \in 0..MaxEdits /\ b.attempt \in 0..MaxKeys
        /\ 0 \in 0..MaxEdits /\ 0 \in 0..MaxKeys /\ 0 \in 0..MaxPets
    BY <1>a, <1>0 DEF Booking, Request
  <2> HIDE DEF b
  <2>2. CASE q.kind = "quote"
    <3>1. booking' = [b EXCEPT !.shown = IF result = "done" THEN q.price ELSE 0]
      BY <1>a, <2>2 DEF Take, b
    <3>2. (IF result = "done" THEN q.price ELSE 0) \in 0..MaxEdits
      BY <1>a, <1>0, <2>1
    <3> QED
      BY <1>a, <2>1, <2>2, <3>1, <3>2 DEF Booking, Kept
  <2>3. CASE q.kind = "pet"
    <3>1. booking' = AfterPet(b, result)
      BY <1>a, <2>3 DEF Take, b
    <3>2. CASE result = "done"
      BY <1>a, <1>0, <2>1, <2>3, <3>1, <3>2 DEF AfterPet, Booking, Kept
    <3>3. CASE result # "done" /\ app = "web"
      BY <1>a, <1>0, <2>1, <2>3, <3>1, <3>3 DEF AfterPet, Booking, Kept
    <3>4. CASE result # "done" /\ app = "mini" /\ Definite(result)
      BY <1>a, <1>0, <2>1, <2>3, <3>1, <3>4 DEF AfterPet, Booking, Kept, Current, Definite
    <3>5. CASE result # "done" /\ app = "mini" /\ ~Definite(result)
      BY <1>a, <1>0, <2>1, <2>3, <3>1, <3>5 DEF AfterPet, Booking, Kept, Definite
    <3> QED
      BY <1>a, <1>0, <3>2, <3>3, <3>4, <3>5
  <2>4. CASE q.kind = "order"
    <3>1. booking' = AfterOrder(b, result)
      BY <1>a, <2>4 DEF Take, b
    <3>2. CASE result = "done"
      BY <1>a, <1>0, <2>1, <2>4, <3>1, <3>2 DEF AfterOrder, Booking, Kept
    <3>3. CASE result # "done" /\ app = "web"
      BY <1>a, <1>0, <2>1, <2>4, <3>1, <3>3 DEF AfterOrder, Booking, Kept
    <3>4. CASE result # "done" /\ app = "mini" /\ Definite(result)
      BY <1>a, <1>0, <2>1, <2>4, <3>1, <3>4 DEF AfterOrder, Booking, Kept, Current, Definite
    <3>5. CASE result # "done" /\ app = "mini" /\ ~Definite(result)
      BY <1>a, <1>0, <2>1, <2>4, <3>1, <3>5 DEF AfterOrder, Booking, Kept, Definite
    <3> QED
      BY <1>a, <1>0, <3>2, <3>3, <3>4, <3>5
  <2> QED
    BY <1>a, <1>0, <2>2, <2>3, <2>4 DEF Request, Kind
<1>6. \/ UNCHANGED settled
      \/ q.kind \in Kept /\ result = "done" /\ settled' = settled \cup {Closed("done")}
      \/ Certain /\ settled' = settled \cup {Closed("given up")}
  <2>1. CASE q.kind = "quote"
    BY <1>a, <2>1 DEF Take
  <2>2. CASE q.kind \in Kept
    <3>1. Concludes(q.kind, q.key, result)
      BY <1>a, <2>2 DEF Take, Kept
    <3> QED
      BY <1>a, <2>2, <3>1 DEF Concludes, Settle, Definite
  <2> QED
    BY <1>a, <1>0, <2>1, <2>2 DEF Request, Kind, Kept
<1>b. \A end \in {"done", "given up"} :
        /\ Closed(end).kind = q.kind /\ Closed(end).key = q.key
        /\ q.kind \in Kept => Closed(end) \in Attempt
  BY <1>0 DEF Attempt, Kept
<1>c. Certain => q.kind \in Kept
  OBVIOUS
<1>d. settled \subseteq Attempt
  BY DEF IInv, TypeOK
<1>e. \A a \in settled : a.key <= Given(a.kind) /\ (a.kind = "order" => a.key >= 1)
  BY DEF IInv, KeysAreMinted
<1> HIDE DEF Closed, Certain
<1>7. \A kind \in Kept : /\ Current(kind)' \in {Current(kind), 0} /\ UNCHANGED Given(kind)
                         /\ Given(kind) \in Nat /\ Current(kind) <= Given(kind)
  BY <1>a, <1>0, <1>5 DEF Current, Given, IInv, TypeOK, KeysAreMinted
<1>8. q.kind \in Kept => q.key <= Given(q.kind) /\ (q.kind = "order" => q.key >= 1)
  BY <1>a DEF IInv, KeysAreMinted
<1>9. ASSUME Certain
      PROVE  /\ q.key # 0 /\ Current(q.kind)' # q.key /\ ~There(q.kind, q.key)
             /\ \A t \in Requests : About(t, q.kind, q.key) => t = r
  <2>1. /\ app = "mini" /\ q.kind \in Kept /\ booking.doubt = "sure" /\ result = "rejected"
        /\ Current(q.kind)' = 0
    BY <1>a, <1>5, <1>9 DEF Certain
  <2>2. q.key = Current(q.kind) /\ q.key # 0
    BY <1>a, <2>1 DEF Kept, Current, IInv, HeardIsCurrent
  <2>3. \A t \in Requests : Heard(t) => t = r
    BY <1>a DEF Heard
  <2>4. q.result # "done"
    BY <1>a, <1>3, <2>1
  <2> QED
    BY <1>a, <2>1, <2>2, <2>3, <2>4 DEF IInv, SureHasSeenAll
<1>10. TypeOK'
  <2>1. settled' \subseteq Attempt
    BY <1>6, <1>b, <1>c, <1>d
  <2> QED
    BY <1>a, <1>1, <1>2, <1>5, <2>1 DEF IInv, TypeOK
<1>11. KeysAreMinted'
  <2>1. \A t \in Requests :
          /\ request'[t].stage # "idle" /\ request'[t].kind \in Kept
               => request'[t].key <= Given(request'[t].kind)
          /\ request'[t].stage # "idle" /\ request'[t].kind = "order" => request'[t].key >= 1
    BY <1>a, <1>1, <1>8 DEF IInv, KeysAreMinted
  <2>2. \A kind \in Kept : Current(kind)' <= Given(kind)
    BY <1>a, <1>7
  <2>3. \A a \in settled' : a.key <= Given(a.kind) /\ (a.kind = "order" => a.key >= 1)
    BY <1>6, <1>8, <1>b, <1>c, <1>e
  <2> QED
    BY <1>a, <1>2, <2>1, <2>2, <2>3 DEF IInv, KeysAreMinted, Given, Ordered
<1>12. AnswersAreTrue'
  <2> SUFFICES ASSUME NEW t \in Requests PROVE Honest(request[t])'
    BY <1>a DEF AnswersAreTrue
  <2>1. Honest(request[t])
    BY <1>a DEF IInv, AnswersAreTrue
  <2> QED
    BY <1>a, <1>1, <1>2, <2>1 DEF Honest, There, Ordered
<1>13. HeardIsCurrent'
  BY <1>a, <1>0, <1>5 DEF HeardIsCurrent, Heard
<1>14. SureHasSeenAll'
  <2> SUFFICES ASSUME app = "mini", booking'.doubt = "sure", NEW kind \in Kept, Current(kind)' # 0
               PROVE  /\ \A t \in Requests : ~About(t, kind, Current(kind))'
                      /\ ~There(kind, Current(kind))'
    BY <1>a DEF SureHasSeenAll
  <2>1. q.kind \notin Kept
    <3>1. ASSUME q.kind = "pet" PROVE Current(kind)' = 0
      <4>1. booking'.saving = 0 /\ booking'.attempt = 0
        BY <1>a, <1>5, <3>1 DEF Kept, IInv, HeardIsCurrent
      <4> QED
        BY <1>a, <4>1 DEF Current
    <3>2. ASSUME q.kind = "order" PROVE Current(kind)' = 0
      <4>1. booking'.saving = 0 /\ booking'.attempt = 0
        BY <1>a, <1>5, <3>2 DEF Kept, IInv, HeardIsCurrent
      <4> QED
        BY <1>a, <4>1 DEF Current
    <3> QED
      BY <1>a, <3>1, <3>2 DEF Kept
  <2>2. Current(kind)' = Current(kind) /\ Current(kind) # 0 /\ booking.doubt = "sure"
    BY <1>a, <1>5, <2>1 DEF Current
  <2>3. \A t \in Requests : Heard(t) => ~About(t, kind, Current(kind))
    BY <1>a, <2>1 DEF Heard, About
  <2>4. /\ \A t \in Requests : ~About(t, kind, Current(kind))
        /\ ~There(kind, Current(kind))
    BY <1>a, <2>2, <2>3 DEF IInv, SureHasSeenAll
  <2>5. \A t \in Requests : ~About(t, kind, Current(kind))'
    BY <1>a, <1>1, <2>1, <2>2, <2>4 DEF About
  <2> QED
    BY <1>a, <1>2, <2>2, <2>4, <2>5 DEF There, Ordered
<1>15. GivenUpIsOver'
  <2> SUFFICES ASSUME NEW a \in settled'
               PROVE  /\ a.end = "done" => There(a.kind, a.key)'
                      /\ a.end = "given up" =>
                           /\ ~There(a.kind, a.key)' /\ a.key # 0 /\ Current(a.kind)' # a.key
                           /\ \A t \in Requests : About(t, a.kind, a.key)' => At(t, "answered")'
    BY <1>a DEF GivenUpIsOver
  <2>1. There(a.kind, a.key)' = There(a.kind, a.key)
    BY <1>a, <1>2 DEF There, Ordered
  <2>2. \A t \in Requests : About(t, a.kind, a.key)' =>
          About(t, a.kind, a.key) /\ (At(t, "answered") => At(t, "answered")')
    BY <1>a, <1>1 DEF About, At
  <2>3. CASE a \in settled
    <3>1. a.kind \in Kept
      BY <1>a, <2>3 DEF IInv, TypeOK, Attempt, Kept
    <3> QED
      BY <1>a, <1>7, <2>1, <2>2, <2>3, <3>1 DEF IInv, GivenUpIsOver
  <2>4. CASE a = Closed("done") /\ q.kind \in Kept /\ result = "done"
    BY <1>a, <1>3, <2>1, <2>4 DEF Closed
  <2>5. CASE a = Closed("given up") /\ Certain
    <3>1. a.kind = q.kind /\ a.key = q.key /\ a.end = "given up"
      BY <1>a, <2>5 DEF Closed
    <3>2. At(r, "answered") /\ request'[r].stage = "idle"
      BY <1>a, <1>3, <2>5 DEF Certain
    <3>3. \A t \in Requests : ~About(t, a.kind, a.key)'
      BY <1>a, <1>9, <2>2, <2>5, <3>1, <3>2 DEF About
    <3> QED
      BY <1>a, <1>9, <2>1, <2>5, <3>1, <3>3
  <2> QED
    BY <1>a, <1>6, <2>3, <2>4, <2>5
<1> QED
  BY <1>a, <1>10, <1>11, <1>12, <1>13, <1>14, <1>15 DEF IInv

\* prepareQuote of the web client goes on: the slot asks for the quote.
LEMMA HearingKeepsInv ==
  ASSUME IInv, NEW r \in Requests, Hear(r)
  PROVE  IInv'
<1>1. /\ MaxPages \in Nat /\ MaxEdits \in Nat /\ MaxKeys \in Nat /\ MaxPets \in Nat
      /\ booking \in Booking /\ request \in [Requests -> Request] /\ request[r] \in Request
      /\ faults \in 0..MaxFaults /\ page \in 1..MaxPages
  BY IntakeAssumption DEF IntakeAssumption, IInv, TypeOK
<1>2. /\ At(r, "answered") /\ Heard(r) /\ request[r].stage # "idle"
      /\ UNCHANGED <<app, shopVars, page, minted, rowVars, faults>>
  BY DEF Hear, At
<1>3. CASE ~GoesOn(r)
  <2>1. Slot(r, Idle) /\ Take(r, request[r].result)
    BY <1>3 DEF Hear
  <2>2. request[r].result \in Result /\ faults' \in 0..MaxFaults
    BY <1>1, <1>2 DEF Request
  <2> QED
    BY <1>2, <2>1, <2>2, TakingKeepsInv
<1>4. CASE GoesOn(r)
  <2>1. /\ app = "web" /\ Slot(r, Asked("quote", 0)) /\ settled' = settled
        /\ booking' = [booking EXCEPT !.pet = "saved"]
    BY <1>4 DEF Hear, GoesOn
  <2>2. /\ Asked("quote", 0) \in Request /\ Asked("quote", 0).kind = "quote"
        /\ Asked("quote", 0).stage = "arrived"
    <3>1. page \in 0..MaxPages /\ 0 \in 0..MaxEdits /\ 0 \in 0..(MaxKeys + MaxPets)
      BY <1>1
    <3> QED
      BY <3>1 DEF Asked, Idle, Request, Stage, Kind, Result
  <2>3. /\ request' \in [Requests -> Request]
        /\ \A t \in Requests : request'[t] = IF t = r THEN Asked("quote", 0) ELSE request[t]
    BY <1>1, <2>1, <2>2 DEF Slot
  <2>4. /\ booking' \in Booking /\ booking'.saving = booking.saving
        /\ booking'.attempt = booking.attempt
    BY <1>1, <2>1 DEF Booking
  <2>5. /\ UNCHANGED <<app, catalog, editing, page, minted, settled, pets, orders, faults>>
        /\ \A kind \in Kept : Current(kind)' = Current(kind)
    BY <1>2, <2>1, <2>4 DEF shopVars, rowVars, Current
  <2>6. TypeOK'
    BY <2>3, <2>4, <2>5 DEF IInv, TypeOK
  <2>7. KeysAreMinted'
    BY <2>2, <2>3, <2>4, <2>5 DEF IInv, KeysAreMinted, Given, Current, Ordered, Kept
  <2>8. AnswersAreTrue'
    BY <2>2, <2>3, <2>5 DEF IInv, AnswersAreTrue, Honest, There, Ordered
  <2>9. HeardIsCurrent' /\ SureHasSeenAll'
    BY <2>1, <2>5 DEF HeardIsCurrent, SureHasSeenAll
  <2>10. GivenUpIsOver'
    <3>1. \A a \in settled : a.kind \in Kept
      BY DEF IInv, TypeOK, Attempt, Kept
    <3>2. \A kind \in Kept, key \in Nat, t \in Requests :
            About(t, kind, key)' => t # r /\ About(t, kind, key) /\ request'[t] = request[t]
      BY <2>2, <2>3 DEF About, Kept
    <3>3. \A a \in settled : a.key \in Nat
      BY DEF IInv, TypeOK, Attempt
    <3>4. \A a \in settled :
            /\ There(a.kind, a.key)' = There(a.kind, a.key)
            /\ Current(a.kind)' = Current(a.kind)
            /\ \A t \in Requests : /\ About(t, a.kind, a.key)' => About(t, a.kind, a.key)
                                   /\ About(t, a.kind, a.key)' => At(t, "answered")' = At(t, "answered")
      BY <2>5, <3>1, <3>2, <3>3 DEF At, There, Ordered
    <3> QED
      BY <2>5, <3>4 DEF IInv, GivenUpIsOver
  <2> QED
    BY <2>6, <2>7, <2>8, <2>9, <2>10 DEF IInv
<1> QED
  BY <1>3, <1>4

-----------------------------------------------------------------------------
\* The invariant, but for the types, is about the page, its requests and rows.
LEMMA SameKeepsInv ==
  ASSUME IInv, TypeOK', UNCHANGED <<app, booking, page, minted, settled, request, pets, orders>>
  PROVE  IInv'
<1>1. KeysAreMinted'
  BY DEF IInv, KeysAreMinted, Given, Current, Ordered
<1>2. AnswersAreTrue'
  BY DEF IInv, AnswersAreTrue, Honest, There, Ordered
<1>3. HeardIsCurrent'
  BY DEF IInv, HeardIsCurrent, Heard
<1>4. SureHasSeenAll'
  BY DEF IInv, SureHasSeenAll, Current, About, Heard, At, There, Ordered
<1>5. GivenUpIsOver'
  BY DEF IInv, GivenUpIsOver, Current, About, At, There, Ordered
<1> QED
  BY <1>1, <1>2, <1>3, <1>4, <1>5 DEF IInv

LEMMA StepKeepsInv == IInv /\ [Next]_vars => IInv'
<1> SUFFICES ASSUME IInv, [Next]_vars PROVE IInv'
  OBVIOUS
<1>1. CASE \E a \in Admins : ReadCatalog(a) \/ UpdateCatalog(a)
  <2>1. PICK a \in Admins : ReadCatalog(a) \/ UpdateCatalog(a)
    BY <1>1
  <2>2. UNCHANGED <<app, booking, page, minted, settled, request, pets, orders, faults>>
    BY <2>1 DEF ReadCatalog, UpdateCatalog, pageVars, rowVars
  <2>3. /\ catalog' \in [open : {"open", "closed"}, version : 1..MaxEdits]
        /\ editing' \in [Admins -> 1..MaxEdits]
    <3>1. /\ catalog \in [open : {"open", "closed"}, version : 1..MaxEdits] /\ MaxEdits \in Nat
          /\ editing \in [Admins -> 1..MaxEdits] /\ catalog.version \in 1..MaxEdits
      BY IntakeAssumption DEF IntakeAssumption, IInv, TypeOK
    <3>2. CASE ReadCatalog(a)
      BY <3>1, <3>2 DEF ReadCatalog
    <3>3. CASE UpdateCatalog(a) /\ editing[a] # catalog.version
      BY <3>1, <3>3 DEF UpdateCatalog
    <3>4. CASE UpdateCatalog(a) /\ editing[a] = catalog.version
      <4>1. PICK open \in {"open", "closed"} :
              /\ catalog.version < MaxEdits
              /\ catalog' = [open |-> open, version |-> catalog.version + 1]
              /\ editing' = [editing EXCEPT ![a] = catalog'.version]
        BY <3>4 DEF UpdateCatalog
      <4>2. catalog.version + 1 \in 1..MaxEdits
        BY <3>1, <4>1
      <4> QED
        BY <3>1, <4>1, <4>2
    <3> QED
      BY <2>1, <3>2, <3>3, <3>4
  <2>4. TypeOK'
    BY <2>2, <2>3 DEF IInv, TypeOK
  <2> QED
    BY <2>2, <2>4, SameKeepsInv
<1>2. CASE \/ Reopen \/ BookAgain \/ NewPet \/ AbandonQuote
           \/ SavePet \/ PrepareQuote \/ SubmitOrder
  BY <1>2, OwnerKeepsInv
<1>3. ASSUME NEW r \in Requests, Serve(r) \/ Refuse(r) \/ Fail(r) PROVE IInv'
  BY <1>3, ServeKeepsInv
<1>4. ASSUME NEW r \in Requests, Hear(r) PROVE IInv'
  BY <1>4, HearingKeepsInv
<1>5. ASSUME NEW r \in Requests, Ignore(r) PROVE IInv'
  BY <1>5, ForgettingKeepsInv DEF Ignore
<1>6. ASSUME NEW r \in Requests, Drop(r) PROVE IInv'
  <2>1. page \in 1..MaxPages /\ MaxPages \in Nat
    BY IntakeAssumption DEF IntakeAssumption, IInv, TypeOK
  <2>2. ~Heard(r)
    BY <1>6, <2>1 DEF Drop, Heard
  <2> QED
    BY <1>6, <2>2, ForgettingKeepsInv DEF Drop
<1>7. ASSUME NEW r \in Requests, Lose(r) PROVE IInv'
  <2>1. faults' \in 0..MaxFaults
    BY <1>7, IntakeAssumption DEF IntakeAssumption, Lose, IInv, TypeOK
  <2>2. "failed" \in Result
    BY DEF Result
  <2>3. /\ request[r].stage # "idle" /\ Heard(r) /\ Take(r, "failed")
        /\ Slot(r, [request[r] EXCEPT !.page = 0])
        /\ UNCHANGED <<app, shopVars, page, minted, rowVars>>
    BY <1>7 DEF Lose, At
  <2> QED
    BY <2>1, <2>2, <2>3, TakingKeepsInv
<1>8. CASE UNCHANGED vars
  <2>1. TypeOK'
    BY <1>8 DEF vars, shopVars, pageVars, rowVars, IInv, TypeOK
  <2>2. UNCHANGED <<app, booking, page, minted, settled, request, pets, orders>>
    BY <1>8 DEF vars, shopVars, pageVars, rowVars
  <2> QED
    BY <2>1, <2>2, SameKeepsInv
<1> QED
  BY <1>1, <1>2, <1>3, <1>4, <1>5, <1>6, <1>7, <1>8 DEF Next

\* The page, the catalog, the requests and the rows have their types, whatever
\* requests of the page meet at the API.
THEOREM IntakeTypes == Spec => []TypeOK
<1>1. Spec => []IInv
  BY InitSound, StepKeepsInv, PTL DEF Spec
<1>2. IInv => TypeOK
  BY DEF IInv
<1> QED
  BY <1>1, <1>2, PTL

\* What the page is sure of is so: it was told of no order or pet that is not
\* there, and none it gave up as refused comes after all.
THEOREM PageStaysRight == Spec => []PageIsRight
<1>1. Spec => []IInv
  BY InitSound, StepKeepsInv, PTL DEF Spec
<1> QED
  BY <1>1, InvImpliesPageIsRight, PTL

-----------------------------------------------------------------------------
(* FeeConfirmation.                                                        *)

\* A call names an order there is, and writes with the version it had unpaid.
CallsHoldUnpaid ==
  \A c \in Calls : call[c].stage # "idle" =>
    /\ fees[call[c].order].status # NotYet
    /\ call[c].stage = "write" => call[c].version = 0

FeeInv == FeeTypeOK /\ PaidOnce /\ OneOrderPerKey /\ ToldIsSo /\ CallsHoldUnpaid

-----------------------------------------------------------------------------
\* A slot that is not idle holds a call.
LEMMA BusyIsCall ==
  ASSUME FeeTypeOK, NEW c \in Calls, call[c].stage # "idle"
  PROVE  call[c] \in Call /\ call[c].order \in Orders /\ call[c].key \in FeeKeys
           /\ call[c].version \in Nat
  BY DEF FeeTypeOK, FreeSlot, Call

\* A row that moves on stays a row, a call that is held for its write a call.
LEMMA MovedIsFee ==
  ASSUME NEW r \in Fee, NEW v \in Nat
  PROVE  [r EXCEPT !.status = "PENDING_SERVICE", !.version = v] \in Fee
  BY DEF Fee, FeeStatus
LEMMA HeldIsCall ==
  ASSUME NEW r \in Call, NEW v \in Nat
  PROVE  /\ [r EXCEPT !.stage = "write", !.version = v] \in Call
         /\ [r EXCEPT !.stage = "write", !.version = v].order = r.order
         /\ [r EXCEPT !.stage = "write", !.version = v].stage = "write"
         /\ [r EXCEPT !.stage = "write", !.version = v].version = v
  BY DEF Call, CallStage

\* A call that goes on stays a call.
LEMMA GoOnIsCall ==
  ASSUME FeeTypeOK, NEW c \in Calls, call[c].stage # "idle", NEW s \in CallStage, GoOn(c, s)
  PROVE  /\ call' \in [Calls -> Call \cup {FreeSlot}]
         /\ call'[c].stage = s /\ call'[c].order = call[c].order
         /\ \A d \in Calls \ {c} : call'[d] = call[d]
  BY BusyIsCall DEF GoOn, FeeTypeOK, Call

\* A call that ends leaves a free slot.
LEMMA EndFrees ==
  ASSUME FeeTypeOK, NEW c \in Calls, End(c)
  PROVE  /\ call' \in [Calls -> Call \cup {FreeSlot}]
         /\ call'[c] = FreeSlot
         /\ \A d \in Calls \ {c} : call'[d] = call[d]
  BY DEF End, FeeTypeOK

\* What a payment changes: one order, once, by a key that had confirmed nothing.
LEMMA PayKeeps ==
  ASSUME FeeTypeOK, PaidOnce, OneOrderPerKey, ToldIsSo, FeeAssumption,
         NEW o \in Orders, NEW f \in FeeKeys,
         fees[o].status # NotYet, fees[o].version = 0,
         \A p \in Orders \ {o} : fees[p].key # f,
         Pay(o, f)
  PROVE  /\ fees' \in [Orders -> Fee] /\ told' \subseteq Orders \X FeeKeys
         /\ PaidOnce' /\ OneOrderPerKey' /\ ToldIsSo'
         /\ \A p \in Orders : fees[p].status # NotYet => fees'[p].status # NotYet
  <1> DEFINE paid == [status |-> "PENDING_DISPATCH", version |-> fees[o].version + 1,
                      payment |-> "SUCCEEDED", key |-> f]
  <1>1. fees' = [fees EXCEPT ![o] = paid] /\ told' = told \cup {<<o, f>>}
    BY DEF Pay
  <1>2. fees[o] \in Fee /\ paid \in Fee
    BY DEF FeeTypeOK, Fee, FeeStatus
  <1>3. fees'[o] = paid /\ \A p \in Orders \ {o} : fees'[p] = fees[p]
    BY <1>1 DEF FeeTypeOK
  <1>4. fees' \in [Orders -> Fee] /\ told' \subseteq Orders \X FeeKeys
    BY <1>1, <1>2 DEF FeeTypeOK
  <1>5. fees[o].payment # "SUCCEEDED"
    BY <1>2 DEF PaidOnce, Moves, Fee, FeeStatus, NotYet
  <1>6. PaidOnce'
    <2> SUFFICES ASSUME NEW p \in Orders
                 PROVE  /\ fees'[p].payment = "SUCCEEDED"
                             <=> fees'[p].status \in {"PENDING_DISPATCH", "PENDING_SERVICE"}
                        /\ fees'[p].payment = "SUCCEEDED" <=> fees'[p].key # NoKey
                        /\ fees'[p].version = Moves[fees'[p].status]
      BY DEF PaidOnce, Moves
    <2>1. CASE p = o
      BY <1>3, <2>1, FeeAssumption DEF FeeAssumption, Moves
    <2>2. CASE p # o
      BY <1>3, <2>2 DEF PaidOnce
    <2> QED BY <2>1, <2>2
  <1>7. OneOrderPerKey'
    <2> SUFFICES ASSUME NEW p \in Orders, NEW q \in Orders,
                        fees'[p].key = fees'[q].key, fees'[p].key # NoKey
                 PROVE  p = q
      BY DEF OneOrderPerKey
    <2>1. CASE p # o /\ q # o
      BY <1>3, <2>1 DEF OneOrderPerKey
    <2>2. CASE p = o \/ q = o
      BY <1>3, <2>2
    <2> QED BY <2>1, <2>2
  <1>8. ToldIsSo'
    <2> SUFFICES ASSUME NEW t \in told'
                 PROVE  fees'[t[1]].key = t[2] /\ fees'[t[1]].payment = "SUCCEEDED"
      BY DEF ToldIsSo, Confirmed
    <2>1. CASE t = <<o, f>>
      BY <1>3, <2>1
    <2>2. CASE t \in told
      <3>1. t[1] \in Orders /\ fees[t[1]].key = t[2] /\ fees[t[1]].payment = "SUCCEEDED"
        BY <2>2 DEF ToldIsSo, Confirmed, FeeTypeOK
      <3> QED BY <3>1, <1>3, <1>5
    <2> QED BY <1>1, <2>1, <2>2
  <1>9. \A p \in Orders : fees[p].status # NotYet => fees'[p].status # NotYet
    BY <1>3 DEF NotYet
  <1> QED BY <1>4, <1>6, <1>7, <1>8, <1>9

\* A replay that is answered with success is one.
LEMMA ReplayKeeps ==
  ASSUME FeeTypeOK, ToldIsSo, NEW o \in Orders, NEW f \in FeeKeys, ReplayOf(o, f), fees' = fees
  PROVE  told' \subseteq Orders \X FeeKeys /\ ToldIsSo'
  <1>1. CASE Confirmed(o, f)
    BY <1>1 DEF ReplayOf, ToldIsSo, Confirmed, FeeTypeOK
  <1>2. CASE ~Confirmed(o, f)
    BY <1>2 DEF ReplayOf, ToldIsSo, Confirmed, FeeTypeOK
  <1> QED BY <1>1, <1>2

-----------------------------------------------------------------------------
LEMMA FeeInitInv == FeeInit => FeeInv
  <1> SUFFICES ASSUME FeeInit PROVE FeeInv
    OBVIOUS
  <1>1. Unopened \in Fee
    BY DEF Unopened, Fee, FeeStatus, NotYet
  <1>2. FeeTypeOK
    BY <1>1 DEF FeeInit, FeeTypeOK
  <1>3. PaidOnce /\ OneOrderPerKey /\ ToldIsSo
    BY DEF FeeInit, PaidOnce, OneOrderPerKey, ToldIsSo, Unopened, Moves, NotYet
  <1>4. CallsHoldUnpaid
    BY DEF FeeInit, CallsHoldUnpaid, FreeSlot
  <1> QED BY <1>2, <1>3, <1>4 DEF FeeInv

\* Open and Accept write one row and leave what was confirmed.
LEMMA RowSteps ==
  ASSUME FeeInv, FeeAssumption, NEW o \in Orders, Open(o) \/ Accept(o)
  PROVE  FeeInv'
  <1> USE DEF FeeInv
  <1>1. fees[o] \in Fee
    BY DEF FeeTypeOK
  <1>2. /\ \A p \in Orders \ {o} : fees'[p] = fees[p]
        /\ fees'[o].key = fees[o].key /\ fees'[o].status # NotYet
        /\ fees[o].payment = "SUCCEEDED" => fees'[o].payment = "SUCCEEDED"
        /\ UNCHANGED <<gateway, call, told>>
    <2>1. CASE Open(o)
      <3>1. fees[o].key = NoKey /\ fees[o].payment # "SUCCEEDED"
        BY <2>1, <1>1 DEF Open, PaidOnce, NotYet
      <3> QED BY <2>1, <3>1 DEF Open, FeeTypeOK, NotYet
    <2>2. CASE Accept(o)
      BY <2>2, <1>1 DEF Accept, FeeTypeOK, NotYet, Fee
    <2> QED BY <2>1, <2>2
  <1>3. FeeTypeOK'
    <2>1. CASE Open(o)
      BY <2>1, <1>2 DEF Open, FeeTypeOK, Fee, FeeStatus
    <2>2. CASE Accept(o)
      <3>1. [fees[o] EXCEPT !.status = "PENDING_SERVICE", !.version = @ + 1] \in Fee
        <4>1. fees[o].version \in Nat /\ fees[o].version + 1 \in Nat
          BY <1>1 DEF Fee
        <4> QED BY <1>1, <4>1, MovedIsFee
      <3> QED BY <2>2, <3>1 DEF Accept, FeeTypeOK
    <2> QED BY <2>1, <2>2
  <1>4. PaidOnce'
    <2> SUFFICES ASSUME NEW p \in Orders
                 PROVE  /\ fees'[p].payment = "SUCCEEDED"
                             <=> fees'[p].status \in {"PENDING_DISPATCH", "PENDING_SERVICE"}
                        /\ fees'[p].payment = "SUCCEEDED" <=> fees'[p].key # NoKey
                        /\ fees'[p].version = Moves[fees'[p].status]
      BY DEF PaidOnce, Moves
    <2>1. CASE p # o
      BY <1>2, <2>1 DEF PaidOnce
    <2>2. CASE p = o /\ Open(o)
      BY <1>2, <2>2 DEF Open, FeeTypeOK, PaidOnce, Moves
    <2>3. CASE p = o /\ Accept(o)
      <3>1. fees'[o] = [fees[o] EXCEPT !.status = "PENDING_SERVICE", !.version = @ + 1]
        BY <2>3 DEF Accept, FeeTypeOK
      <3>2. fees[o].payment = "SUCCEEDED" /\ fees[o].key # NoKey /\ fees[o].version = 1
        BY <2>3, <1>1 DEF Accept, PaidOnce, Moves
      <3> QED BY <2>3, <3>1, <3>2, <1>1 DEF Moves, Fee
    <2> QED BY <2>1, <2>2, <2>3
  <1>5. OneOrderPerKey'
    <2>1. \A p \in Orders : fees'[p].key = fees[p].key
      BY <1>2
    <2> QED BY <2>1 DEF OneOrderPerKey
  <1>6. ToldIsSo'
    <2>1. \A t \in told : t[1] \in Orders
      BY DEF FeeTypeOK
    <2> QED BY <1>2, <2>1 DEF ToldIsSo, Confirmed
  <1>7. CallsHoldUnpaid'
    <2>1. \A c \in Calls : call[c].stage # "idle" => call[c].order \in Orders
      BY BusyIsCall
    <2> QED BY <1>2, <2>1 DEF CallsHoldUnpaid
  <1> QED BY <1>3, <1>4, <1>5, <1>6, <1>7

\* A call that arrives names an order there is.
LEMMA ReceiveStep ==
  ASSUME FeeInv, NEW c \in Calls, NEW o \in Orders, NEW f \in FeeKeys, Receive(c, o, f)
  PROVE  FeeInv'
  <1> USE DEF FeeInv
  <1>1. /\ call' = [call EXCEPT ![c] = [stage |-> "keyed", order |-> o, key |-> f, version |-> 0]]
        /\ UNCHANGED <<gateway, fees, told>> /\ fees[o].status # NotYet
    BY DEF Receive
  <1>2. FeeTypeOK'
    BY <1>1 DEF FeeTypeOK, Call, CallStage
  <1>3. PaidOnce' /\ OneOrderPerKey' /\ ToldIsSo'
    BY <1>1 DEF PaidOnce, OneOrderPerKey, ToldIsSo, Confirmed, Moves
  <1>4. CallsHoldUnpaid'
    BY <1>1 DEF CallsHoldUnpaid, FeeTypeOK
  <1> QED BY <1>2, <1>3, <1>4

\* The steps that only read: a call that is kept for its write holds version 0.
LEMMA ReadSteps ==
  ASSUME FeeInv, NEW c \in Calls, LookUpKey(c) \/ ReadPayment(c) \/ VerifyEvent(c)
  PROVE  FeeInv'
  <1> USE DEF FeeInv
  <1> DEFINE o == call[c].order
             held == [call[c] EXCEPT !.stage = "write", !.version = fees[o].version]
  <1>1. call[c].stage # "idle" /\ fees' = fees /\ gateway' = gateway
    BY DEF LookUpKey, ReadPayment, VerifyEvent, Now
  <1>2. call[c] \in Call /\ o \in Orders /\ call[c].key \in FeeKeys /\ fees[o] \in Fee
    BY <1>1, BusyIsCall DEF FeeTypeOK
  <1>3. told' \subseteq Orders \X FeeKeys /\ ToldIsSo'
    <2>1. CASE LookUpKey(c) \/ VerifyEvent(c)
      BY <2>1, <1>1, <1>2, ReplayKeeps DEF LookUpKey, VerifyEvent
    <2>2. CASE ReadPayment(c)
      BY <2>2, <1>1 DEF ReadPayment, FeeTypeOK, ToldIsSo, Confirmed
    <2> QED BY <2>1, <2>2
  <1>4. \/ End(c)
        \/ GoOn(c, "read")
        \/ Unpaid(o) /\ call' = [call EXCEPT ![c] = held]
    BY DEF LookUpKey, ReadPayment, VerifyEvent
  <1>5. call' \in [Calls -> Call \cup {FreeSlot}] /\ CallsHoldUnpaid'
    <2>1. CASE End(c)
      <3>1. /\ call' \in [Calls -> Call \cup {FreeSlot}]
            /\ call'[c] = FreeSlot /\ \A d \in Calls \ {c} : call'[d] = call[d]
        BY <2>1, EndFrees
      <3> QED BY <3>1, <1>1 DEF CallsHoldUnpaid, FreeSlot
    <2>2. CASE GoOn(c, "read")
      <3>1. /\ call' \in [Calls -> Call \cup {FreeSlot}]
            /\ call'[c].stage = "read" /\ call'[c].order = o
            /\ \A d \in Calls \ {c} : call'[d] = call[d]
        BY <2>2, <1>1, GoOnIsCall DEF CallStage
      <3> QED BY <3>1, <1>1 DEF CallsHoldUnpaid
    <2>3. CASE Unpaid(o) /\ call' = [call EXCEPT ![c] = held]
      <3>1. fees[o].version = 0
        BY <2>3, <1>2 DEF Unpaid, PaidOnce, Moves
      <3>2. held \in Call /\ held.order = o /\ held.stage = "write" /\ held.version = 0
        <4> DEFINE v == fees[o].version
        <4>1. v \in Nat /\ v = 0
          BY <3>1
        <4> HIDE DEF v
        <4>2. LET h == [call[c] EXCEPT !.stage = "write", !.version = v] IN
                h \in Call /\ h.order = o /\ h.stage = "write" /\ h.version = 0
          BY <1>2, <4>1, HeldIsCall
        <4> QED BY <4>2 DEF v
      <3>3. call' \in [Calls -> Call \cup {FreeSlot}]
        BY <2>3, <3>2 DEF FeeTypeOK
      <3>4. call'[c] = held /\ \A d \in Calls \ {c} : call'[d] = call[d]
        BY <2>3 DEF FeeTypeOK
      <3>5. call'[c].order = o /\ call'[c].version = 0
        BY <3>2, <3>4
      <3> HIDE DEF held
      <3> QED BY <3>3, <3>4, <3>5, <1>1 DEF CallsHoldUnpaid
    <2> QED BY <1>4, <2>1, <2>2, <2>3
  <1>6. FeeTypeOK'
    BY <1>1, <1>3, <1>5 DEF FeeTypeOK
  <1>7. PaidOnce' /\ OneOrderPerKey'
    BY <1>1 DEF PaidOnce, OneOrderPerKey, Moves
  <1> QED BY <1>3, <1>5, <1>6, <1>7

\* The steps that write: what they find is what their call has read, or they
\* write nothing.
LEMMA WriteSteps ==
  ASSUME FeeInv, FeeAssumption, NEW c \in Calls, ConfirmFee(c) \/ ApplyEvent(c)
  PROVE  FeeInv'
  <1> USE DEF FeeInv
  <1> DEFINE o == call[c].order
             f == call[c].key
  <1>1. call[c].stage = "write" /\ End(c) /\ gateway' = gateway
    BY DEF ConfirmFee, ApplyEvent, Now
  <1>2. o \in Orders /\ f \in FeeKeys /\ call[c].version = 0 /\ fees[o].status # NotYet
    BY <1>1, BusyIsCall DEF CallsHoldUnpaid
  <1>3. \/ /\ Pay(o, f) /\ fees[o].version = 0
           /\ \A p \in Orders \ {o} : fees[p].key # f
        \/ /\ fees' = fees /\ (ReplayOf(o, f) \/ told' = told)
    BY <1>2 DEF ConfirmFee, ApplyEvent, Taken
  <1>4. /\ fees' \in [Orders -> Fee] /\ told' \subseteq Orders \X FeeKeys
        /\ PaidOnce' /\ OneOrderPerKey' /\ ToldIsSo'
        /\ \A p \in Orders : fees[p].status # NotYet => fees'[p].status # NotYet
    <2>1. CASE /\ Pay(o, f) /\ fees[o].version = 0
               /\ \A p \in Orders \ {o} : fees[p].key # f
      BY <2>1, <1>2, PayKeeps
    <2>2. CASE fees' = fees /\ ReplayOf(o, f)
      BY <2>2, <1>2, ReplayKeeps DEF FeeTypeOK, PaidOnce, OneOrderPerKey, Moves
    <2>3. CASE fees' = fees /\ told' = told
      BY <2>3 DEF FeeTypeOK, PaidOnce, OneOrderPerKey, ToldIsSo, Confirmed, Moves
    <2> QED BY <1>3, <2>1, <2>2, <2>3
  <1>5. /\ call' \in [Calls -> Call \cup {FreeSlot}]
        /\ call'[c] = FreeSlot /\ \A d \in Calls \ {c} : call'[d] = call[d]
    BY <1>1, EndFrees
  <1>6. FeeTypeOK'
    BY <1>1, <1>4, <1>5 DEF FeeTypeOK
  <1>7. CallsHoldUnpaid'
    <2>1. \A d \in Calls : call[d].stage # "idle" => call[d].order \in Orders
      BY BusyIsCall
    <2> QED BY <1>4, <1>5, <2>1 DEF CallsHoldUnpaid, FreeSlot
  <1> QED BY <1>4, <1>6, <1>7

LEMMA FeeNextInv == FeeInv /\ [FeeNext]_feeVars => FeeInv'
  <1> SUFFICES ASSUME FeeInv, [FeeNext]_feeVars PROVE FeeInv'
    OBVIOUS
  <1>1. CASE \E o \in Orders : Open(o) \/ Accept(o)
    BY <1>1, RowSteps, FeeAssumption
  <1>2. CASE \E c \in Calls, o \in Orders, f \in FeeKeys : Receive(c, o, f)
    BY <1>2, ReceiveStep
  <1>3. CASE \E c \in Calls : CallStep(c)
    BY <1>3, ReadSteps, WriteSteps, FeeAssumption DEF CallStep
  <1>4. CASE UNCHANGED feeVars
    BY <1>4 DEF feeVars, FeeInv, FeeTypeOK, PaidOnce, OneOrderPerKey, ToldIsSo, Confirmed,
                CallsHoldUnpaid, Moves
  <1> QED BY <1>1, <1>2, <1>3, <1>4 DEF FeeNext

LEMMA FeeInvAlways == FeeSpec => []FeeInv
  BY FeeInitInv, FeeNextInv, PTL DEF FeeSpec

\* Orders, payments, calls and answers keep their types.
THEOREM FeeTypes == FeeSpec => []FeeTypeOK
  <1>1. FeeInv => FeeTypeOK
    BY DEF FeeInv
  <1> QED BY <1>1, FeeInvAlways, PTL

\* However confirmations are repeated and overlap, a fee is confirmed once, by
\* one key, and answers of success are true.
THEOREM FeeIsConfirmedOnce == FeeSpec => []FeeConfirmedOnce
  <1>1. FeeInv => FeeConfirmedOnce
    BY DEF FeeInv, FeeConfirmedOnce
  <1> QED BY <1>1, FeeInvAlways, PTL

-----------------------------------------------------------------------------
(* ProviderTask.                                                           *)

\* What a call carries: the moves that it read or was told are those it asked
\* for, and its photo is one that was issued.
CallIsSound(q) ==
  q.stage # "idle" =>
    /\ q.visit <= visit[q.page] /\ visit[q.page] > 0
    /\ q.photo.at = 0 /\ q.photo.key <= issued
    /\ q.kind \in {"put", "attach"} => q.photo.key # NoObject
    /\ q.kind = "issue" /\ q.stage = "done" /\ q.ok => q.photo.key # NoObject
    /\ q.kind \in {"accept", "check-in", "report"} => q.work = q.kind
    /\ q.kind \in {"check-in", "report"} /\ q.stage = "read" => q.seen = Wanted[q.kind]
    /\ q.kind \in {"accept", "check-in", "report"} /\ q.stage = "done" /\ q.ok
         => order > Wanted[q.kind]

\* What the task page knows of the photo its call is about.
MiniWaits(q) ==
  q.page = "mini" /\ Hears(q) =>
    /\ mini.busy
    /\ q.kind \in {"issue", "put"} => mini.pending = NoPhoto
    /\ q.kind = "attach" => q.photo = mini.pending

\* A list that still counts has seen what the web page was told.
Counts(q) == q.page = "web" /\ Hears(q) /\ q.kind = "list" /\ q.load
IsRecent(q) ==
  Counts(q) /\ (q.stage = "read" \/ (q.stage = "done" /\ q.ok)) => q.seen >= toldWeb

CallsAreSound ==
  \A c \in TaskCalls : CallIsSound(ask[c]) /\ MiniWaits(ask[c]) /\ IsRecent(ask[c])

PhotosAreSound ==
  /\ \A photo \in evidence : photo.key \in 1..issued /\ photo.at = 0
  /\ mini.pending.at = 0 /\ mini.pending.key <= issued
  /\ mini.unsure \subseteq {mini.pending.key}
  /\ Storage = "local" => issued <= Quota

MiniAsksOnce ==
  \A c, d \in TaskCalls :
    ask[c].page = "mini" /\ Hears(ask[c]) /\ ask[d].page = "mini" /\ Hears(ask[d]) => c = d

\* The web page knows what it was told, or will.
WebWillKnow ==
  /\ order >= toldWeb
  /\ visit["web"] > 0 =>
       web.failed \/ web.shown >= toldWeb \/ \E c \in TaskCalls : Counts(ask[c])

TaskInv == /\ TaskTypeOK /\ CallsAreSound /\ PhotosAreSound
           /\ MiniAsksOnce /\ WebWillKnow

-----------------------------------------------------------------------------
(* Lemmas about the operators of the model.                                *)

\* Which call it is, and what it is about.
SameCall(r, q) ==
  r.page = q.page /\ r.visit = q.visit /\ r.work = q.work /\ r.kind = q.kind

LEMMA WantedIs ==
  /\ Wanted \in [Works -> Invited..InService]
  /\ Wanted["accept"] = Invited /\ Wanted["check-in"] = Assigned
  /\ Wanted["report"] = InService /\ Wanted["upload"] = InService
BY DEF Wanted, Works, Invited, Assigned, InService

LEMMA NoCallIs == NoCall \in TaskCall /\ NoCall.stage = "idle"
<1>1. 0 \in 0..MaxObjects
  BY TaskAssumption
<1> QED
  BY <1>1 DEF NoCall, NoPhoto, TaskCall, Photo, Pages, Kinds, NoObject, Unseen, Works

CallWorks == Works \cup {"load"}

\* A call as a page sends it, with the photo it may be about.
LEMMA AskingIs ==
  ASSUME NEW p \in Pages, NEW v \in Nat, NEW work \in CallWorks,
         NEW kind \in Kinds
  PROVE  LET q == Asking(p, v, work, kind) IN
           /\ q \in TaskCall /\ q.stage = "sent" /\ q.page = p /\ q.visit = v
           /\ q.work = work /\ q.kind = kind /\ q.photo = NoPhoto
<1>1. 0 \in 0..MaxObjects
  BY TaskAssumption
<1> QED
  BY <1>1 DEF Asking, NoCall, NoPhoto, NoObject, Photo, TaskCall, Unseen, CallWorks

LEMMA AskingPhotoIs ==
  ASSUME NEW p \in Pages, NEW v \in Nat, NEW work \in CallWorks,
         NEW kind \in Kinds, NEW photo \in Photo
  PROVE  LET q == [Asking(p, v, work, kind) EXCEPT !.photo = photo] IN
           /\ q \in TaskCall /\ q.stage = "sent" /\ q.page = p /\ q.visit = v
           /\ q.work = work /\ q.kind = kind /\ q.photo = photo
<1>1. 0 \in 0..MaxObjects
  BY TaskAssumption
<1> QED
  BY <1>1 DEF Asking, NoCall, NoPhoto, NoObject, Photo, TaskCall, Unseen, CallWorks

AnyList(p, v, work) == List(p, v, work, FALSE)
LastList(p, v, work) == List(p, v, work, TRUE)

LEMMA ListIs ==
  ASSUME NEW p \in Pages, NEW v \in Nat, NEW work \in CallWorks
  PROVE  LET q == AnyList(p, v, work) IN
           /\ q \in TaskCall /\ q.stage = "sent" /\ q.page = p /\ q.visit = v
           /\ q.work = work /\ q.kind = "list" /\ q.photo = NoPhoto
<1>1. 0 \in 0..MaxObjects
  BY TaskAssumption
<1> QED
  BY <1>1 DEF AnyList, List, Asking, NoCall, NoPhoto, NoObject, Photo, Kinds, TaskCall, Unseen, CallWorks

LEMMA LastListIs ==
  ASSUME NEW p \in Pages, NEW v \in Nat, NEW work \in CallWorks
  PROVE  LET q == LastList(p, v, work) IN
           /\ q \in TaskCall /\ q.stage = "sent" /\ q.page = p /\ q.visit = v
           /\ q.work = work /\ q.kind = "list" /\ q.photo = NoPhoto /\ q.load
<1>1. 0 \in 0..MaxObjects
  BY TaskAssumption
<1> QED
  BY <1>1 DEF LastList, List, Asking, NoCall, NoPhoto, NoObject, Photo, Kinds, TaskCall, Unseen, CallWorks

\* A reply to a call, and what its handler reads.
LEMMA ReplyIs ==
  ASSUME NEW q \in TaskCall, NEW ok \in BOOLEAN
  PROVE  LET r == [q EXCEPT !.stage = "done", !.ok = ok] IN
           /\ r \in TaskCall /\ r.stage = "done" /\ r.ok = ok
           /\ SameCall(r, q) /\ r.photo = q.photo /\ r.seen = q.seen /\ r.load = q.load
BY DEF TaskCall, SameCall

LEMMA SeenIs ==
  ASSUME NEW q \in TaskCall, NEW seen \in Statuses
  PROVE  LET r == [q EXCEPT !.stage = "read", !.seen = seen] IN
           /\ r \in TaskCall /\ r.stage = "read" /\ r.seen = seen
           /\ SameCall(r, q) /\ r.photo = q.photo /\ r.load = q.load
BY DEF TaskCall, SameCall

LEMMA ListedIs ==
  ASSUME NEW q \in TaskCall, NEW ok \in BOOLEAN, NEW count \in 0..MaxObjects
  PROVE  LET r == [q EXCEPT !.stage = "done", !.count = count, !.ok = ok] IN
           /\ r \in TaskCall /\ r.stage = "done" /\ r.ok = ok
           /\ SameCall(r, q) /\ r.photo = q.photo /\ r.seen = q.seen /\ r.load = q.load
BY DEF TaskCall, SameCall

LEMMA IssuedIs ==
  ASSUME NEW q \in TaskCall, NEW key \in 0..MaxObjects
  PROVE  LET r == [q EXCEPT !.stage = "done", !.ok = TRUE, !.photo.key = key] IN
           /\ r \in TaskCall /\ r.stage = "done" /\ r.ok
           /\ SameCall(r, q) /\ r.photo.key = key /\ r.photo.at = q.photo.at
           /\ r.load = q.load
BY DEF TaskCall, SameCall, Photo

\* A slot that a call is not put into keeps its call: at most it is outdated.
LEMMA OutdatedIs ==
  ASSUME TaskTypeOK, NEW d \in TaskCalls, NEW q
  PROVE  LET r == Outdated(d, q) IN
           /\ r \in TaskCall /\ SameCall(r, ask[d])
           /\ r.stage = ask[d].stage /\ r.photo = ask[d].photo
           /\ r.seen = ask[d].seen /\ r.ok = ask[d].ok
           /\ r.load => ask[d].load
           /\ ask[d].page = "mini" => r = ask[d]
           /\ q.kind = "list" /\ q.page = "web" /\ q.stage = "sent" /\ r.page = "web" => ~r.load
           /\ ~(q.kind = "list" /\ q.page = "web" /\ q.stage = "sent") => r = ask[d]
<1>1. ask[d] \in TaskCall
  BY DEF TaskTypeOK
<1> QED
  BY <1>1 DEF Outdated, TaskCall, SameCall

LEMMA HoldType ==
  ASSUME TaskTypeOK, NEW c \in TaskCalls, NEW q \in TaskCall, Hold(c, q)
  PROVE  /\ ask' \in [TaskCalls -> TaskCall] /\ ask'[c] = q
         /\ \A d \in TaskCalls \ {c} : ask'[d] = Outdated(d, q)
BY OutdatedIs DEF Hold

\* Any free slot is one of the slots.
LEMMA FreeIs ==
  ASSUME Free # {}
  PROVE  /\ (CHOOSE c \in Free : TRUE) \in TaskCalls
         /\ ask[CHOOSE c \in Free : TRUE].stage = "idle"
BY DEF Free, Is

\* There are no more photos than keys were issued: each has a key of its own.
LEMMA PhotosAreFew ==
  ASSUME NEW n \in Nat, NEW S \in SUBSET Photo,
         \A photo \in S : photo.key \in 1..n /\ photo.at = 0
  PROVE  IsFiniteSet(S) /\ Cardinality(S) <= n
<1> DEFINE f == [photo \in S |-> photo.key]
<1>1. f \in Injection(S, 1..n)
  <2>1. \A x, y \in S : x.key = y.key => x = y
    BY DEF Photo
  <2>2. f \in [S -> 1..n]
    OBVIOUS
  <2>3. \A x, y \in S : f[x] = f[y] => x = y
    BY <2>1
  <2> QED
    BY <2>2, <2>3 DEF Injection, IsInjective
<1>2. IsFiniteSet(1..n) /\ Cardinality(1..n) = n
  BY FS_Interval
<1> QED
  BY <1>1, <1>2, FS_Injection

-----------------------------------------------------------------------------
(* The API.                                                                *)

\* What the step of a handler makes of its call.
Served(c, r) ==
  /\ r \in TaskCall /\ Hold(c, r) /\ r.stage \in {"read", "done"}
  /\ ask[c].stage # "idle"
  /\ SameCall(r, ask[c]) /\ r.load = ask[c].load
  /\ r.photo = ask[c].photo \/ r.kind = "issue"
  /\ r.kind = "list" /\ r.page = "web"
       => r.seen = order \/ (ask[c].stage = "read" /\ r.seen = ask[c].seen)

LEMMA ServedKeeps ==
  ASSUME TaskInv, TaskTypeOK', NEW c \in TaskCalls, NEW r, Served(c, r), CallIsSound(r)',
         order <= order', issued <= issued', UNCHANGED <<web, mini, visit, toldWeb>>,
         \A photo \in evidence' : photo.key \in 1..issued' /\ photo.at = 0,
         Storage = "local" => issued' <= Quota
  PROVE  TaskInv'
<1>1. /\ r \in TaskCall /\ ask' \in [TaskCalls -> TaskCall] /\ ask'[c] = r
      /\ \A d \in TaskCalls \ {c} : ask'[d] = ask[d]
      /\ \A d \in TaskCalls : ask[d] \in TaskCall
  <2>1. TaskTypeOK /\ r \in TaskCall /\ Hold(c, r) /\ r.stage # "sent"
    BY DEF TaskInv, Served
  <2>2. /\ ask' \in [TaskCalls -> TaskCall] /\ ask'[c] = r
        /\ \A d \in TaskCalls \ {c} : ask'[d] = Outdated(d, r)
    BY <2>1, HoldType
  <2>3. \A d \in TaskCalls : Outdated(d, r) = ask[d]
    BY <2>1 DEF Outdated
  <2> QED
    BY <2>1, <2>2, <2>3 DEF TaskTypeOK
<1>2. /\ issued \in Nat /\ issued' \in Nat /\ order \in Nat /\ order' \in Nat /\ toldWeb \in Nat
      /\ mini.pending.key \in Nat
  BY TaskAssumption DEF TaskInv, TaskTypeOK, Statuses, Invited, Reported, Unseen, Photo
<1>3. ASSUME NEW d \in TaskCalls
      PROVE  CallIsSound(ask[d])' /\ MiniWaits(ask[d])' /\ IsRecent(ask[d])'
  <2>0. CallIsSound(ask[d]) /\ MiniWaits(ask[d]) /\ IsRecent(ask[d])
    BY DEF TaskInv, CallsAreSound
  <2>1. CASE d # c
    <3>1. PICK q \in TaskCall : q = ask[d] /\ q = ask'[d]
      BY <1>1, <2>1
    <3>2. CallIsSound(q) /\ MiniWaits(q) /\ IsRecent(q)
      BY <2>0, <3>1
    <3>3. CallIsSound(q)'
      <4>1. q.photo.key \in Nat
        BY DEF TaskCall, Photo
      <4>2. q.work \in Works => Wanted[q.kind] \in Int \/ q.kind \notin Works
        BY WantedIs DEF Invited, InService
      <4>3. q.kind \in {"accept", "check-in", "report"} => Wanted[q.kind] \in Int
        BY WantedIs DEF Invited, InService, Assigned
      <4> QED
        BY <1>2, <3>2, <4>1, <4>3 DEF CallIsSound
    <3>4. MiniWaits(q)' /\ IsRecent(q)'
      BY <3>2 DEF MiniWaits, IsRecent, Counts, Hears
    <3> QED
      BY <3>1, <3>3, <3>4
  <2>2. CASE d = c
    <3>1. PICK q \in TaskCall : q = ask[c]
      BY <1>1
    <3>2. CallIsSound(q) /\ MiniWaits(q) /\ IsRecent(q) /\ q.stage # "idle"
      BY <2>0, <2>2, <3>1 DEF Served
    <3>3. MiniWaits(r)'
      BY <3>1, <3>2 DEF MiniWaits, Hears, Served, SameCall
    <3>4. IsRecent(r)'
      <4>1. order >= toldWeb
        BY DEF TaskInv, WebWillKnow
      <4>2. Counts(r)' => Counts(q)
        BY <3>1, <3>2 DEF Counts, Hears, Served, SameCall
      <4> QED
        BY <3>1, <3>2, <4>1, <4>2 DEF IsRecent, Counts, Served
    <3> QED
      BY <1>1, <2>2, <3>3, <3>4
  <2> QED
    BY <2>1, <2>2
<1>4. \A d \in TaskCalls : /\ Hears(ask[d])' <=> Hears(ask[d])
                           /\ ask'[d].page = ask[d].page
                           /\ Counts(ask[d])' <=> Counts(ask[d])
  <2>1. \A d \in TaskCalls : /\ (ask'[d].stage # "idle") <=> (ask[d].stage # "idle")
                             /\ SameCall(ask'[d], ask[d]) /\ ask'[d].load = ask[d].load
    BY <1>1 DEF Served, SameCall
  <2> QED
    BY <2>1 DEF Hears, Counts, SameCall
<1>5. MiniAsksOnce'
  BY <1>4 DEF TaskInv, MiniAsksOnce
<1>6. WebWillKnow'
  BY <1>2, <1>4 DEF TaskInv, WebWillKnow
<1>7. PhotosAreSound'
  BY <1>2 DEF TaskInv, PhotosAreSound
<1> QED
  BY <1>3, <1>5, <1>6, <1>7 DEF TaskInv, CallsAreSound

\* Steps that reply without a photo of their own: what is left to show.
LEMMA TaskHandlersKeepInv ==
  ASSUME TaskInv, NEW c \in TaskCalls, TaskServe(c)
  PROVE  TaskInv'
<1>p. PICK q \in TaskCall : q = ask[c]
  BY DEF TaskInv, TaskTypeOK
<1>u. UNCHANGED <<web, mini, visit, toldWeb>>
  BY DEF TaskServe, taskPages
<1>q. CallIsSound(q) /\ q.photo.key \in 0..MaxObjects /\ q.photo \in Photo /\ q.seen \in {Unseen} \cup Statuses
  BY <1>p DEF TaskInv, CallsAreSound, TaskCall, Photo
<1>n. /\ issued \in 0..MaxObjects /\ order \in Statuses /\ evidence \subseteq Photo
      /\ stored \subseteq ObjectKeys
      /\ TaskTypeOK
  BY DEF TaskInv, TaskTypeOK
<1>e. /\ \A photo \in evidence : photo.key \in 1..issued /\ photo.at = 0
      /\ Storage = "local" => issued <= Quota
  BY DEF TaskInv, PhotosAreSound
<1>m. MaxObjects \in Nat /\ Quota \in Nat
  BY TaskAssumption
<1>w. /\ Wanted["accept"] = 1 /\ Wanted["check-in"] = 2 /\ Wanted["report"] = 3
      /\ Statuses = 1..4
  BY WantedIs DEF Invited, Assigned, InService, Statuses, Reported
\* A step that leaves the photos and what is issued alone.
<1>h. ASSUME NEW r, Served(c, r), CallIsSound(r)', TaskTypeOK', order <= order',
             UNCHANGED <<evidence, issued>>
      PROVE  TaskInv'
  <2>1. issued <= issued'
    BY <1>h, <1>n, <1>m
  <2>2. /\ \A photo \in evidence' : photo.key \in 1..issued' /\ photo.at = 0
        /\ Storage = "local" => issued' <= Quota
    BY <1>h, <1>e
  <2> QED
    BY <1>h, <1>u, <2>1, <2>2, ServedKeeps
<1>1. CASE AcceptInvitation(c)
  <2>k. PICK ok \in BOOLEAN : ok = (order = Invited)
    OBVIOUS
  <2> DEFINE r == [q EXCEPT !.stage = "done", !.ok = ok]
  <2>1. /\ r \in TaskCall /\ r.stage = "done" /\ r.ok = ok
        /\ SameCall(r, q) /\ r.photo = q.photo /\ r.seen = q.seen /\ r.load = q.load
    BY ReplyIs
  <2>2. /\ Hold(c, r) /\ q.kind = "accept" /\ q.stage = "sent"
        /\ order' = IF order = Invited THEN Assigned ELSE order
        /\ UNCHANGED <<evidence, stored, issued>>
    BY <1>1, <1>p, <2>k DEF AcceptInvitation, Reply, Is
  <2> HIDE DEF r
  <2>3. Served(c, r)
    BY <2>1, <2>2, <1>p DEF Served, SameCall
  <2>4. order' \in Statuses /\ order <= order'
    BY <2>2, <1>n DEF Statuses, Invited, Assigned, Reported
  <2>k1. ok => order' > Wanted["accept"]
    <3>1. ok => order = Invited
      BY <2>k
    <3>2. order = Invited => order' = Assigned
      BY <2>2
    <3> QED
      BY <3>1, <3>2, <1>w DEF Assigned
  <2>5. CallIsSound(r)'
    BY <2>1, <2>2, <2>k1, <1>q, <1>u DEF CallIsSound, SameCall
  <2>6. TaskTypeOK'
    <3>1. ask' \in [TaskCalls -> TaskCall]
      BY <2>1, <2>2, <1>n, HoldType
    <3> QED
      BY <3>1, <2>2, <2>4, <1>n, <1>u DEF TaskTypeOK
  <2> QED
    BY <2>2, <2>3, <2>4, <2>5, <2>6, <1>h
<1>2. CASE IssueUpload(c)
  <2>1. CASE UNCHANGED issued
    <3> DEFINE r == [q EXCEPT !.stage = "done", !.ok = FALSE]
    <3>1. /\ r \in TaskCall /\ r.stage = "done" /\ r.ok = FALSE
          /\ SameCall(r, q) /\ r.photo = q.photo /\ r.seen = q.seen /\ r.load = q.load
      BY ReplyIs
    <3>2. /\ Hold(c, r) /\ q.kind = "issue" /\ q.stage = "sent"
          /\ UNCHANGED <<order, evidence, stored, issued>>
      BY <2>1, <1>2, <1>p, <1>n DEF IssueUpload, Reply, Is
    <3> HIDE DEF r
    <3>3. Served(c, r)
      BY <3>1, <3>2, <1>p DEF Served, SameCall
    <3>4. CallIsSound(r)' /\ order <= order'
      BY <3>1, <3>2, <1>q, <1>u, <1>w, <1>n DEF CallIsSound, SameCall
    <3>5. TaskTypeOK'
      <4>1. ask' \in [TaskCalls -> TaskCall]
        BY <3>1, <3>2, <1>n, HoldType
      <4> QED
        BY <4>1, <3>2, <1>n, <1>u DEF TaskTypeOK
    <3> QED
      BY <3>2, <3>3, <3>4, <3>5, <1>h
  <2>2. CASE ~UNCHANGED issued
    <3>k. PICK key \in Int : key = issued + 1
      BY <1>n
    <3> DEFINE r == [q EXCEPT !.stage = "done", !.ok = TRUE, !.photo.key = key]
    <3>1. /\ issued < MaxObjects /\ issued' = key /\ (Storage = "local" => issued < Quota)
          /\ UNCHANGED <<order, evidence, stored>>
          /\ q.kind = "issue" /\ q.stage = "sent"
      BY <2>2, <1>2, <1>p, <3>k DEF IssueUpload, Is, Reply
    <3>0. Hold(c, r)
      BY <2>2, <1>2, <1>p, <3>1, <3>k DEF IssueUpload, Is
    <3>2. key \in 0..MaxObjects
      BY <3>1, <3>k, <1>n, <1>m
    <3>3. /\ r \in TaskCall /\ r.stage = "done" /\ r.ok
          /\ SameCall(r, q) /\ r.photo.key = key /\ r.photo.at = q.photo.at
          /\ r.load = q.load
      BY <3>2, IssuedIs
    <3> HIDE DEF r
    <3>4. Served(c, r)
      BY <3>0, <3>1, <3>3, <1>p DEF Served, SameCall
    <3>5. CallIsSound(r)'
      BY <3>1, <3>3, <3>k, <1>q, <1>u, <1>n, <1>m DEF CallIsSound, SameCall, NoObject
    <3>6. ask' \in [TaskCalls -> TaskCall]
      BY <3>0, <3>3, <1>n, HoldType
    <3>7. TaskTypeOK'
      BY <3>1, <3>2, <3>6, <1>n, <1>u DEF TaskTypeOK
    <3>8. /\ order <= order' /\ issued <= issued'
          /\ \A photo \in evidence' : photo.key \in 1..issued' /\ photo.at = 0
          /\ Storage = "local" => issued' <= Quota
      BY <3>1, <3>k, <1>n, <1>e, <1>m, <1>w
    <3> QED
      BY <3>4, <3>5, <3>7, <3>8, <1>u, ServedKeeps
  <2> QED
    BY <2>1, <2>2
<1>3. CASE PutObject(c)
  <2> DEFINE r == [q EXCEPT !.stage = "done", !.ok = TRUE]
  <2>1. /\ r \in TaskCall /\ r.stage = "done" /\ r.ok
        /\ SameCall(r, q) /\ r.photo = q.photo /\ r.seen = q.seen /\ r.load = q.load
    BY ReplyIs
  <2>2. /\ Hold(c, r) /\ q.kind = "put" /\ q.stage = "sent"
        /\ stored' = stored \cup {q.photo.key}
        /\ UNCHANGED <<order, evidence, issued>>
    BY <1>3, <1>p DEF PutObject, Reply, Is
  <2> HIDE DEF r
  <2>3. Served(c, r)
    BY <2>1, <2>2, <1>p DEF Served, SameCall
  <2>4. CallIsSound(r)' /\ order <= order'
    BY <2>1, <2>2, <1>q, <1>u, <1>w, <1>n DEF CallIsSound, SameCall
  <2>5. TaskTypeOK'
    <3>1. ask' \in [TaskCalls -> TaskCall]
      BY <2>1, <2>2, <1>n, HoldType
    <3>2. q.photo.key \in ObjectKeys
      BY <2>2, <1>q, <1>m DEF CallIsSound, ObjectKeys, NoObject
    <3> QED
      BY <3>1, <3>2, <2>2, <1>n, <1>u DEF TaskTypeOK
  <2> QED
    BY <2>2, <2>3, <2>4, <2>5, <1>h
\* The steps that leave the rows alone and reply or read the order.
<1>r. ASSUME NEW r, Served(c, r), CallIsSound(r)', UNCHANGED serverVars
      PROVE  TaskInv'
  <2>1. r \in TaskCall /\ Hold(c, r)
    BY <1>r DEF Served
  <2>2. ask' \in [TaskCalls -> TaskCall]
    BY <2>1, <1>n, HoldType
  <2>3. TaskTypeOK'
    BY <2>2, <1>r, <1>n, <1>u DEF TaskTypeOK, serverVars
  <2>4. order <= order' /\ UNCHANGED <<evidence, issued>>
    BY <1>r, <1>w, <1>n DEF serverVars
  <2> QED
    BY <1>r, <2>3, <2>4, <1>h
\* A handler that refuses a call, or finds it is done.
<1>a. ASSUME NEW ok \in BOOLEAN, Reply(c, ok), UNCHANGED serverVars, q.stage # "idle",
             ok => q.kind = "attach",
             q.kind # "list" \/ q.page # "web"
      PROVE  TaskInv'
  <2> DEFINE r == [q EXCEPT !.stage = "done", !.ok = ok]
  <2>1. /\ r \in TaskCall /\ r.stage = "done" /\ r.ok = ok
        /\ SameCall(r, q) /\ r.photo = q.photo /\ r.seen = q.seen /\ r.load = q.load
    BY ReplyIs
  <2>2. Hold(c, r)
    BY <1>a, <1>p DEF Reply
  <2> HIDE DEF r
  <2>3. Served(c, r)
    BY <2>1, <2>2, <1>a, <1>p DEF Served, SameCall
  <2>4. CallIsSound(r)'
    BY <2>1, <1>a, <1>q, <1>u DEF CallIsSound, SameCall, serverVars
  <2> QED
    BY <1>a, <2>3, <2>4, <1>r
<1>s. ASSUME Seen(c), UNCHANGED serverVars, q.stage = "sent",
             q.kind = "check-in" => order = Assigned,
             q.kind = "report" => order = InService
      PROVE  TaskInv'
  <2>k. PICK seen \in Statuses : seen = order
    BY <1>n
  <2> DEFINE r == [q EXCEPT !.stage = "read", !.seen = seen]
  <2>1. /\ r \in TaskCall /\ r.stage = "read" /\ r.seen = seen
        /\ SameCall(r, q) /\ r.photo = q.photo /\ r.load = q.load
    BY SeenIs
  <2>2. Hold(c, r)
    BY <1>s, <1>p, <2>k DEF Seen
  <2> HIDE DEF r
  <2>3. Served(c, r)
    BY <2>1, <2>2, <2>k, <1>s, <1>p DEF Served, SameCall
  <2>4. CallIsSound(r)'
    BY <2>1, <2>k, <1>s, <1>q, <1>u, <1>w DEF CallIsSound, SameCall, serverVars, Assigned, InService
  <2> QED
    BY <1>s, <2>3, <2>4, <1>r
<1>4. CASE ReadOrder(c)
  <2>1. /\ q.stage = "sent" /\ q.kind \in {"list", "check-in", "report"}
        /\ UNCHANGED serverVars
        /\ \/ /\ Seen(c)
              /\ q.kind = "check-in" => order = Assigned
              /\ q.kind = "report" => order = InService
           \/ /\ Reply(c, FALSE)
              /\ q.kind # "list" \/ q.page # "web"
    BY <1>4, <1>p DEF ReadOrder, Is
  <2> QED
    BY <2>1, <1>a, <1>s
<1>f. Replayed(c) => Reply(c, TRUE) \/ Reply(c, FALSE)
  <2>1. CASE q.photo \in evidence
    <3>1. (ask[c].photo \in evidence) = TRUE
      BY <2>1, <1>p
    <3> QED
      BY <3>1 DEF Replayed
  <2>2. CASE q.photo \notin evidence
    <3>1. (ask[c].photo \in evidence) = FALSE
      BY <2>2, <1>p
    <3> QED
      BY <3>1 DEF Replayed
  <2> QED
    BY <2>1, <2>2
<1>5. CASE FindEvidence(c)
  <2>1. /\ q.stage = "sent" /\ q.kind = "attach" /\ UNCHANGED serverVars
        /\ Seen(c) \/ Reply(c, FALSE) \/ Reply(c, TRUE)
    BY <1>5, <1>p, <1>f DEF FindEvidence, Is
  <2> QED
    BY <2>1, <1>a, <1>s
<1>6. CASE CreateEvidence(c)
  <2>1. CASE UNCHANGED evidence
    <3>1. /\ q.stage = "read" /\ q.kind = "attach" /\ UNCHANGED serverVars
          /\ Reply(c, FALSE) \/ Reply(c, TRUE)
      BY <2>1, <1>6, <1>p, <1>f DEF CreateEvidence, Is, serverVars
    <3> QED
      BY <3>1, <1>a
  <2>2. CASE ~UNCHANGED evidence
    <3> DEFINE r == [q EXCEPT !.stage = "done", !.ok = TRUE]
    <3>1. /\ r \in TaskCall /\ r.stage = "done" /\ r.ok
          /\ SameCall(r, q) /\ r.photo = q.photo /\ r.seen = q.seen /\ r.load = q.load
      BY ReplyIs
    <3>2. /\ Hold(c, r) /\ q.kind = "attach" /\ q.stage = "read"
          /\ evidence' = evidence \cup {q.photo}
          /\ UNCHANGED <<order, stored, issued>>
      BY <2>2, <1>6, <1>p DEF CreateEvidence, Reply, Is
    <3> HIDE DEF r
    <3>3. Served(c, r)
      BY <3>1, <3>2, <1>p DEF Served, SameCall
    <3>4. CallIsSound(r)' /\ order <= order' /\ issued <= issued'
      BY <3>1, <3>2, <1>q, <1>u, <1>w, <1>n, <1>m DEF CallIsSound, SameCall
    <3>5. ask' \in [TaskCalls -> TaskCall]
      BY <3>1, <3>2, <1>n, HoldType
    <3>6. TaskTypeOK'
      BY <3>5, <3>2, <1>n, <1>q, <1>u DEF TaskTypeOK
    <3>7. q.photo.key \in 1..issued /\ q.photo.at = 0
      BY <3>2, <1>q, <1>n, <1>m DEF CallIsSound, NoObject
    <3>8. /\ \A photo \in evidence' : photo.key \in 1..issued' /\ photo.at = 0
          /\ Storage = "local" => issued' <= Quota
      BY <3>2, <3>7, <1>e
    <3> QED
      BY <3>3, <3>4, <3>6, <3>8, <1>u, ServedKeeps
  <2> QED
    BY <2>1, <2>2
<1>7. CASE MoveOrder(c)
  <2>k. PICK ok \in BOOLEAN : ok = (order = q.seen)
    OBVIOUS
  <2> DEFINE to == IF q.kind = "check-in" THEN InService ELSE Reported
             r == [q EXCEPT !.stage = "done", !.ok = ok]
  <2>1. /\ r \in TaskCall /\ r.stage = "done" /\ r.ok = ok
        /\ SameCall(r, q) /\ r.photo = q.photo /\ r.seen = q.seen /\ r.load = q.load
    BY ReplyIs
  <2>2. /\ Hold(c, r) /\ q.kind \in {"check-in", "report"} /\ q.stage = "read"
        /\ order' = IF order = q.seen THEN to ELSE order
        /\ UNCHANGED <<evidence, stored, issued>>
    BY <1>7, <1>p, <2>k DEF MoveOrder, Reply, Is
  <2> HIDE DEF r
  <2>3. Served(c, r)
    BY <2>1, <2>2, <1>p DEF Served, SameCall
  <2>4. q.seen = Wanted[q.kind] /\ q.work = q.kind
    BY <2>2, <1>q DEF CallIsSound
  <2>5. order' \in Statuses /\ order <= order' /\ (order = q.seen => order' > Wanted[q.kind])
    BY <2>2, <2>4, <1>n, <1>w DEF InService, Reported
  <2>6. CallIsSound(r)'
    BY <2>1, <2>2, <2>k, <2>4, <2>5, <1>q, <1>u DEF CallIsSound, SameCall
  <2>7. ask' \in [TaskCalls -> TaskCall]
    BY <2>1, <2>2, <1>n, HoldType
  <2>8. TaskTypeOK'
    BY <2>7, <2>2, <2>5, <1>n, <1>u DEF TaskTypeOK
  <2> QED
    BY <2>2, <2>3, <2>5, <2>6, <2>8, <1>h
<1>8. CASE ReadEvidence(c)
  <2>0. Cardinality(evidence) \in 0..MaxObjects
    <3>1. IsFiniteSet(evidence) /\ Cardinality(evidence) <= issued
      BY <1>n, <1>e, PhotosAreFew
    <3>2. Cardinality(evidence) \in Nat
      BY <3>1, FS_CardinalityType
    <3> QED
      BY <3>1, <3>2, <1>n, <1>m
  <2>c. PICK count \in 0..MaxObjects : count = Cardinality(evidence)
    BY <2>0
  <2>1. PICK ok \in BOOLEAN : ok = Readable(q, count)
    BY DEF Readable
  <2> DEFINE r == [q EXCEPT !.stage = "done", !.count = count, !.ok = ok]
  <2>2. /\ r \in TaskCall /\ r.stage = "done"
        /\ SameCall(r, q) /\ r.photo = q.photo /\ r.seen = q.seen /\ r.load = q.load
    BY <2>c, <2>1 DEF TaskCall, SameCall
  <2>3. Hold(c, r) /\ q.kind = "list" /\ q.stage = "read" /\ UNCHANGED serverVars
    BY <1>8, <1>p, <2>c, <2>1 DEF ReadEvidence, Is
  <2> HIDE DEF r
  <2>4. Served(c, r)
    BY <2>2, <2>3, <1>p DEF Served, SameCall
  <2>5. CallIsSound(r)'
    BY <2>2, <2>3, <1>q, <1>u DEF CallIsSound, SameCall, serverVars
  <2> QED
    BY <2>3, <2>4, <2>5, <1>r
<1> QED
  BY <1>1, <1>2, <1>3, <1>4, <1>5, <1>6, <1>7, <1>8 DEF TaskServe, Handle

-----------------------------------------------------------------------------
(* The pages.                                                              *)

HeardMini(d) == ask[d].page = "mini" /\ Hears(ask[d])

WebPage == [shown : {Unseen} \cup Statuses, attached : BOOLEAN, locks : SUBSET Works,
            loading : BOOLEAN, failed : BOOLEAN]
MiniPage == [shown : {Unseen} \cup Statuses, count : 0..MaxObjects, loaded : BOOLEAN,
             busy : BOOLEAN, pending : Photo, unsure : SUBSET ObjectKeys]

\* A call that stays in its slot is no new one to the page.
LEMMA OldCallKeeps ==
  ASSUME TaskTypeOK, TaskTypeOK', UNCHANGED <<order, issued>>,
         \A p \in Pages : visit[p] <= visit'[p],
         NEW q \in TaskCall, CallIsSound(q), MiniWaits(q), IsRecent(q),
         NEW r \in TaskCall, SameCall(r, q),
         r.stage = q.stage, r.photo = q.photo, r.seen = q.seen, r.ok = q.ok, r.load => q.load,
         UNCHANGED mini \/ ~(q.page = "mini" /\ Hears(q)) \/ visit["mini"] < visit'["mini"],
         toldWeb' <= toldWeb \/ (r.page = "web" => ~r.load)
  PROVE  /\ CallIsSound(r)' /\ MiniWaits(r)' /\ IsRecent(r)'
         /\ Hears(r)' => Hears(q)
         /\ r.page = "mini" /\ Hears(r)' => ~(visit["mini"] < visit'["mini"])
<1>1. \A p \in Pages : visit[p] \in Nat /\ visit'[p] \in Nat
  BY DEF TaskTypeOK
<1>2. q.page \in Pages /\ q.visit \in Nat /\ q.seen \in Nat
  BY DEF TaskCall, Statuses, Unseen, Invited, Reported
<1>3. CallIsSound(r)'
  BY <1>1, <1>2 DEF CallIsSound, SameCall
<1>4. Hears(r)' => Hears(q)
  BY <1>1, <1>2 DEF CallIsSound, SameCall, Hears
<1>9. ASSUME visit["mini"] < visit'["mini"], r.page = "mini"
      PROVE  ~Hears(r)'
  BY <1>9, <1>1, <1>2 DEF Hears, CallIsSound, SameCall
<1>5. MiniWaits(r)'
  <2>1. CASE UNCHANGED mini
    BY <2>1, <1>4 DEF MiniWaits, SameCall
  <2>2. CASE ~(q.page = "mini" /\ Hears(q))
    BY <2>2, <1>4 DEF MiniWaits, SameCall
  <2>3. CASE visit["mini"] < visit'["mini"]
    BY <2>3, <1>9 DEF MiniWaits
  <2> QED
    BY <2>1, <2>2, <2>3
<1>6. toldWeb \in Nat /\ toldWeb' \in Nat
  BY DEF TaskTypeOK, Statuses, Unseen, Invited, Reported
<1>7. Counts(r)' => Counts(q)
  BY <1>4 DEF Counts, SameCall
<1>8. IsRecent(r)'
  <2>1. CASE r.page = "web" => ~r.load
    BY <2>1 DEF IsRecent, Counts
  <2>2. CASE toldWeb' <= toldWeb
    BY <2>2, <1>2, <1>6, <1>7 DEF IsRecent
  <2> QED
    BY <2>1, <2>2
<1> QED
  BY <1>3, <1>4, <1>5, <1>8, <1>9

\* The task page waits for no call outside X, or was opened anew.
MiniWaitsForNone(X) ==
  visit["mini"] < visit'["mini"] \/ \A d \in TaskCalls \ X : ~HeardMini(d)

\* A page step puts the call q into slot c, and changes no slot outside X.
LEMMA AskKeeps ==
  ASSUME TaskInv, TaskTypeOK', UNCHANGED serverVars,
         \A p \in Pages : visit[p] <= visit'[p],
         NEW X \in SUBSET TaskCalls, NEW c \in X, NEW q \in TaskCall, ask'[c] = q,
         \A d \in X : CallIsSound(ask[d])' /\ MiniWaits(ask[d])' /\ IsRecent(ask[d])',
         \A d \in X \ {c} : ~Hears(ask[d])',
         \A d \in TaskCalls \ X : ask'[d] = Outdated(d, q),
         PhotosAreSound',
         UNCHANGED mini \/ MiniWaitsForNone(X),
         q.page = "mini" /\ Hears(q)' => MiniWaitsForNone(X),
         toldWeb' <= toldWeb \/ (q.kind = "list" /\ q.page = "web" /\ q.stage = "sent"),
         WebWillKnow'
  PROVE  TaskInv'
<1>t. TaskTypeOK /\ \A d \in TaskCalls : ask[d] \in TaskCall
  BY DEF TaskInv, TaskTypeOK
<1>1. ASSUME NEW d \in TaskCalls \ X
      PROVE  /\ CallIsSound(ask[d])' /\ MiniWaits(ask[d])' /\ IsRecent(ask[d])'
             /\ HeardMini(d)' => HeardMini(d) /\ ~(visit["mini"] < visit'["mini"])
  <2>1. PICK a \in TaskCall : a = ask[d]
    BY <1>t
  <2>2. CallIsSound(a) /\ MiniWaits(a) /\ IsRecent(a)
    BY <2>1 DEF TaskInv, CallsAreSound
  <2>3. PICK r : r = ask'[d]
    OBVIOUS
  <2>4. /\ r \in TaskCall /\ SameCall(r, a)
        /\ r.stage = a.stage /\ r.photo = a.photo
        /\ r.seen = a.seen /\ r.ok = a.ok /\ (r.load => a.load)
        /\ q.kind = "list" /\ q.page = "web" /\ q.stage = "sent" => (r.page = "web" => ~r.load)
    <3>1. r = Outdated(d, q)
      BY <2>3
    <3>2. TaskTypeOK /\ d \in TaskCalls
      BY <1>t, <1>1
    <3>3. LET s == Outdated(d, q) IN
            /\ s \in TaskCall /\ SameCall(s, ask[d])
            /\ s.stage = ask[d].stage /\ s.photo = ask[d].photo
            /\ s.seen = ask[d].seen /\ s.ok = ask[d].ok /\ (s.load => ask[d].load)
            /\ q.kind = "list" /\ q.page = "web" /\ q.stage = "sent" /\ s.page = "web"
                 => ~s.load
      BY <3>2, OutdatedIs, ZenonT(60)
    <3> QED
      BY <2>1, <3>1, <3>3
  <2>5. UNCHANGED mini \/ ~(a.page = "mini" /\ Hears(a)) \/ visit["mini"] < visit'["mini"]
    BY <2>1 DEF HeardMini, MiniWaitsForNone
  <2>6. toldWeb' <= toldWeb \/ (r.page = "web" => ~r.load)
    BY <2>4
  <2>7. UNCHANGED <<order, issued>>
    BY DEF serverVars
  <2>8. /\ CallIsSound(r)' /\ MiniWaits(r)' /\ IsRecent(r)'
        /\ Hears(r)' => Hears(a)
        /\ r.page = "mini" /\ Hears(r)' => ~(visit["mini"] < visit'["mini"])
    BY <1>t, <2>2, <2>4, <2>5, <2>6, <2>7, OldCallKeeps
  <2> QED
    BY <2>1, <2>3, <2>4, <2>8 DEF HeardMini, SameCall
<1>2. CallsAreSound'
  BY <1>1 DEF CallsAreSound
<1>3. MiniAsksOnce'
  <2> SUFFICES ASSUME NEW d \in TaskCalls, NEW e \in TaskCalls, HeardMini(d)', HeardMini(e)'
               PROVE  d = e
    BY DEF MiniAsksOnce, HeardMini
  <2>1. d \in X => d = c
    BY DEF HeardMini
  <2>2. e \in X => e = c
    BY DEF HeardMini
  <2>3. d \in TaskCalls \ X /\ e \in TaskCalls \ X => d = e
    BY <1>1 DEF TaskInv, MiniAsksOnce, HeardMini
  <2>4. HeardMini(c)' => \A x \in TaskCalls \ X : ~HeardMini(x)'
    BY <1>1 DEF HeardMini, MiniWaitsForNone
  <2> QED
    BY <1>1, <2>1, <2>2, <2>3, <2>4
<1> QED
  BY <1>2, <1>3 DEF TaskInv

\* A free slot takes a call.
LEMMA SendKeeps ==
  ASSUME TaskInv, UNCHANGED serverVars,
         \A p \in Pages : visit[p] <= visit'[p],
         NEW q \in TaskCall, Send(q),
         web' \in WebPage, mini' \in MiniPage, visit' \in [Pages -> Nat], UNCHANGED toldWeb,
         CallIsSound(q)', MiniWaits(q)', IsRecent(q)',
         PhotosAreSound',
         UNCHANGED mini \/ MiniWaitsForNone({}),
         q.page = "mini" => MiniWaitsForNone({}),
         \/ Counts(q)'
         \/ /\ UNCHANGED visit["web"] /\ web'.failed = web.failed /\ web'.shown = web.shown
            /\ ~(q.kind = "list" /\ q.page = "web")
  PROVE  TaskInv'
<1>1. PICK c \in TaskCalls : ask[c].stage = "idle" /\ Hold(c, q)
  BY FreeIs DEF Send
<1>2. /\ ask' \in [TaskCalls -> TaskCall] /\ ask'[c] = q
      /\ \A d \in TaskCalls \ {c} : ask'[d] = Outdated(d, q)
  BY <1>1, HoldType DEF TaskInv
<1>3. TaskTypeOK'
  BY <1>2 DEF TaskInv, TaskTypeOK, serverVars, WebPage, MiniPage
<1>4. toldWeb' <= toldWeb
  BY DEF TaskInv, TaskTypeOK, Statuses, Unseen, Invited, Reported
<1>5. WebWillKnow'
  <2>1. order' >= toldWeb'
    BY DEF TaskInv, WebWillKnow, serverVars
  <2>2. CASE Counts(q)'
    BY <2>1, <2>2, <1>2 DEF WebWillKnow
  <2>3. CASE /\ UNCHANGED visit["web"] /\ web'.failed = web.failed /\ web'.shown = web.shown
             /\ ~(q.kind = "list" /\ q.page = "web")
    <3>1. ASSUME NEW d \in TaskCalls, Counts(ask[d])
          PROVE  Counts(ask[d])'
      <4>1. d # c
        BY <1>1, <3>1 DEF Counts, Hears
      <4>2. ask'[d] = ask[d]
        BY <1>2, <2>3, <4>1 DEF Outdated
      <4> QED
        BY <2>3, <3>1, <4>2 DEF Counts, Hears
    <3> QED
      BY <2>1, <2>3, <3>1 DEF TaskInv, WebWillKnow
  <2> QED
    BY <2>2, <2>3
<1>6. /\ {c} \in SUBSET TaskCalls /\ c \in {c}
      /\ \A d \in {c} : CallIsSound(ask[d])' /\ MiniWaits(ask[d])' /\ IsRecent(ask[d])'
      /\ \A d \in {c} \ {c} : ~Hears(ask[d])'
      /\ UNCHANGED mini \/ MiniWaitsForNone({c})
      /\ q.page = "mini" /\ Hears(q)' => MiniWaitsForNone({c})
  BY <1>2 DEF MiniWaitsForNone
<1> QED
  BY <1>2, <1>3, <1>4, <1>5, <1>6, AskKeeps

\* What a page may ask for is a call that is sound.
LEMMA NewCallIsSound ==
  ASSUME TaskTypeOK, NEW q \in TaskCall, q.stage = "sent", q.visit <= visit'[q.page],
         visit'[q.page] > 0, q.photo.at = 0, q.photo.key <= issued',
         q.kind \in {"put", "attach"} => q.photo.key # NoObject,
         q.kind \in {"accept", "check-in", "report"} => q.work = q.kind
  PROVE  CallIsSound(q)' /\ IsRecent(q)'
BY DEF CallIsSound, IsRecent

LEMMA RestKeepsInv ==
  ASSUME TaskInv,
         \/ OpenWeb \/ Reload \/ \E work \in Works : Mutate(work)
         \/ OpenMini \/ Load \/ CheckIn \/ Upload \/ Submit
  PROVE  TaskInv'
<1>t. /\ TaskTypeOK /\ web \in WebPage /\ mini \in MiniPage /\ visit \in [Pages -> Nat]
      /\ visit["web"] \in Nat /\ visit["mini"] \in Nat /\ issued \in Nat
      /\ issued \in 0..MaxObjects
  BY TaskAssumption DEF TaskInv, TaskTypeOK, WebPage, MiniPage, Pages
<1>0. /\ "web" \in Pages /\ "mini" \in Pages /\ "load" \in CallWorks /\ "upload" \in CallWorks
      /\ "list" \in Kinds /\ 0 \in 0..MaxObjects /\ NoPhoto \in Photo
      /\ NoPhoto.at = 0 /\ NoPhoto.key = 0 /\ NoPhoto.key <= issued
  BY <1>t, TaskAssumption DEF Pages, Kinds, NoPhoto, Photo, NoObject, CallWorks, Works
<1>p. PhotosAreSound
  BY DEF TaskInv
\* A ready task page waits for nothing.
<1>r. Ready => \A d \in TaskCalls : ~HeardMini(d)
  BY DEF Ready, TaskInv, CallsAreSound, MiniWaits, HeardMini
<1>1. CASE OpenWeb
  <2>1. /\ visit' = [visit EXCEPT !["web"] = @ + 1] /\ web' = FreshWeb
        /\ UNCHANGED serverVars /\ UNCHANGED mini /\ UNCHANGED toldWeb
        /\ Send(List("web", visit'["web"], "load", TRUE))
    BY <1>1 DEF OpenWeb
  <2>2. PICK v \in Nat : v = visit["web"] + 1 /\ v = visit'["web"]
    BY <2>1, <1>t, <1>0
  <2>3. PICK q : q = LastList("web", v, "load")
    OBVIOUS
  <2>4. /\ q \in TaskCall /\ q.stage = "sent" /\ q.page = "web" /\ q.visit = v
        /\ q.work = "load" /\ q.kind = "list" /\ q.photo = NoPhoto /\ q.load
    BY <2>3, <1>0, LastListIs
  <2>v. \A p \in Pages : visit[p] \in Nat /\ visit'[p] \in {visit[p], visit[p] + 1}
    BY <2>1, <1>t
  <2>5. visit' \in [Pages -> Nat] /\ \A p \in Pages : visit[p] <= visit'[p]
    <3>0. visit["web"] + 1 \in Nat
      BY <1>t
    <3>1. visit' \in [Pages -> Nat]
      BY <2>1, <3>0, <1>t
    <3>2. \A p \in Pages : visit[p] <= visit'[p]
      BY <2>v
    <3> QED
      BY <3>1, <3>2
  <2>6. UNCHANGED issued
    BY <2>1 DEF serverVars
  <2>7. CallIsSound(q)' /\ IsRecent(q)'
    BY <2>2, <2>4, <2>6, <1>t, <1>0, NewCallIsSound
  <2>8. MiniWaits(q)' /\ Counts(q)'
    BY <2>2, <2>4 DEF MiniWaits, Counts, Hears
  <2>9. web' \in WebPage /\ mini' \in MiniPage
    BY <2>1, <1>t DEF WebPage, FreshWeb
  <2>10. PhotosAreSound'
    BY <2>1, <1>p DEF PhotosAreSound, serverVars
  <2>11. Send(q)
    BY <2>1, <2>2, <2>3 DEF AnyList, LastList
  <2> QED
    BY <2>1, <2>4, <2>5, <2>7, <2>8, <2>9, <2>10, <2>11, SendKeeps
<1>2. CASE Reload
  <2>1. /\ visit["web"] > 0 /\ web' = [web EXCEPT !.loading = TRUE]
        /\ UNCHANGED serverVars /\ UNCHANGED mini /\ UNCHANGED toldWeb /\ UNCHANGED visit
        /\ Send(List("web", visit["web"], "load", TRUE))
    BY <1>2 DEF Reload
  <2>2. PICK v \in Nat : v = visit["web"]
    BY <1>t
  <2>3. PICK q : q = LastList("web", v, "load")
    OBVIOUS
  <2>4. /\ q \in TaskCall /\ q.stage = "sent" /\ q.page = "web" /\ q.visit = v
        /\ q.work = "load" /\ q.kind = "list" /\ q.photo = NoPhoto /\ q.load
    BY <2>3, <1>0, LastListIs
  <2>5. visit' \in [Pages -> Nat] /\ \A p \in Pages : visit[p] <= visit'[p]
    BY <2>1, <1>t
  <2>6. UNCHANGED issued
    BY <2>1 DEF serverVars
  <2>7. CallIsSound(q)' /\ IsRecent(q)'
    BY <2>1, <2>2, <2>4, <2>6, <1>t, <1>0, NewCallIsSound
  <2>8. MiniWaits(q)' /\ Counts(q)'
    BY <2>1, <2>2, <2>4 DEF MiniWaits, Counts, Hears
  <2>9. web' \in WebPage /\ mini' \in MiniPage
    BY <2>1, <1>t DEF WebPage
  <2>10. PhotosAreSound'
    BY <2>1, <1>p DEF PhotosAreSound, serverVars
  <2>11. Send(q)
    BY <2>1, <2>2, <2>3 DEF AnyList, LastList
  <2> QED
    BY <2>1, <2>4, <2>5, <2>7, <2>8, <2>9, <2>10, <2>11, SendKeeps
<1>3. ASSUME NEW work \in Works, Mutate(work)
      PROVE  TaskInv'
  <2>1. /\ visit["web"] > 0 /\ web' = [web EXCEPT !.locks = @ \cup {work}]
        /\ UNCHANGED serverVars /\ UNCHANGED mini /\ UNCHANGED toldWeb /\ UNCHANGED visit
        /\ Send(Asking("web", visit["web"], work, KindOf(work)))
    BY <1>3 DEF Mutate, Press
  <2>2. PICK v \in Nat : v = visit["web"]
    BY <1>t
  <2>3. PICK q : q = Asking("web", v, work, KindOf(work))
    OBVIOUS
  <2>k. KindOf(work) \in Kinds /\ KindOf(work) \in {work, "issue"} /\ KindOf(work) # "list"
        /\ KindOf(work) \notin {"put", "attach"}
    BY DEF KindOf, Kinds, Works
  <2>w. work \in CallWorks
    BY DEF CallWorks
  <2>4. /\ q \in TaskCall /\ q.stage = "sent" /\ q.page = "web" /\ q.visit = v
        /\ q.work = work /\ q.kind = KindOf(work) /\ q.photo = NoPhoto
    BY <2>3, <2>k, <2>w, <1>0, AskingIs
  <2>5. visit' \in [Pages -> Nat] /\ \A p \in Pages : visit[p] <= visit'[p]
    BY <2>1, <1>t
  <2>6. UNCHANGED issued
    BY <2>1 DEF serverVars
  <2>7. CallIsSound(q)' /\ IsRecent(q)'
    BY <2>1, <2>2, <2>4, <2>6, <2>k, <1>t, <1>0, NewCallIsSound
  <2>8. MiniWaits(q)'
    BY <2>4 DEF MiniWaits
  <2>9. web' \in WebPage /\ mini' \in MiniPage /\ web'.failed = web.failed /\ web'.shown = web.shown
    BY <2>1, <1>t DEF WebPage
  <2>10. PhotosAreSound'
    BY <2>1, <1>p DEF PhotosAreSound, serverVars
  <2>11. Send(q)
    BY <2>1, <2>2, <2>3 DEF AnyList, LastList
  <2>12. UNCHANGED visit["web"] /\ ~(q.kind = "list" /\ q.page = "web") /\ q.page # "mini"
    BY <2>1, <2>4, <2>k
  <2> QED
    BY <2>1, <2>4, <2>5, <2>7, <2>8, <2>9, <2>10, <2>11, <2>12, SendKeeps
\* The buttons of the task page.
<1>m. ASSUME Ready, NEW q \in TaskCall, Send(q), mini' \in MiniPage, UNCHANGED serverVars,
             UNCHANGED <<web, visit, toldWeb>>,
             q.stage = "sent", q.page = "mini", q.visit = visit["mini"],
             mini'.pending = mini.pending, mini'.unsure = mini.unsure, mini'.busy,
             q.photo = NoPhoto \/ (q.photo = mini.pending /\ q.kind = "attach" /\ q.photo # NoPhoto),
             q.kind # "put", q.kind = "attach" => q.photo # NoPhoto,
             q.kind = "issue" => mini.pending = NoPhoto,
             q.kind \in {"accept", "check-in", "report"} => q.work = q.kind
      PROVE  TaskInv'
  <2>1. visit' \in [Pages -> Nat] /\ \A p \in Pages : visit[p] <= visit'[p]
    BY <1>m, <1>t
  <2>2. UNCHANGED issued /\ visit' = visit
    BY <1>m DEF serverVars
  <2>3. q.photo.at = 0 /\ q.photo.key <= issued /\ q.photo \in Photo
    BY <1>m, <1>0, <1>p DEF PhotosAreSound, TaskCall
  <2>4. q.kind = "attach" => q.photo.key # NoObject
    BY <1>m, <2>3, <1>0 DEF Photo, NoPhoto
  <2>5. CallIsSound(q)' /\ IsRecent(q)'
    BY <1>m, <2>2, <2>3, <2>4, <1>t, <1>0, NewCallIsSound DEF Ready
  <2>6. MiniWaits(q)'
    BY <1>m DEF MiniWaits
  <2>7. PhotosAreSound'
    BY <1>m, <1>p DEF PhotosAreSound, serverVars
  <2>8. MiniWaitsForNone({})
    BY <1>m, <1>r DEF MiniWaitsForNone
  <2>9. web' \in WebPage /\ UNCHANGED visit["web"] /\ web'.failed = web.failed
        /\ web'.shown = web.shown /\ ~(q.kind = "list" /\ q.page = "web") /\ UNCHANGED toldWeb
    BY <1>m, <1>t
  <2> QED
    BY <1>m, <2>1, <2>5, <2>6, <2>7, <2>8, <2>9, SendKeeps
<1>4. CASE OpenMini
  <2>1. /\ visit' = [visit EXCEPT !["mini"] = @ + 1] /\ mini' = Waiting(FreshMini)
        /\ UNCHANGED serverVars /\ UNCHANGED web /\ UNCHANGED toldWeb
        /\ Send(List("mini", visit'["mini"], "load", FALSE))
    BY <1>4 DEF OpenMini
  <2>2. PICK v \in Nat : v = visit["mini"] + 1 /\ v = visit'["mini"]
    BY <2>1, <1>t, <1>0
  <2>3. PICK q : q = AnyList("mini", v, "load")
    OBVIOUS
  <2>4. /\ q \in TaskCall /\ q.stage = "sent" /\ q.page = "mini" /\ q.visit = v
        /\ q.work = "load" /\ q.kind = "list" /\ q.photo = NoPhoto
    BY <2>3, <1>0, ListIs
  <2>5. /\ visit' \in [Pages -> Nat] /\ \A p \in Pages : visit[p] <= visit'[p]
        /\ UNCHANGED visit["web"]
    <3>1. \A p \in Pages : visit[p] \in Nat /\ visit'[p] \in {visit[p], visit[p] + 1}
      BY <2>1, <1>t
    <3>0. visit["mini"] + 1 \in Nat
      BY <1>t
    <3>2. visit' \in [Pages -> Nat]
      BY <2>1, <3>0, <1>t
    <3>4. \A p \in Pages : visit[p] <= visit'[p]
      BY <3>1
    <3>3. UNCHANGED visit["web"]
      BY <2>1, <1>t
    <3> QED
      BY <3>2, <3>3, <3>4
  <2>6. UNCHANGED issued
    BY <2>1 DEF serverVars
  <2>7. CallIsSound(q)' /\ IsRecent(q)'
    BY <2>2, <2>4, <2>6, <1>t, <1>0, NewCallIsSound
  <2>8. /\ mini'.busy /\ mini'.pending = NoPhoto /\ mini'.unsure = {}
        /\ mini' \in MiniPage
    BY <2>1, <1>0 DEF Waiting, FreshMini, MiniPage
  <2>9. MiniWaits(q)'
    BY <2>4, <2>8 DEF MiniWaits
  <2>10. PhotosAreSound'
    BY <2>1, <2>8, <1>0, <1>p DEF PhotosAreSound, serverVars
  <2>11. Send(q)
    BY <2>1, <2>2, <2>3 DEF AnyList, LastList
  <2>12. MiniWaitsForNone({})
    BY <2>2, <1>t DEF MiniWaitsForNone
  <2>13. /\ web' \in WebPage /\ web'.failed = web.failed
         /\ web'.shown = web.shown /\ ~(q.kind = "list" /\ q.page = "web")
    BY <2>1, <2>4, <1>t
  <2> QED
    BY <2>1, <2>4, <2>5, <2>7, <2>9, <2>8, <2>10, <2>11, <2>12, <2>13, SendKeeps
<1>5. CASE Load \/ CheckIn \/ Upload \/ Submit
  <2>v. PICK v \in Nat : v = visit["mini"]
    BY <1>t
  <2>1. CASE Load
    <3>1. /\ Ready /\ mini' = Refreshing(Waiting(mini))
          /\ Send(AnyList("mini", v, "load"))
          /\ UNCHANGED serverVars /\ UNCHANGED <<web, visit, toldWeb>>
      BY <2>1, <2>v DEF Load, AnyList
    <3>2. PICK q : q = AnyList("mini", v, "load")
      OBVIOUS
    <3>3. /\ q \in TaskCall /\ q.stage = "sent" /\ q.page = "mini" /\ q.visit = v
          /\ q.work = "load" /\ q.kind = "list" /\ q.photo = NoPhoto
      BY <3>2, <1>0, ListIs
    <3>4. /\ mini' \in MiniPage /\ mini'.pending = mini.pending /\ mini'.unsure = mini.unsure
          /\ mini'.busy
      BY <3>1, <1>t DEF Refreshing, Waiting, MiniPage
    <3> QED
      BY <3>1, <3>2, <3>3, <3>4, <2>v, <1>m
  <2>2. CASE CheckIn \/ Submit
    <3>1. PICK kind \in {"check-in", "report"} :
             /\ Ready /\ mini' = Waiting(mini)
             /\ Send(Asking("mini", v, kind, kind))
             /\ UNCHANGED serverVars /\ UNCHANGED <<web, visit, toldWeb>>
      BY <2>2, <2>v DEF CheckIn, Submit, Press
    <3>2. PICK q : q = Asking("mini", v, kind, kind)
      OBVIOUS
    <3>k. kind \in Kinds /\ kind \in CallWorks
      BY DEF Kinds, Works, CallWorks
    <3>3. /\ q \in TaskCall /\ q.stage = "sent" /\ q.page = "mini" /\ q.visit = v
          /\ q.work = kind /\ q.kind = kind /\ q.photo = NoPhoto
      BY <3>2, <3>k, <1>0, AskingIs
    <3>4. /\ mini' \in MiniPage /\ mini'.pending = mini.pending /\ mini'.unsure = mini.unsure
          /\ mini'.busy
      BY <3>1, <1>t DEF Waiting, MiniPage
    <3> QED
      BY <3>1, <3>2, <3>3, <3>4, <2>v, <1>m
  <2>3. CASE Upload
    <3>1. /\ Ready /\ mini' = Waiting(mini)
          /\ UNCHANGED serverVars /\ UNCHANGED <<web, visit, toldWeb>>
          /\ IF mini.pending = NoPhoto THEN Send(Asking("mini", v, "upload", "issue"))
             ELSE Send(RetryAttach)
      BY <2>3, <2>v DEF Upload, Press
    <3>4. /\ mini' \in MiniPage /\ mini'.pending = mini.pending /\ mini'.unsure = mini.unsure
          /\ mini'.busy
      BY <3>1, <1>t DEF Waiting, MiniPage
    <3>k. "issue" \in Kinds /\ "attach" \in Kinds
      BY DEF Kinds
    <3>5. CASE mini.pending = NoPhoto
      <4>2. PICK q : q = Asking("mini", v, "upload", "issue")
        OBVIOUS
      <4>3. /\ q \in TaskCall /\ q.stage = "sent" /\ q.page = "mini" /\ q.visit = v
            /\ q.work = "upload" /\ q.kind = "issue" /\ q.photo = NoPhoto
        BY <4>2, <3>k, <1>0, AskingIs
      <4> QED
        BY <3>1, <3>4, <3>5, <4>2, <4>3, <2>v, <1>m
    <3>6. CASE mini.pending # NoPhoto
      <4>1. PICK photo \in Photo : photo = mini.pending
        BY <1>t DEF MiniPage
      <4>2. PICK q : q = [Asking("mini", v, "upload", "attach") EXCEPT !.photo = photo]
        OBVIOUS
      <4>3. /\ q \in TaskCall /\ q.stage = "sent" /\ q.page = "mini" /\ q.visit = v
            /\ q.work = "upload" /\ q.kind = "attach" /\ q.photo = photo
        BY <4>2, <3>k, <1>0, AskingPhotoIs
      <4>4. Send(q)
        BY <3>1, <3>6, <4>1, <4>2, <2>v DEF RetryAttach
      <4> QED
        BY <3>1, <3>4, <3>6, <4>1, <4>3, <4>4, <2>v, <1>m
    <3> QED
      BY <3>5, <3>6
  <2> QED
    BY <2>1, <2>2, <2>3, <1>5
<1> QED
  BY <1>1, <1>2, <1>3, <1>4, <1>5

-----------------------------------------------------------------------------
(* A page that hears an answer, or takes its call for failed.              *)

\* What the next call needs to know of the one that is answered.
Answered(q, ok) ==
  /\ q \in TaskCall /\ ok \in BOOLEAN /\ Hears(q)
  /\ CallIsSound(q) /\ MiniWaits(q) /\ IsRecent(q)
  /\ ok => q.stage = "done" /\ q.ok

LEMMA MiniHears ==
  ASSUME TaskInv, NEW q, NEW ok, Answered(q, ok), q.page = "mini",
         mini' = MiniAfter(q, ok), UNCHANGED visit, UNCHANGED serverVars,
         NEW next, next = MiniNext(q, ok)
  PROVE  /\ next \in TaskCall /\ mini' \in MiniPage
         /\ CallIsSound(next)' /\ MiniWaits(next)' /\ IsRecent(next)'
         /\ PhotosAreSound'
         /\ next.page = "mini" \/ next.stage = "idle"
<1>t. TaskTypeOK /\ PhotosAreSound /\ mini \in MiniPage
  BY DEF TaskInv, TaskTypeOK, MiniPage
<1>q. /\ q \in TaskCall /\ ok \in BOOLEAN /\ q.visit \in Nat /\ q.work \in CallWorks /\ q.kind \in Kinds
      /\ q.photo \in Photo /\ q.seen \in {Unseen} \cup Statuses /\ q.count \in 0..MaxObjects
      /\ q.load \in BOOLEAN
      /\ q.visit = visit'["mini"] /\ q.visit > 0 /\ mini.busy
      /\ q.photo.at = 0 /\ q.photo.key <= issued /\ issued' = issued
  BY DEF Answered, Hears, CallIsSound, MiniWaits, TaskCall, CallWorks, serverVars
<1>0. /\ "mini" \in Pages /\ "put" \in Kinds /\ "attach" \in Kinds /\ "upload" \in CallWorks
      /\ NoPhoto \in Photo /\ NoPhoto.at = 0 /\ NoPhoto.key = 0 /\ 0 \in 0..MaxObjects
      /\ issued \in 0..MaxObjects /\ issued \in Nat /\ MaxObjects \in Nat
  BY <1>t, TaskAssumption
     DEF Pages, Kinds, CallWorks, Works, NoPhoto, NoObject, Photo, TaskTypeOK
<1>n. NoCall \in TaskCall /\ NoCall.stage = "idle"
  BY NoCallIs
\* The next call is the list, or none: nothing is known of a photo.
<1>l. ASSUME next = NoCall \/ (mini'.busy /\ (next = List("mini", q.visit, q.work, TRUE) \/
                                              next = List("mini", q.visit, q.work, FALSE)))
      PROVE  /\ next \in TaskCall /\ (next.page = "mini" \/ next.stage = "idle")
             /\ CallIsSound(next)' /\ MiniWaits(next)' /\ IsRecent(next)'
  <2>1. CASE next = NoCall
    BY <2>1, <1>n DEF CallIsSound, MiniWaits, IsRecent, Counts, Hears
  <2>2. CASE /\ mini'.busy
             /\ next = LastList("mini", q.visit, q.work) \/ next = AnyList("mini", q.visit, q.work)
    <3>1. /\ next \in TaskCall /\ next.stage = "sent" /\ next.page = "mini" /\ next.visit = q.visit
          /\ next.kind = "list" /\ next.photo = NoPhoto
      BY <2>2, <1>q, <1>0, ListIs, LastListIs
    <3>2. MiniWaits(next)'
      BY <2>2, <3>1 DEF MiniWaits
    <3>3. CallIsSound(next)' /\ IsRecent(next)'
      BY <3>1, <1>q, <1>0, <1>t, NewCallIsSound
    <3> QED
      BY <3>1, <3>2, <3>3
  <2> QED
    BY <1>l, <2>1, <2>2 DEF LastList, AnyList
\* What the page knows of its photo.
<1>k. ASSUME mini'.pending \in Photo, mini'.pending.at = 0, mini'.pending.key <= issued,
             mini'.unsure \subseteq {mini'.pending.key}
      PROVE  PhotosAreSound'
  BY <1>k, <1>t, <1>q DEF PhotosAreSound, serverVars
<1>p. /\ mini.pending \in Photo /\ mini.pending.at = 0 /\ mini.pending.key <= issued
      /\ mini.unsure \subseteq {mini.pending.key} /\ mini.unsure \subseteq 1..MaxObjects
  BY <1>t DEF PhotosAreSound, MiniPage, ObjectKeys
<1>1. CASE q.kind = "list"
  <2>1. /\ \/ ok /\ mini' = [mini EXCEPT !.busy = FALSE, !.loaded = TRUE, !.shown = q.seen,
                                   !.count = q.count]
           \/ ~ok /\ mini' = [mini EXCEPT !.busy = q.load]
    BY <1>1, <1>q DEF MiniAfter
  <2>2. /\ mini' \in MiniPage /\ mini'.pending = mini.pending /\ mini'.unsure = mini.unsure
        /\ ~ok => mini'.busy = q.load
    BY <2>1, <1>t, <1>q DEF MiniPage
  <2>3. next = NoCall \/ (~ok /\ q.load /\ next = List("mini", q.visit, q.work, FALSE))
    BY <1>1, <1>q DEF MiniNext
  <2>4. next = NoCall \/ (mini'.busy /\ next = List("mini", q.visit, q.work, FALSE))
    BY <2>2, <2>3
  <2> QED
    BY <2>2, <2>4, <1>l, <1>k, <1>p
<1>2. CASE q.kind = "issue" /\ ok
  <2>1. mini' = mini
    BY <1>2 DEF MiniAfter
  <2>2. next = [Asking("mini", q.visit, "upload", "put") EXCEPT !.photo = q.photo]
    BY <1>2 DEF MiniNext
  <2>3. /\ next \in TaskCall /\ next.stage = "sent" /\ next.page = "mini" /\ next.visit = q.visit
        /\ next.work = "upload" /\ next.kind = "put" /\ next.photo = q.photo
    BY <2>2, <1>q, <1>0, AskingPhotoIs
  <2>4. q.photo.key # NoObject /\ mini.pending = NoPhoto
    BY <1>2 DEF Answered, CallIsSound, MiniWaits, Hears
  <2>5. MiniWaits(next)'
    BY <2>1, <2>3, <2>4, <1>q DEF MiniWaits
  <2>6. CallIsSound(next)' /\ IsRecent(next)'
    BY <2>3, <2>4, <1>q, <1>0, <1>t, NewCallIsSound
  <2> QED
    BY <2>1, <2>3, <2>5, <2>6, <1>t, <1>p, <1>k
<1>3. CASE q.kind = "put" /\ ok
  <2>1. mini' = [mini EXCEPT !.pending = q.photo, !.unsure = @ \cup {q.photo.key}]
    BY <1>3 DEF MiniAfter
  <2>2. next = [Asking("mini", q.visit, "upload", "attach") EXCEPT !.photo = q.photo]
    BY <1>3 DEF MiniNext
  <2>3. /\ next \in TaskCall /\ next.stage = "sent" /\ next.page = "mini" /\ next.visit = q.visit
        /\ next.work = "upload" /\ next.kind = "attach" /\ next.photo = q.photo
    BY <2>2, <1>q, <1>0, AskingPhotoIs
  <2>4. q.photo.key # NoObject /\ mini.pending = NoPhoto
    BY <1>3 DEF Answered, CallIsSound, MiniWaits, Hears
  <2>5. q.photo.key \in 1..MaxObjects /\ mini.unsure = {}
    <3>1. q.photo.key \in 0..MaxObjects
      BY <1>q DEF Photo
    <3>2. mini.unsure \subseteq {0}
      BY <2>4, <1>p, <1>0
    <3> QED
      BY <2>4, <3>1, <3>2, <1>p, <1>0 DEF NoObject
  <2>6. /\ mini'.pending = q.photo /\ mini'.unsure = {q.photo.key} /\ mini'.busy
        /\ mini' \in MiniPage
    <3>1. PICK unsure \in SUBSET ObjectKeys : unsure = {q.photo.key}
      BY <2>5 DEF ObjectKeys
    <3>2. mini.unsure \cup {q.photo.key} = unsure
      BY <2>5, <3>1
    <3>3. mini' = [mini EXCEPT !.pending = q.photo, !.unsure = unsure]
      BY <2>1, <3>2
    <3> QED
      BY <3>1, <3>3, <1>q, <1>t DEF MiniPage
  <2>7. MiniWaits(next)'
    BY <2>3, <2>6 DEF MiniWaits
  <2>8. CallIsSound(next)' /\ IsRecent(next)'
    BY <2>3, <2>4, <1>q, <1>0, <1>t, NewCallIsSound
  <2> QED
    BY <2>3, <2>6, <2>7, <2>8, <1>q, <1>k
<1>4. CASE q.kind \notin {"list", "issue", "put"} /\ ok
  <2>1. \/ mini' = [Refreshing(mini) EXCEPT !.pending = NoPhoto, !.unsure = @ \ {q.photo.key}]
             /\ q.kind = "attach"
        \/ mini' = Refreshing(mini)
    BY <1>4 DEF MiniAfter, AfterError
  <2>2. next = List("mini", q.visit, q.work, TRUE)
    BY <1>4 DEF MiniNext
  <2>3. CASE mini' = Refreshing(mini)
    <3>1. /\ mini' \in MiniPage /\ mini'.pending = mini.pending /\ mini'.unsure = mini.unsure
          /\ mini'.busy
      BY <2>3, <1>t, <1>q DEF Refreshing, MiniPage
    <3> QED
      BY <2>2, <3>1, <1>l, <1>k, <1>p
  <2>4. CASE /\ q.kind = "attach"
             /\ mini' = [Refreshing(mini) EXCEPT !.pending = NoPhoto, !.unsure = @ \ {q.photo.key}]
    <3>1. q.photo = mini.pending
      BY <2>4 DEF Answered, MiniWaits
    <3>2. mini.unsure \ {q.photo.key} = {}
      BY <3>1, <1>p
    <3>3. mini' = [[mini EXCEPT !.loaded = FALSE] EXCEPT !.pending = NoPhoto, !.unsure = {}]
      <4>1. mini' = [[mini EXCEPT !.loaded = FALSE]
                       EXCEPT !.pending = NoPhoto, !.unsure = mini.unsure \ {q.photo.key}]
        BY <2>4, <1>t DEF Refreshing, MiniPage
      <4> QED
        BY <3>2, <4>1
    <3>4. /\ mini' \in MiniPage /\ mini'.pending = NoPhoto /\ mini'.unsure = {}
          /\ mini'.busy
      BY <3>3, <1>t, <1>q, <1>0 DEF MiniPage
    <3>5. PhotosAreSound'
      BY <3>4, <1>k, <1>0
    <3> QED
      BY <2>2, <3>4, <3>5, <1>l
  <2> QED
    BY <2>1, <2>3, <2>4
<1>5. CASE q.kind # "list" /\ ~ok
  <2>1. mini' = Refreshing(mini) /\ next = List("mini", q.visit, q.work, FALSE)
    BY <1>5 DEF MiniAfter, MiniNext, AfterError
  <2>2. /\ mini' \in MiniPage /\ mini'.pending = mini.pending /\ mini'.unsure = mini.unsure
        /\ mini'.busy
    BY <2>1, <1>t, <1>q DEF Refreshing, MiniPage
  <2> QED
    BY <2>1, <2>2, <1>l, <1>k, <1>p
<1> QED
  BY <1>1, <1>2, <1>3, <1>4, <1>5, <1>q

\* The list counts on; or what the page was told is as it was.
StaysKnown(q, next) ==
  /\ \/ Counts(next)' /\ next.stage = "sent"
     \/ toldWeb' = toldWeb /\ ~(next.kind = "list" /\ next.page = "web" /\ next.stage = "sent")
  /\ Counts(q) => web'.failed \/ web'.shown >= toldWeb'
  /\ ~Counts(q) => web'.failed = web.failed /\ web'.shown = web.shown
  /\ order >= toldWeb'

LEMMA WebHears ==
  ASSUME TaskInv, NEW q, NEW ok, Answered(q, ok), q.page = "web",
         web' = WebAfter(q, ok), UNCHANGED mini, UNCHANGED visit, UNCHANGED serverVars,
         toldWeb' = IF ok /\ q.kind \in {"accept", "check-in", "report"}
                    THEN Wanted[q.work] + 1 ELSE toldWeb,
         NEW next, next = WebNext(q, ok)
  PROVE  /\ next \in TaskCall /\ web' \in WebPage /\ toldWeb' \in {Unseen} \cup Statuses
         /\ CallIsSound(next)' /\ MiniWaits(next)' /\ IsRecent(next)'
         /\ next.page = "web" /\ StaysKnown(q, next)
<1>t. TaskTypeOK /\ web \in WebPage
  BY DEF TaskInv, TaskTypeOK, WebPage
<1>q. /\ q \in TaskCall /\ ok \in BOOLEAN /\ q.visit \in Nat /\ q.work \in CallWorks /\ q.kind \in Kinds
      /\ q.photo \in Photo /\ q.seen \in {Unseen} \cup Statuses
      /\ q.load \in BOOLEAN /\ q.stage # "idle"
      /\ q.visit = visit'["web"] /\ q.visit > 0
      /\ q.photo.at = 0 /\ q.photo.key <= issued /\ issued' = issued
  BY DEF Answered, Hears, CallIsSound, TaskCall, CallWorks, serverVars
<1>0. /\ "web" \in Pages /\ "put" \in Kinds /\ "attach" \in Kinds /\ "upload" \in CallWorks
      /\ NoPhoto \in Photo /\ NoPhoto.at = 0 /\ NoPhoto.key = 0 /\ 0 \in 0..MaxObjects
      /\ issued \in 0..MaxObjects /\ issued \in Nat /\ MaxObjects \in Nat
      /\ Statuses = 1..4 /\ Unseen = 0 /\ Wanted["accept"] = 1 /\ Wanted["check-in"] = 2
      /\ Wanted["report"] = 3
  BY <1>t, TaskAssumption, WantedIs
     DEF Pages, Kinds, CallWorks, Works, NoPhoto, NoObject, Photo, TaskTypeOK,
         Statuses, Unseen, Invited, Assigned, InService, Reported
<1>n. NoCall \in TaskCall /\ NoCall.stage = "idle" /\ NoCall.page = "web"
  BY NoCallIs DEF NoCall
<1>c. /\ order \in 1..4 /\ toldWeb \in 0..4 /\ order >= toldWeb
      /\ Counts(q) <=> q.kind = "list" /\ q.load
  BY <1>t, <1>q, <1>0 DEF TaskInv, TaskTypeOK, WebWillKnow, Counts, Answered
<1>d. toldWeb \in {Unseen} \cup Statuses
  BY <1>t DEF TaskTypeOK
<1>g. ASSUME toldWeb' = toldWeb,
             ~(next.kind = "list" /\ next.page = "web" /\ next.stage = "sent"),
             q.kind # "list", web'.failed = web.failed, web'.shown = web.shown
      PROVE  StaysKnown(q, next) /\ toldWeb' \in {Unseen} \cup Statuses
  <2>1. ~Counts(q)
    BY <1>g DEF Counts
  <2>2. order >= toldWeb'
    BY <1>g, <1>c
  <2> QED
    BY <1>g, <2>1, <2>2, <1>d DEF StaysKnown
\* No next call.
<1>l. ASSUME next = NoCall
      PROVE  /\ next \in TaskCall /\ next.page = "web" /\ next.stage # "sent"
             /\ CallIsSound(next)' /\ MiniWaits(next)' /\ IsRecent(next)'
  BY <1>l, <1>n DEF CallIsSound, MiniWaits, IsRecent, Counts, Hears
\* A next call that sends the photo, or keeps it.
<1>f. ASSUME NEW kind \in {"put", "attach"}, q.photo.key # NoObject,
             next = [Asking("web", q.visit, "upload", kind) EXCEPT !.photo = q.photo]
      PROVE  /\ next \in TaskCall /\ next.page = "web" /\ next.kind # "list"
             /\ CallIsSound(next)' /\ MiniWaits(next)' /\ IsRecent(next)'
  <2>1. kind \in Kinds
    BY <1>0
  <2>2. /\ next \in TaskCall /\ next.stage = "sent" /\ next.page = "web" /\ next.visit = q.visit
        /\ next.work = "upload" /\ next.kind = kind /\ next.photo = q.photo
    BY <2>1, <1>f, <1>q, <1>0, AskingPhotoIs
  <2>3. CallIsSound(next)' /\ IsRecent(next)'
    <3>1. next.kind \notin {"accept", "check-in", "report"} /\ next.photo.key # NoObject
      BY <2>2, <1>f
    <3> QED
      BY <2>2, <3>1, <1>q, <1>t, NewCallIsSound
  <2> QED
    BY <2>2, <2>3 DEF MiniWaits
<1>1. CASE q.kind = "list"
  <2>1. next = NoCall /\ web' = WebLists(q, ok) /\ toldWeb' = toldWeb
    BY <1>1 DEF WebNext, WebAfter
  <2>2. CASE ~q.load
    <3>1. web' = [web EXCEPT !.locks = @ \ {q.work}]
      BY <2>1, <2>2 DEF WebLists
    <3>2. web' \in WebPage /\ web'.failed = web.failed /\ web'.shown = web.shown
      <4>1. web \in WebPage
        BY <1>t
      <4>2. PICK L \in SUBSET Works : L = web.locks \ {q.work}
        BY <4>1 DEF WebPage
      <4>3. web' = [web EXCEPT !.locks = L]
        BY <3>1, <4>2
      <4> HIDE <1>t, <3>1
      <4> QED
        BY <4>1, <4>3 DEF WebPage
    <3> QED
      BY <2>1, <2>2, <3>2, <1>l, <1>c, <1>0 DEF StaysKnown
  <2>3. CASE q.load /\ ok
    <3>1. PICK attached \in BOOLEAN : attached = (q.seen = InService /\ q.count > 0)
      OBVIOUS
    <3>2. web' = [[web EXCEPT !.locks = @ \ {q.work}]
                    EXCEPT !.loading = FALSE, !.failed = FALSE, !.shown = q.seen,
                           !.attached = attached]
      BY <2>1, <2>3, <3>1 DEF WebLists
    <3>3. web' \in WebPage /\ web'.shown = q.seen
      <4>1. web \in WebPage /\ q.seen \in {Unseen} \cup Statuses
        BY <1>t, <1>q DEF WebPage
      <4>2. PICK L \in SUBSET Works : L = web.locks \ {q.work}
        BY <4>1 DEF WebPage
      <4>3. PICK shown \in {Unseen} \cup Statuses : shown = q.seen
        BY <4>1
      <4>4. web' = [web EXCEPT !.locks = L, !.loading = FALSE, !.failed = FALSE,
                               !.shown = shown, !.attached = attached]
        BY <3>2, <4>2, <4>3
      <4> QED
        BY <4>1, <4>3, <4>4 DEF WebPage
    <3>4. q.seen >= toldWeb
      BY <1>1, <2>3, <1>c DEF Answered, IsRecent
    <3>5. StaysKnown(q, next) /\ toldWeb' \in {Unseen} \cup Statuses
      <4>1. web'.shown >= toldWeb' /\ order >= toldWeb' /\ Counts(q)
        BY <1>1, <2>1, <2>3, <3>3, <3>4, <1>c
      <4>2. toldWeb' = toldWeb /\ next.stage # "sent"
        BY <2>1, <1>l
      <4> QED
        BY <4>1, <4>2, <1>d DEF StaysKnown
    <3> QED
      BY <2>1, <3>3, <3>5, <1>l
  <2>4. CASE q.load /\ ~ok
    <3>1. web' = [[web EXCEPT !.locks = @ \ {q.work}] EXCEPT !.loading = FALSE, !.failed = TRUE]
      BY <2>1, <2>4 DEF WebLists
    <3>2. web' \in WebPage /\ web'.failed
      BY <3>1, <1>t DEF WebPage
    <3> QED
      BY <1>1, <2>1, <2>4, <3>2, <1>l, <1>c, <1>0 DEF StaysKnown
  <2> QED
    BY <2>2, <2>3, <2>4, <1>q
<1>2. CASE q.kind \in {"issue", "put"} /\ ok
  <2>1. web' = web /\ toldWeb' = toldWeb
    BY <1>2 DEF WebAfter
  <2>2. q.photo.key # NoObject
    BY <1>2 DEF Answered, CallIsSound
  <2>3. PICK kind \in {"put", "attach"} :
           next = [Asking("web", q.visit, "upload", kind) EXCEPT !.photo = q.photo]
    BY <1>2 DEF WebNext
  <2>4. /\ next \in TaskCall /\ next.page = "web" /\ next.kind # "list"
        /\ CallIsSound(next)' /\ MiniWaits(next)' /\ IsRecent(next)'
    BY <2>2, <2>3, <1>f
  <2>5. StaysKnown(q, next) /\ toldWeb' \in {Unseen} \cup Statuses
    BY <1>2, <2>1, <2>4, <1>g
  <2> QED
    BY <2>1, <2>4, <2>5, <1>t
<1>3. CASE q.kind = "attach" /\ ok
  <2>1. /\ web' = [web EXCEPT !.attached = TRUE, !.locks = @ \ {"upload"}] /\ toldWeb' = toldWeb
        /\ next = NoCall
    BY <1>3 DEF WebAfter, WebNext
  <2>2. web' \in WebPage /\ web'.failed = web.failed /\ web'.shown = web.shown
    BY <2>1, <1>t DEF WebPage
  <2>3. StaysKnown(q, next) /\ toldWeb' \in {Unseen} \cup Statuses
    BY <1>3, <2>1, <2>2, <1>l, <1>g
  <2> QED
    BY <2>1, <2>2, <2>3, <1>l
<1>4. CASE q.kind # "list" /\ ~(ok /\ q.kind \in {"issue", "put", "attach"})
  <2>1. web' = web /\ next = List("web", q.visit, q.work, TRUE)
    BY <1>4 DEF WebAfter, WebNext
  <2>2. next = LastList("web", q.visit, q.work)
    BY <2>1 DEF LastList
  <2>3. /\ next \in TaskCall /\ next.stage = "sent" /\ next.page = "web" /\ next.visit = q.visit
        /\ next.kind = "list" /\ next.photo = NoPhoto /\ next.load
    BY <2>2, <1>q, <1>0, LastListIs
  <2>4. CallIsSound(next)' /\ IsRecent(next)'
    BY <2>3, <1>q, <1>0, <1>t, NewCallIsSound
  <2>5. MiniWaits(next)' /\ Counts(next)'
    BY <2>3, <1>q DEF MiniWaits, Counts, Hears
  <2>6. toldWeb' \in 0..4 /\ order >= toldWeb'
    <3>1. CASE ok /\ q.kind \in {"accept", "check-in", "report"}
      <4>1. q.work = q.kind /\ order > Wanted[q.kind]
        BY <3>1 DEF Answered, CallIsSound
      <4> QED
        BY <3>1, <4>1, <1>c, <1>0
    <3>2. CASE ~(ok /\ q.kind \in {"accept", "check-in", "report"})
      BY <3>2, <1>c
    <3> QED
      BY <3>1, <3>2
  <2>7. StaysKnown(q, next) /\ toldWeb' \in {Unseen} \cup Statuses
    <3>1. ~Counts(q)
      BY <1>4 DEF Counts
    <3>2. toldWeb' \in {Unseen} \cup Statuses
      BY <2>6, <1>0
    <3> QED
      BY <2>1, <2>3, <2>5, <2>6, <3>1, <3>2 DEF StaysKnown
  <2> QED
    BY <2>1, <2>3, <2>4, <2>5, <2>7, <1>t
<1> QED
  BY <1>1, <1>2, <1>3, <1>4

\* The slots after a page has heard of the call in slot c: slot e has the next
\* one, and a call that goes on unheard is none of the page's any more.
LEMMA HearingKeeps ==
  ASSUME TaskInv, NEW X \in SUBSET TaskCalls, NEW c \in X, NEW e \in X,
         NEW q, q = ask[c], NEW ok, Answered(q, ok), TakeReply(q, ok), UNCHANGED serverVars,
         NEW next, next = After(q, ok),
         next \in TaskCall => ask' \in [TaskCalls -> TaskCall],
         ask'[e] = next, \A d \in TaskCalls \ X : ask'[d] = Outdated(d, next),
         \A d \in X \ {e} : /\ ~Hears(ask[d])'
                            /\ CallIsSound(ask[d])' /\ MiniWaits(ask[d])' /\ IsRecent(ask[d])',
         \A d \in X \ {c} : ask[d].stage = "idle"
  PROVE  TaskInv'
<1>t. /\ TaskTypeOK /\ PhotosAreSound /\ mini \in MiniPage /\ web \in WebPage
      /\ toldWeb \in {Unseen} \cup Statuses /\ order >= toldWeb
      /\ q \in TaskCall /\ q.page \in Pages /\ Hears(q)
      /\ visit' = visit /\ visit \in [Pages -> Nat]
  BY DEF TaskInv, TaskTypeOK, MiniPage, WebPage, WebWillKnow, Answered, TaskCall, TakeReply
<1>1. /\ next \in TaskCall /\ web' \in WebPage /\ mini' \in MiniPage
      /\ toldWeb' \in {Unseen} \cup Statuses
      /\ CallIsSound(next)' /\ MiniWaits(next)' /\ IsRecent(next)'
      /\ PhotosAreSound' /\ StaysKnown(q, next)
      /\ UNCHANGED mini \/ q.page = "mini"
      /\ next.page = "mini" => next.stage = "idle" \/ q.page = "mini"
  <2>1. CASE q.page = "mini"
    <3>1. /\ mini' = MiniAfter(q, ok) /\ web' = web /\ toldWeb' = toldWeb
          /\ next = MiniNext(q, ok)
      BY <2>1 DEF TakeReply, After
    <3>2. /\ next \in TaskCall /\ mini' \in MiniPage
          /\ CallIsSound(next)' /\ MiniWaits(next)' /\ IsRecent(next)'
          /\ PhotosAreSound'
          /\ next.page = "mini" \/ next.stage = "idle"
      BY <2>1, <3>1, <1>t, MiniHears
    <3>3. StaysKnown(q, next)
      <4>1. ~Counts(q)
        BY <2>1 DEF Counts
      <4>2. ~(next.kind = "list" /\ next.page = "web" /\ next.stage = "sent")
        BY <3>2
      <4> QED
        BY <3>1, <4>1, <4>2, <1>t DEF StaysKnown
    <3> QED
      BY <2>1, <3>1, <3>2, <3>3, <1>t
  <2>2. CASE q.page = "web"
    <3>1. /\ web' = WebAfter(q, ok) /\ UNCHANGED mini /\ UNCHANGED visit
          /\ toldWeb' = IF ok /\ q.kind \in {"accept", "check-in", "report"}
                        THEN Wanted[q.work] + 1 ELSE toldWeb
          /\ next = WebNext(q, ok)
      BY <2>2, <1>t DEF TakeReply, After
    <3>2. /\ next \in TaskCall /\ web' \in WebPage /\ toldWeb' \in {Unseen} \cup Statuses
          /\ CallIsSound(next)' /\ MiniWaits(next)' /\ IsRecent(next)'
          /\ next.page = "web" /\ StaysKnown(q, next)
      BY <2>2, <3>1, WebHears
    <3>3. PhotosAreSound'
      BY <3>1, <1>t DEF PhotosAreSound, serverVars
    <3> QED
      BY <3>1, <3>2, <3>3, <1>t
  <2> QED
    BY <2>1, <2>2, <1>t DEF Pages
<1>2. TaskTypeOK'
  BY <1>1, <1>t DEF TaskTypeOK, serverVars, WebPage, MiniPage
<1>3. q.page = "mini" => MiniWaitsForNone(X)
  <2> SUFFICES ASSUME q.page = "mini", NEW d \in TaskCalls \ X PROVE ~HeardMini(d)
    BY DEF MiniWaitsForNone
  <2>1. HeardMini(c) /\ d # c /\ c \in TaskCalls
    BY <1>t DEF HeardMini
  <2> QED
    BY <2>1 DEF TaskInv, MiniAsksOnce, HeardMini
<1>4. \A d \in X : CallIsSound(ask[d])' /\ MiniWaits(ask[d])' /\ IsRecent(ask[d])'
  BY <1>1
<1>5. WebWillKnow'
  <2>1. order' >= toldWeb'
    BY <1>1 DEF StaysKnown, serverVars
  <2>2. CASE Counts(next)'
    BY <2>1, <2>2 DEF WebWillKnow
  <2>3. CASE /\ toldWeb' = toldWeb
             /\ ~(next.kind = "list" /\ next.page = "web" /\ next.stage = "sent")
    <3>1. CASE Counts(q)
      BY <2>1, <3>1, <1>1 DEF WebWillKnow, StaysKnown
    <3>2. CASE ~Counts(q)
      <4>1. ASSUME NEW d \in TaskCalls, Counts(ask[d])
            PROVE  Counts(ask[d])'
        <5>1. d # c
          BY <3>2, <4>1
        <5>2. d \notin X
          BY <4>1, <5>1 DEF Counts, Hears
        <5>3. ask'[d] = ask[d]
          BY <2>3, <5>2 DEF Outdated
        <5> QED
          BY <4>1, <5>3, <1>t DEF Counts, Hears
      <4>2. web'.failed = web.failed /\ web'.shown = web.shown
        BY <3>2, <1>1 DEF StaysKnown
      <4> QED
        BY <2>1, <2>3, <4>1, <4>2, <1>t DEF TaskInv, WebWillKnow
    <3> QED
      BY <3>1, <3>2
  <2> QED
    BY <2>2, <2>3, <1>1 DEF StaysKnown
<1>6. toldWeb' <= toldWeb \/ (next.kind = "list" /\ next.page = "web" /\ next.stage = "sent")
  <2>1. CASE toldWeb' = toldWeb
    BY <2>1, <1>t DEF Statuses, Unseen, Invited, Reported
  <2>2. CASE Counts(next)' /\ next.stage = "sent"
    BY <2>2 DEF Counts
  <2> QED
    BY <2>1, <2>2, <1>1 DEF StaysKnown
<1>7. /\ UNCHANGED mini \/ MiniWaitsForNone(X)
      /\ next.page = "mini" /\ Hears(next)' => MiniWaitsForNone(X)
      /\ \A p \in Pages : visit[p] <= visit'[p]
      /\ \A d \in X \ {e} : ~Hears(ask[d])'
  BY <1>1, <1>3, <1>t DEF Hears
<1> QED
  BY <1>1, <1>2, <1>4, <1>5, <1>6, <1>7, AskKeeps

LEMMA AnsweredIs ==
  ASSUME TaskInv, NEW c \in TaskCalls, Hears(ask[c]),
         NEW ok \in BOOLEAN, ok => ask[c].stage = "done" /\ ask[c].ok
  PROVE  Answered(ask[c], ok)
BY DEF Answered, TaskInv, TaskTypeOK, CallsAreSound

LEMMA OneSlotKeeps ==
  ASSUME TaskInv, NEW c \in TaskCalls, NEW ok, Answered(ask[c], ok), TakeReply(ask[c], ok),
         UNCHANGED serverVars, Hold(c, After(ask[c], ok))
  PROVE  TaskInv'
<1>1. PICK q : q = ask[c]
  OBVIOUS
<1>2. PICK next : next = After(q, ok)
  OBVIOUS
<1>3. Hold(c, next) /\ TaskTypeOK
  BY <1>1, <1>2 DEF TaskInv
<1>4. ask'[c] = next /\ \A d \in TaskCalls \ {c} : ask'[d] = Outdated(d, next)
  BY <1>3 DEF Hold
<1>5. next \in TaskCall => ask' \in [TaskCalls -> TaskCall]
  BY <1>3, HoldType
<1>x. PICK X \in SUBSET TaskCalls : X = {c}
  OBVIOUS
<1>6. /\ c \in X /\ \A d \in X \ {c} : ask[d].stage = "idle"
      /\ \A d \in X \ {c} : /\ ~Hears(ask[d])'
                           /\ CallIsSound(ask[d])' /\ MiniWaits(ask[d])' /\ IsRecent(ask[d])'
      /\ \A d \in TaskCalls \ X : ask'[d] = Outdated(d, next)
  BY <1>4, <1>x
<1>7. Answered(q, ok) /\ TakeReply(q, ok)
  BY <1>1
<1> QED
  BY <1>1, <1>2, <1>4, <1>5, <1>6, <1>7, HearingKeeps

\* The page goes on while its call does too, unheard.
LEMMA TwoSlotsKeep ==
  ASSUME TaskInv, NEW c \in TaskCalls, NEW ok, Answered(ask[c], ok), TakeReply(ask[c], ok),
         UNCHANGED serverVars, NEW free \in TaskCalls, ask[free].stage = "idle",
         NEW next, next = After(ask[c], ok),
         next \in TaskCall => ask' \in [TaskCalls -> TaskCall],
         NEW r, r = [ask[c] EXCEPT !.visit = 0], ask'[free] = next, ask'[c] = r,
         \A d \in TaskCalls \ {c, free} : ask'[d] = Outdated(d, next)
  PROVE  TaskInv'
<1>1. PICK q : q = ask[c]
  OBVIOUS
<1>2. Answered(q, ok)
  BY <1>1
<1>3. q \in TaskCall /\ CallIsSound(q) /\ q.stage # "idle" /\ free # c /\ TaskTypeOK
  BY <1>1, <1>2 DEF Answered, Hears, TaskInv
<1>4. r = [q EXCEPT !.visit = 0]
  BY <1>1
<1>5. /\ r \in TaskCall /\ r.stage = q.stage /\ r.page = q.page /\ r.visit = 0
      /\ r.work = q.work /\ r.kind = q.kind /\ r.photo = q.photo /\ r.seen = q.seen
      /\ r.ok = q.ok
  BY <1>3, <1>4 DEF TaskCall
<1>6. /\ ask'[free] = next /\ ask'[c] = r
      /\ \A d \in TaskCalls \ {c, free} : ask'[d] = Outdated(d, next)
  BY <1>1, <1>3, <1>4
<1>8. /\ visit' = visit /\ order' = order /\ issued' = issued
      /\ visit[q.page] > 0 /\ visit[q.page] \in Nat
  BY <1>3 DEF TakeReply, serverVars, CallIsSound, TaskTypeOK, TaskCall
<1>9. ~Hears(r)' /\ CallIsSound(r)'
  BY <1>3, <1>5, <1>8 DEF Hears, CallIsSound
<1>10. MiniWaits(r)' /\ IsRecent(r)'
  BY <1>9 DEF MiniWaits, IsRecent, Counts
<1>x. PICK X \in SUBSET TaskCalls : X = {c, free}
  OBVIOUS
<1>11. /\ c \in X /\ free \in X
       /\ \A d \in X \ {c} : ask[d].stage = "idle"
       /\ \A d \in X \ {free} :
             /\ ~Hears(ask[d])'
             /\ CallIsSound(ask[d])' /\ MiniWaits(ask[d])' /\ IsRecent(ask[d])'
       /\ \A d \in TaskCalls \ X : ask'[d] = Outdated(d, next)
  BY <1>6, <1>9, <1>10, <1>x
<1>12. Answered(q, ok) /\ TakeReply(q, ok) /\ next = After(q, ok)
  BY <1>1, <1>2
<1> QED
  BY <1>1, <1>6, <1>11, <1>12, HearingKeeps

\* A call that no page hears leaves its slot.
LEMMA UnheardKeeps ==
  ASSUME TaskInv, NEW c \in TaskCalls, ~Hears(ask[c]), Hold(c, NoCall),
         UNCHANGED serverVars, UNCHANGED taskPages
  PROVE  TaskInv'
<1>t. /\ TaskTypeOK /\ visit \in [Pages -> Nat] /\ toldWeb \in Nat
      /\ NoCall \in TaskCall /\ NoCall.stage = "idle"
      /\ visit' = visit /\ mini' = mini /\ web' = web /\ toldWeb' = toldWeb
  BY NoCallIs
     DEF TaskInv, TaskTypeOK, Statuses, Unseen, Invited, Reported, taskPages
<1>1. PICK q \in TaskCall : q = NoCall
  BY <1>t
<1>2. /\ ask' \in [TaskCalls -> TaskCall] /\ ask'[c] = q
      /\ \A d \in TaskCalls \ {c} : ask'[d] = Outdated(d, q)
  BY <1>1, <1>t, HoldType
<1>3. TaskTypeOK'
  BY <1>2, <1>t DEF TaskTypeOK, serverVars
<1>4. CallIsSound(q)' /\ MiniWaits(q)' /\ IsRecent(q)' /\ ~Hears(q)'
  BY <1>1, <1>t DEF CallIsSound, MiniWaits, IsRecent, Counts, Hears
<1>5. PhotosAreSound'
  BY <1>t DEF TaskInv, PhotosAreSound, serverVars
<1>6. WebWillKnow'
  <2>1. ASSUME NEW d \in TaskCalls, Counts(ask[d])
        PROVE  Counts(ask[d])'
    <3>1. d # c
      BY <2>1 DEF Counts
    <3>2. ask'[d] = ask[d]
      BY <3>1, <1>1, <1>2, <1>t DEF Outdated
    <3> QED
      BY <2>1, <3>2, <1>t DEF Counts, Hears
  <2> QED
    BY <2>1, <1>t DEF TaskInv, WebWillKnow, serverVars
<1>7. /\ {c} \in SUBSET TaskCalls /\ c \in {c}
      /\ \A d \in {c} : CallIsSound(ask[d])' /\ MiniWaits(ask[d])' /\ IsRecent(ask[d])'
      /\ \A d \in {c} \ {c} : ~Hears(ask[d])'
      /\ UNCHANGED mini \/ MiniWaitsForNone({c})
      /\ q.page = "mini" /\ Hears(q)' => MiniWaitsForNone({c})
      /\ toldWeb' <= toldWeb
      /\ \A p \in Pages : visit[p] <= visit'[p]
  BY <1>2, <1>4, <1>t
<1> QED
  BY <1>2, <1>3, <1>5, <1>6, <1>7, AskKeeps

LEMMA AnswersKeepInv ==
  ASSUME TaskInv, NEW c \in TaskCalls,
         HearReply(c) \/ IgnoreReply(c) \/ LoseReply(c) \/ FailCall(c)
  PROVE  TaskInv'
<1>1. CASE HearReply(c)
  <2>1. PICK ok \in BOOLEAN : ok = ask[c].ok
    BY DEF TaskInv, TaskTypeOK, TaskCall
  <2>2. Hears(ask[c]) /\ (ok => ask[c].stage = "done" /\ ask[c].ok)
    BY <1>1, <2>1 DEF HearReply, Is
  <2>3. Answered(ask[c], ok)
    BY <2>2, AnsweredIs
  <2>4. TakeReply(ask[c], ok) /\ Hold(c, After(ask[c], ok)) /\ UNCHANGED serverVars
    BY <1>1, <2>1 DEF HearReply
  <2> QED
    BY <2>3, <2>4, OneSlotKeeps
<1>2. CASE LoseReply(c)
  <2>1. Hears(ask[c]) /\ TakeReply(ask[c], FALSE) /\ UNCHANGED serverVars
    BY <1>2 DEF LoseReply
  <2>2. CASE Hold(c, After(ask[c], FALSE))
    <3>1. Answered(ask[c], FALSE)
      BY <2>1, AnsweredIs
    <3> QED
      BY <2>1, <2>2, <3>1, OneSlotKeeps
  <2>3. CASE ~Hold(c, After(ask[c], FALSE))
    <3>1. PICK next : next = After(ask[c], FALSE)
      OBVIOUS
    <3>2. Free # {}
      BY <1>2, <2>3 DEF LoseReply
    <3>3. PICK free \in TaskCalls : free = (CHOOSE d \in Free : TRUE) /\ ask[free].stage = "idle"
      BY <3>2, FreeIs
    <3>4. ask' = [d \in TaskCalls |-> IF d = free THEN next ELSE
                    IF d = c THEN [ask[c] EXCEPT !.visit = 0] ELSE Outdated(d, next)]
      BY <1>2, <2>3, <3>1, <3>3 DEF LoseReply
    <3>5. TaskTypeOK /\ free # c /\ [ask[c] EXCEPT !.visit = 0] \in TaskCall
      <4>1. TaskTypeOK /\ ask[c] \in TaskCall /\ ask[c].stage # "idle"
        BY <2>1 DEF TaskInv, TaskTypeOK, Hears
      <4>2. \A q \in TaskCall : [q EXCEPT !.visit = 0] \in TaskCall
        BY DEF TaskCall
      <4> QED
        BY <4>1, <4>2, <3>3
    <3>6. PICK ok \in BOOLEAN : ok = FALSE
      OBVIOUS
    <3>7. Answered(ask[c], ok) /\ TakeReply(ask[c], ok) /\ next = After(ask[c], ok)
      BY <2>1, <3>1, <3>6, AnsweredIs
    <3>8. ask[free].stage = "idle"
      BY <3>3
    <3>9. UNCHANGED serverVars
      BY <2>1
    <3>10. PICK r : r = [ask[c] EXCEPT !.visit = 0]
      OBVIOUS
    <3>11. /\ ask'[free] = next /\ ask'[c] = r
          /\ \A d \in TaskCalls \ {c, free} : ask'[d] = Outdated(d, next)
      BY <3>4, <3>5, <3>10
    <3>12. next \in TaskCall => ask' \in [TaskCalls -> TaskCall]
      BY <3>4, <3>5, OutdatedIs
    <3> QED
      BY <3>8, <3>11, <3>12, <3>7, <3>9, <3>10, TwoSlotsKeep
  <2> QED
    BY <2>2, <2>3
<1>3. CASE IgnoreReply(c) \/ FailCall(c)
  <2>1. ~Hears(ask[c]) /\ Hold(c, NoCall) /\ UNCHANGED serverVars /\ UNCHANGED taskPages
    BY <1>3 DEF IgnoreReply, FailCall
  <2> QED
    BY <2>1, UnheardKeeps
<1> QED
  BY <1>1, <1>2, <1>3

-----------------------------------------------------------------------------
(* The invariant, and what follows from it.                                *)

LEMMA TaskInitInv == TaskInit => TaskInv
<1> SUFFICES ASSUME TaskInit PROVE TaskInv
  OBVIOUS
<1>0. /\ 0 \in 0..MaxObjects /\ Quota \in Nat /\ MaxObjects \in Nat
      /\ NoPhoto \in Photo /\ NoPhoto.at = 0 /\ NoPhoto.key = 0
  BY TaskAssumption DEF NoPhoto, Photo, NoObject
<1>1. \A c \in TaskCalls : ask[c] = NoCall /\ ask[c].stage = "idle"
  BY NoCallIs DEF TaskInit
<1>2. \A c \in TaskCalls : ~Hears(ask[c])
  BY <1>1 DEF Hears
<1>3. CallsAreSound
  BY <1>1, <1>2 DEF CallsAreSound, CallIsSound, MiniWaits, IsRecent, Counts
<1>4. MiniAsksOnce
  BY <1>2 DEF MiniAsksOnce
<1>5. PhotosAreSound
  BY <1>0 DEF TaskInit, PhotosAreSound, FreshMini
<1>6. WebWillKnow
  <2>1. visit["web"] = 0 /\ order >= toldWeb
    BY DEF TaskInit, Pages, Invited, Unseen
  <2> QED
    BY <2>1 DEF WebWillKnow
<1>7. TaskTypeOK
  <2>1. ask \in [TaskCalls -> TaskCall]
    BY NoCallIs DEF TaskInit
  <2>2. visit \in [Pages -> Nat]
    BY DEF TaskInit
  <2>3. order \in Statuses /\ toldWeb \in {Unseen} \cup Statuses
    BY DEF TaskInit, Statuses, Invited, Reported, Unseen
  <2> QED
    BY <2>1, <2>2, <2>3, <1>0 DEF TaskTypeOK, TaskInit, FreshWeb, FreshMini
<1> QED
  BY <1>3, <1>4, <1>5, <1>6, <1>7 DEF TaskInv

LEMMA TaskStepsKeepInv == TaskInv /\ [TaskNext]_taskVars => TaskInv'
<1> SUFFICES ASSUME TaskInv, [TaskNext]_taskVars PROVE TaskInv'
  OBVIOUS
<1>1. CASE UNCHANGED taskVars
  <2>1. /\ UNCHANGED <<order, evidence, stored, issued>> /\ ask' = ask
        /\ UNCHANGED <<web, mini, visit, toldWeb>>
    BY <1>1 DEF taskVars, serverVars, taskPages
  <2>2. TaskTypeOK'
    BY <2>1 DEF TaskInv, TaskTypeOK
  <2>3. CallsAreSound'
    BY <2>1 DEF TaskInv, CallsAreSound, CallIsSound, MiniWaits, IsRecent, Counts, Hears
  <2>4. PhotosAreSound' /\ MiniAsksOnce' /\ WebWillKnow'
    BY <2>1 DEF TaskInv, PhotosAreSound, MiniAsksOnce, WebWillKnow, Counts, Hears
  <2> QED
    BY <2>2, <2>3, <2>4 DEF TaskInv
<1>2. CASE \/ OpenWeb \/ Reload \/ \E work \in Works : Mutate(work)
           \/ OpenMini \/ Load \/ CheckIn \/ Upload \/ Submit
  BY <1>2, RestKeepsInv
<1>3. ASSUME NEW c \in TaskCalls, TaskServe(c)
      PROVE  TaskInv'
  BY <1>3, TaskHandlersKeepInv
<1>4. ASSUME NEW c \in TaskCalls,
             HearReply(c) \/ IgnoreReply(c) \/ LoseReply(c) \/ FailCall(c)
      PROVE  TaskInv'
  BY <1>4, AnswersKeepInv
<1> QED
  BY <1>1, <1>2, <1>3, <1>4 DEF TaskNext

LEMMA TaskInvHolds == TaskSpec => []TaskInv
<1>1. TaskInit => TaskInv
  BY TaskInitInv
<1>2. TaskInv /\ [TaskNext]_taskVars => TaskInv'
  BY TaskStepsKeepInv
<1> QED
  BY <1>1, <1>2, PTL DEF TaskSpec

\* Rows, calls and pages have the types that the code declares for them.
THEOREM TaskTypes == TaskSpec => []TaskTypeOK
<1>1. TaskInv => TaskTypeOK
  BY DEF TaskInv
<1> QED
  BY <1>1, TaskInvHolds, PTL

\* The web page at rest shows at least the status it was told it brought
\* about: version outdates the lists that were asked for before, and mutate
\* asks for one after (ProviderPilotWorkspace.tsx).
THEOREM RestingPagesAreCurrent == TaskSpec => []RestingPageIsCurrent
<1>1. TaskInv => RestingPageIsCurrent
  <2> SUFFICES ASSUME TaskInv, Quiet("web"), ~web.failed
               PROVE  web.shown >= toldWeb
    BY DEF RestingPageIsCurrent
  <2>1. \A c \in TaskCalls : ~Counts(ask[c])
    BY DEF Quiet, Counts
  <2> QED
    BY <2>1 DEF Quiet, TaskInv, WebWillKnow
<1> QED
  BY <1>1, TaskInvHolds, PTL

\* A photo that the task page has asked to attach and has no receipt of is the
\* one it will ask for again, capturedAt and all (pending, provider-service.ts).
THEOREM PhotosAreKnown == TaskSpec => []KnowsItsPhotos
<1>1. TaskInv => KnowsItsPhotos
  <2> SUFFICES ASSUME TaskInv, NEW photo \in evidence, photo.key \in mini.unsure
               PROVE  photo = mini.pending
    BY DEF KnowsItsPhotos
  <2>1. photo \in Photo /\ mini.pending \in Photo
    BY DEF TaskInv, TaskTypeOK
  <2>2. photo.at = 0 /\ mini.pending.at = 0 /\ photo.key = mini.pending.key
    BY DEF TaskInv, PhotosAreSound
  <2> QED
    BY <2>1, <2>2 DEF Photo
<1> QED
  BY <1>1, TaskInvHolds, PTL

\* With the local storage, whose quota is no more than what the web client
\* takes, the list of tasks stays readable: an order has no more photos than
\* keys were issued for it.
THEOREM TasksAreReadable ==
  ASSUME Storage = "local", Quota <= ListLimit
  PROVE  TaskSpec => []TasksStayReadable
<1>1. TaskInv => TasksStayReadable
  <2> SUFFICES ASSUME TaskInv PROVE Cardinality(evidence) <= ListLimit
    BY DEF TasksStayReadable
  <2>0. issued \in Nat /\ issued <= Quota /\ Quota \in Nat /\ ListLimit \in Nat
        /\ evidence \subseteq Photo
    BY TaskAssumption DEF TaskInv, TaskTypeOK, PhotosAreSound
  <2>1. IsFiniteSet(evidence) /\ Cardinality(evidence) <= issued
    BY <2>0, PhotosAreFew DEF TaskInv, PhotosAreSound
  <2>2. Cardinality(evidence) \in Nat
    BY <2>1, FS_CardinalityType
  <2> QED
    BY <2>0, <2>1, <2>2
<1> QED
  BY <1>1, TaskInvHolds, PTL

-----------------------------------------------------------------------------
(* The three modules side by side.                                         *)

LEMMA PartsKeepTheirs ==
  IInv /\ FeeInv /\ TaskInv /\ [MCNext]_<<vars, feeVars, taskVars, part>>
    => IInv' /\ FeeInv' /\ TaskInv'
<1>1. [MCNext]_<<vars, feeVars, taskVars, part>>
        => [Next]_vars /\ [FeeNext]_feeVars /\ [TaskNext]_taskVars
  BY DEF MCNext
<1> QED
  BY <1>1, StepKeepsInv, FeeNextInv, TaskStepsKeepInv

\* Intake, fees and tasks all keep their types, whichever of them a behaviour
\* of MCOrderIntake runs.
THEOREM TypesStay == MCSpec => []TypesAreKept
<1>1. MCInit => IInv /\ FeeInv /\ TaskInv
  BY InitSound, FeeInitInv, TaskInitInv DEF MCInit
<1>2. IInv /\ FeeInv /\ TaskInv => TypesAreKept
  BY DEF IInv, FeeInv, TaskInv, TypesAreKept
<1> QED
  BY <1>1, <1>2, PartsKeepTheirs, PTL DEF MCSpec

=============================================================================
