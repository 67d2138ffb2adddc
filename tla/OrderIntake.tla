---------------------------- MODULE OrderIntake ----------------------------
(***************************************************************************)
(* How an order comes to be: one owner books on a page of the web client   *)
(* (OwnerPilotWorkspace) or of the mini program (order-create), and the    *)
(* API prices and creates the order (QuoteService, OrderService,           *)
(* PetService) from a catalog that administrators edit.                    *)
(*                                                                         *)
(* A request of the page runs in a slot, one awaited statement of its      *)
(* handler per step.  The page waits for one request at a time; it may     *)
(* lose the answer, and the request goes on unheard or never arrives.  The *)
(* page freezes what it sends with the key it sends it under, so a key     *)
(* stands for its contents.  A pet stands for an address too: both are     *)
(* saved by the same code.  A price is the version of the catalog it was   *)
(* read from.                                                              *)
(*                                                                         *)
(* A definition X_Slip, written before X, is X with a plausible slip: the  *)
(* properties are tested by putting it in the place of X.                  *)
(***************************************************************************)
EXTENDS Integers, FiniteSets

CONSTANTS Requests,    \* slots for requests of the page
          Admins,      \* administrators with the settings panel open
          None,        \* no request
          Apps,        \* the clients considered
          MaxPets,     \* bound: attempts to save a pet
          MaxKeys,     \* bound: attempts to order
          MaxPages,    \* bound: times the page is opened
          MaxEdits,    \* bound: versions of the catalog
          MaxFaults    \* bound: lost answers, dead handlers, refused requests

ASSUME IntakeAssumption ==
  /\ None \notin Requests
  /\ Apps \subseteq {"web", "mini"}
  /\ {MaxPets, MaxKeys, MaxFaults} \subseteq Nat
  /\ {MaxPages, MaxEdits} \subseteq Nat \ {0}

VARIABLES app,       \* the client the owner uses
          catalog,   \* the OperationsCatalog row
          editing,   \* the version an administrator's panel shows
          booking,   \* the page
          page,      \* how often it was opened
          minted,    \* keys given out: [pet |-> , order |-> ]
          request,   \* what each slot is doing
          pets,      \* Pet.clientRequestId of the rows, 0 for none
          orders,    \* the price of the Order row of a key, 0 for none
          settled,   \* attempts the page is sure of: done or given up
          faults

shopVars == <<catalog, editing>>
pageVars == <<booking, page, minted, settled>>
rowVars == <<pets, orders>>
vars == <<app, shopVars, pageVars, request, rowVars, faults>>

Keys == 1..MaxKeys
PetKeys == 1..MaxPets
Kind == {"pet", "quote", "order"}
Result == {"done", "rejected", "failed"}
Stage == {"idle", "arrived", "priced", "create", "collided", "answered"}
Request == [stage : Stage, kind : Kind, key : 0..(MaxKeys + MaxPets), price : 0..MaxEdits,
            page : 0..MaxPages, result : Result]
Idle == [stage |-> "idle", kind |-> "quote", key |-> 0, price |-> 0, page |-> 0,
         result |-> "failed"]
Booking == [pet : {"new", "saved"},          \* petMode
            saving : 0..MaxPets,             \* petSaveAttempt
            shown : 0..MaxEdits,             \* quote
            attempt : 0..MaxKeys,            \* orderAttempt, pendingAttempt
            doubt : {"sure", "unsure"},      \* ...Ambiguous
            done : 0..MaxKeys,               \* createdOrderId
            on : Requests \cup {None}]       \* what busy or a lock waits for
Attempt == [kind : {"pet", "order"}, key : Nat, end : {"done", "given up"}]

TypeOK ==
  /\ app \in Apps
  /\ catalog \in [open : {"open", "closed"}, version : 1..MaxEdits]
  /\ editing \in [Admins -> 1..MaxEdits]
  /\ booking \in Booking /\ page \in 1..MaxPages
  /\ minted \in [pet : 0..MaxPets, order : 0..MaxKeys]
  /\ request \in [Requests -> Request]
  /\ pets \subseteq 0..MaxPets
  /\ orders \in [Keys -> 0..MaxEdits]
  /\ settled \subseteq Attempt
  /\ faults \in 0..MaxFaults

\* A page that was just opened lists the pets there are.
Fresh(rows) == [pet |-> IF rows = {} THEN "new" ELSE "saved", saving |-> 0, shown |-> 0,
                attempt |-> 0, doubt |-> "sure", done |-> 0, on |-> None]

Init ==
  /\ app \in Apps
  /\ catalog = [open |-> "open", version |-> 1]
  /\ editing = [a \in Admins |-> 1]
  /\ booking = Fresh({}) /\ page = 1
  /\ minted = [pet |-> 0, order |-> 0]
  /\ request = [r \in Requests |-> Idle]
  /\ pets = {} /\ orders = [k \in Keys |-> 0]
  /\ settled = {}
  /\ faults = 0

-----------------------------------------------------------------------------
At(r, stage) == request[r].stage = stage
Slot(r, q) == request' = [request EXCEPT ![r] = q]
Answer(r, result) == Slot(r, [request[r] EXCEPT !.stage = "answered", !.result = result])

\* The page asks and waits: `busy` of the mini program, the locks of the web.
Asked_Slip(kind, key) ==
  [Idle EXCEPT !.stage = "arrived", !.kind = kind, !.key = key, !.page = page + 1]
Asked(kind, key) == [Idle EXCEPT !.stage = "arrived", !.kind = kind, !.key = key, !.page = page]
Ask(kind, key, b) ==
  \E r \in Requests :
     /\ At(r, "idle")
     /\ Slot(r, Asked(kind, key))
     /\ booking' = [b EXCEPT !.on = r]

Idling == booking.on = None /\ booking.done = 0
Editable == Idling /\ booking.attempt = 0 /\ booking.saving = 0

-----------------------------------------------------------------------------
(* The settings panel and the catalog.                                     *)

ReadCatalog(a) ==
  /\ editing[a] < catalog.version
  /\ editing' = [editing EXCEPT ![a] = catalog.version]
  /\ UNCHANGED <<app, catalog, pageVars, request, rowVars, faults>>

\* compareAndSwap: a panel that shows an old version is refused.
UpdateCatalog(a) ==
  /\ IF editing[a] = catalog.version
     THEN /\ catalog.version < MaxEdits
          /\ \E open \in {"open", "closed"} :
                catalog' = [open |-> open, version |-> catalog.version + 1]
          /\ editing' = [editing EXCEPT ![a] = catalog'.version]
     ELSE UNCHANGED <<catalog, editing>>            \* OPERATIONS_CATALOG_CONFLICT
  /\ UNCHANGED <<app, pageVars, request, rowVars, faults>>

-----------------------------------------------------------------------------
(* What the owner does on the page.                                        *)

\* unmount and mount again, onUnload and onLoad: answers on their way are
\* for a page that is gone.
Reopen ==
  /\ page < MaxPages
  /\ page' = page + 1
  /\ booking' = Fresh(pets)
  /\ UNCHANGED <<app, shopVars, minted, settled, request, rowVars, faults>>

\* openBooking: a second booking on the web page.
BookAgain ==
  /\ app = "web" /\ booking.done # 0 /\ booking.on = None
  /\ booking' = [booking EXCEPT !.done = 0, !.pet = Fresh(pets).pet]
  /\ UNCHANGED <<app, shopVars, page, minted, settled, request, rowVars, faults>>

NewPet ==
  /\ Editable
  /\ booking.pet = "saved"
  /\ booking' = [booking EXCEPT !.pet = "new", !.shown = 0]
  /\ UNCHANGED <<app, shopVars, page, minted, settled, request, rowVars, faults>>

\* savePet of the mini program: the attempt and its clientRequestId are kept
\* until the answer is sure.
SavePet ==
  /\ app = "mini"
  /\ Idling /\ booking.attempt = 0 /\ booking.pet = "new"
  /\ LET key == IF booking.saving # 0 THEN booking.saving ELSE minted.pet + 1 IN
       /\ key <= MaxPets
       /\ minted' = [minted EXCEPT !.pet = IF key > @ THEN key ELSE @]
       /\ Ask("pet", key, [booking EXCEPT !.saving = key, !.shown = 0])
  /\ UNCHANGED <<app, shopVars, page, settled, rowVars, faults>>

\* refreshQuote of the mini program; prepareQuote of the web client, which
\* saves a new pet first, without a clientRequestId.
PrepareQuote ==
  /\ Editable
  /\ IF booking.pet = "saved"
     THEN Ask("quote", 0, [booking EXCEPT !.shown = 0])
     ELSE app = "web" /\ Ask("pet", 0, [booking EXCEPT !.shown = 0])
  /\ UNCHANGED <<app, shopVars, page, minted, settled, rowVars, faults>>

\* submitOrder, submit: what was quoted is frozen with its key; a retry sends
\* the same again.
SubmitOrder ==
  /\ Idling /\ booking.saving = 0
  /\ booking.shown # 0
  /\ LET key == IF booking.attempt # 0 THEN booking.attempt ELSE minted.order + 1 IN
       /\ key <= MaxKeys
       /\ minted' = [minted EXCEPT !.order = IF key > @ THEN key ELSE @]
       /\ Ask("order", key, [booking EXCEPT !.attempt = key])
  /\ UNCHANGED <<app, shopVars, page, settled, rowVars, faults>>

\* abandonQuote: the web page offers it when a submission has failed.
AbandonQuote ==
  /\ app = "web" /\ Idling
  /\ booking.attempt # 0
  /\ booking' = [booking EXCEPT !.attempt = 0, !.shown = 0]
  /\ UNCHANGED <<app, shopVars, page, minted, settled, request, rowVars, faults>>

-----------------------------------------------------------------------------
(* The API.                                                                *)

\* Authentication, rate limits and validation come before the handler.
Refuse(r) ==
  /\ At(r, "arrived")
  /\ faults < MaxFaults /\ faults' = faults + 1
  /\ Answer(r, "rejected")
  /\ UNCHANGED <<app, shopVars, pageVars, rowVars>>

\* The handler dies on an error of the database: what it did not commit is lost.
Fail(r) ==
  /\ request[r].stage \in {"priced", "create", "collided"}
  /\ faults < MaxFaults /\ faults' = faults + 1
  /\ Answer(r, "failed")
  /\ UNCHANGED <<app, shopVars, pageVars, rowVars>>

\* PetService.create: without a clientRequestId nothing is looked up.
FindPet(r) ==
  /\ At(r, "arrived") /\ request[r].kind = "pet"
  /\ IF request[r].key # 0 /\ request[r].key \in pets
     THEN Answer(r, "done")
     ELSE Slot(r, [request[r] EXCEPT !.stage = "create"])
  /\ UNCHANGED <<app, shopVars, pageVars, rowVars, faults>>

CreatePet(r) ==
  /\ At(r, "create") /\ request[r].kind = "pet"
  /\ IF request[r].key # 0 /\ request[r].key \in pets
     THEN Slot(r, [request[r] EXCEPT !.stage = "collided"]) /\ UNCHANGED pets
     ELSE Answer(r, "done") /\ pets' = pets \cup {request[r].key}
  /\ UNCHANGED <<app, shopVars, pageVars, orders, faults>>

\* P2002: the row that was faster holds the same contents.
FindRacedPet(r) ==
  /\ At(r, "collided")
  /\ Answer(r, "done")
  /\ UNCHANGED <<app, shopVars, pageVars, rowVars, faults>>

\* OrderService.create looks for the key before it asks for a price.
Ordered(k) == orders[k] # 0
FindOrder_Slip(r) ==
  /\ At(r, "arrived") /\ request[r].kind = "order"
  /\ Slot(r, [request[r] EXCEPT !.stage = "priced"])
  /\ UNCHANGED <<app, shopVars, pageVars, rowVars, faults>>
FindOrder(r) ==
  /\ At(r, "arrived") /\ request[r].kind = "order"
  /\ IF Ordered(request[r].key)
     THEN Answer(r, "done")
     ELSE Slot(r, [request[r] EXCEPT !.stage = "priced"])
  /\ UNCHANGED <<app, shopVars, pageVars, rowVars, faults>>

\* QuoteService.quote: the catalog is read once.
Quote(r) ==
  /\ \/ At(r, "arrived") /\ request[r].kind = "quote"
     \/ At(r, "priced")
  /\ IF catalog.open = "closed"
     THEN Answer(r, "rejected")          \* SERVICE_NOT_AVAILABLE, AREA_NOT_AVAILABLE
     ELSE Slot(r, [request[r] EXCEPT !.price = catalog.version, !.result = "done",
                      !.stage = IF request[r].kind = "quote" THEN "answered" ELSE "create"])
  /\ UNCHANGED <<app, shopVars, pageVars, rowVars, faults>>

\* The order, its payment and the audit entry in one transaction; P2002 is
\* not caught: the slower of two requests fails.
CreateOrder(r) ==
  /\ At(r, "create") /\ request[r].kind = "order"
  /\ LET k == request[r].key IN
       IF Ordered(k)
       THEN Answer(r, "failed") /\ UNCHANGED orders
       ELSE /\ Answer(r, "done")
            /\ orders' = [orders EXCEPT ![k] = request[r].price]
  /\ UNCHANGED <<app, shopVars, pageVars, pets, faults>>

-----------------------------------------------------------------------------
(* The answer, as the page takes it.                                       *)

\* isCurrent and quoteVersion, disposed: only this page's own request counts.
Heard(r) == request[r].page = page /\ booking.on = r

\* definitelyRejected: after a failure nothing is definite any more.
Definite_Slip(result) == result = "rejected"
Definite(result) == result = "rejected" /\ booking.doubt = "sure"
Settle(kind, key, end) == settled' = settled \cup {[kind |-> kind, key |-> key, end |-> end]}

AfterPet(b, result) ==
  IF result = "done" THEN [b EXCEPT !.pet = "saved", !.saving = 0, !.doubt = "sure"]
  ELSE IF app = "web" THEN b
  ELSE IF Definite(result) THEN [b EXCEPT !.saving = 0]
  ELSE [b EXCEPT !.doubt = "unsure"]
AfterOrder(b, result) ==
  IF result = "done" THEN [b EXCEPT !.done = b.attempt, !.attempt = 0, !.shown = 0]
  ELSE IF app = "web" THEN b
  ELSE IF Definite(result) THEN [b EXCEPT !.attempt = 0, !.shown = 0]
  ELSE [b EXCEPT !.doubt = "unsure"]
Concludes(kind, key, result) ==
  IF result = "done" THEN Settle(kind, key, "done")
  ELSE IF app = "mini" /\ Definite(result) THEN Settle(kind, key, "given up")
  ELSE UNCHANGED settled

\* What the page makes of a result of request r.
Take(r, result) ==
  LET q == request[r] b == [booking EXCEPT !.on = None] IN
    CASE q.kind = "pet"   -> /\ booking' = AfterPet(b, result)
                             /\ Concludes("pet", q.key, result)
      [] q.kind = "quote" -> /\ booking' = [b EXCEPT !.shown = IF result = "done"
                                                              THEN q.price ELSE 0]
                             /\ UNCHANGED settled
      [] q.kind = "order" -> /\ booking' = AfterOrder(b, result)
                             /\ Concludes("order", q.key, result)

\* prepareQuote of the web client goes on to the quote when the pet is saved.
GoesOn(r) == app = "web" /\ request[r].kind = "pet" /\ request[r].result = "done"

Hear(r) ==
  /\ At(r, "answered")
  /\ Heard(r)
  /\ IF GoesOn(r)
     THEN /\ Slot(r, Asked("quote", 0))
          /\ booking' = [booking EXCEPT !.pet = "saved"]
          /\ UNCHANGED settled
     ELSE Slot(r, Idle) /\ Take(r, request[r].result)
  /\ UNCHANGED <<app, shopVars, page, minted, rowVars, faults>>

\* The answer comes to a page that does not wait for it any more.
Ignore(r) ==
  /\ At(r, "answered")
  /\ ~Heard(r)
  /\ Slot(r, Idle)
  /\ UNCHANGED <<app, shopVars, pageVars, rowVars, faults>>

\* The connection breaks: the page sees a failure, and the request goes on.
Lose(r) ==
  /\ ~At(r, "idle") /\ Heard(r)
  /\ faults < MaxFaults /\ faults' = faults + 1
  /\ Slot(r, [request[r] EXCEPT !.page = 0])
  /\ Take(r, "failed")
  /\ UNCHANGED <<app, shopVars, page, minted, rowVars>>

\* ... or it has never arrived.
Drop(r) ==
  /\ At(r, "arrived") /\ request[r].page = 0
  /\ Slot(r, Idle)
  /\ UNCHANGED <<app, shopVars, pageVars, rowVars, faults>>

-----------------------------------------------------------------------------
Serve(r) == \/ FindPet(r) \/ CreatePet(r) \/ FindRacedPet(r)
            \/ FindOrder(r) \/ Quote(r) \/ CreateOrder(r)

Next ==
  \/ \E a \in Admins : ReadCatalog(a) \/ UpdateCatalog(a)
  \/ Reopen \/ BookAgain \/ NewPet \/ SavePet \/ PrepareQuote \/ SubmitOrder \/ AbandonQuote
  \/ \E r \in Requests : Refuse(r) \/ Fail(r) \/ Serve(r) \/ Hear(r) \/ Ignore(r)
                         \/ Lose(r) \/ Drop(r)

\* The API serves what arrives and the page hears it; the owner who sees the
\* retry button presses it.
Fairness ==
  /\ \A r \in Requests : WF_vars(Serve(r) \/ Hear(r) \/ Ignore(r))
  /\ WF_vars(booking.attempt # 0 /\ SubmitOrder)

Spec == Init /\ [][Next]_vars
FairSpec == Spec /\ Fairness

-----------------------------------------------------------------------------
(* Properties.                                                             *)

\* What the page is sure of is so: an attempt it was told of has its row, and
\* one the mini program gave up as refused has none, however late a lost
\* request is served (definitelyRejected, booking-details-page.ts:11).
PageIsRight ==
  \A a \in settled :
    LET there == IF a.kind = "pet" THEN a.key \in pets ELSE Ordered(a.key) IN
      there <=> a.end = "done"

\* Once there is an order for the page's attempt, an owner who retries is told
\* of it, even if the service was closed in between.
RetryFindsTheOrder ==
  \A k \in Keys : (booking.attempt = k /\ Ordered(k)) ~> (booking.attempt # k)

=============================================================================
