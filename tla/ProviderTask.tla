---------------------------- MODULE ProviderTask ----------------------------
(***************************************************************************)
(* A provider works through one order, on the web page                     *)
(* (ProviderPilotWorkspace) and on the task page of the mini program       *)
(* (provider-service), against FulfillmentService and the read model.      *)
(*                                                                         *)
(* A call of a page runs in a slot.  The API reads in one step and commits *)
(* in the next.  A page may lose the answer: it then takes the call for    *)
(* failed, and the call goes on unheard or never arrives.  The mini        *)
(* program waits for one call at a time; the web page holds a lock for     *)
(* every kind of operation and may load its list beside them.              *)
(*                                                                         *)
(* The status of the order is a number: it only grows.  A report is one    *)
(* that is complete, a check-in one within the time window; what the       *)
(* provider ticks and types is part of pressing the button.                *)
(*                                                                         *)
(* A definition X_Slip, written before X, is X with a plausible slip: the  *)
(* properties are tested by putting it in the place of X.                  *)
(***************************************************************************)
EXTENDS Integers, FiniteSets

CONSTANTS TaskCalls,    \* slots for calls
          Storage,      \* "local" or "s3"
          Quota,        \* maxObjectsPerOrder of the local storage
          ListLimit,    \* photos of an order that the web client reads
          MaxObjects,   \* bound: object keys
          MaxVisits,    \* bound: times the pages are opened
          MaxReloads,   \* bound: reloads of the web page with no error to see
          MaxFailures   \* bound: lost answers and refused calls

ASSUME TaskAssumption ==
  /\ Storage \in {"local", "s3"}
  /\ {Quota, ListLimit, MaxObjects, MaxVisits, MaxReloads, MaxFailures} \subseteq Nat

VARIABLES order,       \* Order.status, and FulfillmentReport with it
          evidence,    \* MediaEvidence rows: [key, at], at = capturedAt
          stored,      \* object keys whose bytes are in the storage
          issued,      \* object keys given out; the code frees a reservation that
                       \* expired unused, here every key counts for ever
          ask,         \* what each slot is doing
          web,         \* the state of ProviderPilotWorkspace
          mini,        \* the state of createProviderService
          visit,       \* how often the pages were opened
          toldWeb,     \* the status the web page was told it brought about
          reloads, failures

serverVars == <<order, evidence, stored, issued>>
taskPages == <<web, mini, visit, toldWeb>>
taskBounds == <<reloads, failures>>
taskVars == <<serverVars, ask, taskPages, taskBounds>>

Unseen == 0
Invited == 1        \* PENDING_DISPATCH
Assigned == 2       \* PENDING_SERVICE
InService == 3      \* IN_SERVICE
Reported == 4       \* PENDING_CONFIRMATION
Statuses == Invited..Reported

Pages == {"web", "mini"}
Works == {"accept", "check-in", "upload", "report"}
Kinds == {"list", "accept", "check-in", "issue", "put", "attach", "report"}
ObjectKeys == 1..MaxObjects
NoObject == 0
\* at is 0 for the moment the photo was put into the storage, 1 for a later one.
Photo == [key : 0..MaxObjects, at : {0, 1}]
NoPhoto == [key |-> NoObject, at |-> 0]

\* work: the operation of the page that the call is part of, "load" for none.
\* load: of a list of the web page, whether it is the last one asked for
\* (version); a list of the mini program that fails is asked for again then.
TaskCall ==
  [stage : {"idle", "sent", "read", "done"}, page : Pages, visit : Nat,
   work : Works \cup {"load"}, kind : Kinds, photo : Photo, load : BOOLEAN,
   seen : {Unseen} \cup Statuses, count : 0..MaxObjects, ok : BOOLEAN]
NoCall ==
  [stage |-> "idle", page |-> "web", visit |-> 0, work |-> "load", kind |-> "list",
   photo |-> NoPhoto, load |-> FALSE, seen |-> Unseen, count |-> 0, ok |-> FALSE]

FreshWeb == [shown |-> Unseen,      \* orders
             attached |-> FALSE,    \* evidenceAttached
             locks |-> {},          \* locks
             loading |-> TRUE,      \* loading
             failed |-> FALSE]      \* the last load ended in an error
FreshMini == [shown |-> Unseen,     \* order
              count |-> 0,          \* evidenceCount
              loaded |-> FALSE, busy |-> FALSE,
              pending |-> NoPhoto,  \* pending
              unsure |-> {}]        \* keys it asked to attach and has no receipt of
TaskTypeOK ==
  /\ order \in Statuses
  /\ evidence \subseteq Photo /\ stored \subseteq ObjectKeys /\ issued \in 0..MaxObjects
  /\ ask \in [TaskCalls -> TaskCall]
  /\ web \in [shown : {Unseen} \cup Statuses, attached : BOOLEAN, locks : SUBSET Works,
              loading : BOOLEAN, failed : BOOLEAN]
  /\ mini \in [shown : {Unseen} \cup Statuses, count : 0..MaxObjects, loaded : BOOLEAN,
               busy : BOOLEAN, pending : Photo, unsure : SUBSET ObjectKeys]
  /\ visit \in [Pages -> Nat] /\ toldWeb \in {Unseen} \cup Statuses

TaskInit ==
  /\ order = Invited
  /\ evidence = {} /\ stored = {} /\ issued = 0
  /\ ask = [c \in TaskCalls |-> NoCall]
  /\ web = FreshWeb /\ mini = FreshMini
  /\ visit = [p \in Pages |-> 0] /\ toldWeb = Unseen
  /\ reloads = 0 /\ failures = 0

-----------------------------------------------------------------------------
Is(c, stage) == ask[c].stage = stage
\* lifecycle.load: a list of the web page outdates the earlier ones.
Outdated(d, q) ==
  IF q.kind = "list" /\ q.page = "web" /\ q.stage = "sent" /\ ask[d].page = "web"
  THEN [ask[d] EXCEPT !.load = FALSE] ELSE ask[d]
Hold(c, q) == ask' = [d \in TaskCalls |-> IF d = c THEN q ELSE Outdated(d, q)]
Asking(page, v, work, kind) ==
  [NoCall EXCEPT !.stage = "sent", !.page = page, !.visit = v, !.work = work, !.kind = kind]
List(page, v, work, load) == [Asking(page, v, work, "list") EXCEPT !.load = load]
\* Any free slot will do.
Free == {c \in TaskCalls : Is(c, "idle")}
Send(q) == Free # {} /\ Hold(CHOOSE c \in Free : TRUE, q)
Press(page, work, kind) == Send(Asking(page, visit[page], work, kind))

\* What a button of either page asks for, and the status it asks it in.
KindOf(work) == IF work = "upload" THEN "issue" ELSE work
Wanted == [work \in Works |-> CASE work = "accept" -> Invited
                               [] work = "check-in" -> Assigned
                               [] OTHER -> InService]

-----------------------------------------------------------------------------
(* FulfillmentService, DispatchService.accept, PilotReadModel.             *)

Reply(c, ok) == Hold(c, [ask[c] EXCEPT !.stage = "done", !.ok = ok])
\* What the first half of a handler has read.
Seen(c) == Hold(c, [ask[c] EXCEPT !.stage = "read", !.seen = order])

\* A call that one transaction answers.
AcceptInvitation(c) ==
  /\ Is(c, "sent") /\ ask[c].kind = "accept"
  /\ Reply(c, order = Invited)
  /\ order' = IF order = Invited THEN Assigned ELSE order
  /\ UNCHANGED <<evidence, stored, issued>>

IssueUpload_Slip(c) ==
  /\ Is(c, "sent") /\ ask[c].kind = "issue"
  /\ issued < MaxObjects
  /\ issued' = issued + 1
  /\ Hold(c, [ask[c] EXCEPT !.stage = "done", !.ok = TRUE, !.photo.key = issued'])
  /\ UNCHANGED <<order, evidence, stored>>
IssueUpload(c) ==
  /\ Is(c, "sent") /\ ask[c].kind = "issue"
  /\ IF order >= Assigned /\ (Storage = "local" => issued < Quota)
     THEN /\ issued < MaxObjects
          /\ issued' = issued + 1
          /\ Hold(c, [ask[c] EXCEPT !.stage = "done", !.ok = TRUE, !.photo.key = issued'])
     ELSE Reply(c, FALSE) /\ UNCHANGED issued      \* FORBIDDEN, EVIDENCE_QUOTA_EXCEEDED
  /\ UNCHANGED <<order, evidence, stored>>

PutObject(c) ==
  /\ Is(c, "sent") /\ ask[c].kind = "put"
  /\ Reply(c, TRUE)
  /\ stored' = stored \cup {ask[c].photo.key}
  /\ UNCHANGED <<order, evidence, issued>>

\* requireAssignedProvider, and the conditions a handler checks before its
\* transaction.
ReadOrder(c) ==
  LET q == ask[c]
      may == CASE q.kind = "list" -> q.page = "web" \/ order >= Assigned
               [] q.kind = "check-in" -> order = Assigned
               [] q.kind = "report" -> order = InService /\ evidence # {}
  IN /\ Is(c, "sent") /\ q.kind \in {"list", "check-in", "report"}
     /\ IF may THEN Seen(c) ELSE Reply(c, FALSE)
     /\ UNCHANGED serverVars

\* requireMatchingEvidence: a row there is must be the same, capturedAt too.
Replayed(c) == Reply(c, ask[c].photo \in evidence)
Attached(key) == \E photo \in evidence : photo.key = key
FindEvidence(c) ==
  LET key == ask[c].photo.key IN
    /\ Is(c, "sent") /\ ask[c].kind = "attach"
    /\ IF order < InService \/ key \notin stored
       THEN Reply(c, FALSE)                  \* UPLOAD_NOT_VERIFIED, CHECK_IN_REQUIRED
       ELSE IF Attached(key) THEN Replayed(c) ELSE Seen(c)
    /\ UNCHANGED serverVars

\* P2002: a request with the same key was faster.
CreateEvidence(c) ==
  /\ Is(c, "read") /\ ask[c].kind = "attach"
  /\ IF Attached(ask[c].photo.key)
     THEN Replayed(c) /\ UNCHANGED evidence
     ELSE Reply(c, TRUE) /\ evidence' = evidence \cup {ask[c].photo}
  /\ UNCHANGED <<order, stored, issued>>

\* updateMany with the status and the version that were read: a status never
\* returns, so the version says nothing more.
MoveOrder(c) ==
  LET q == ask[c] to == IF q.kind = "check-in" THEN InService ELSE Reported IN
    /\ Is(c, "read") /\ q.kind \in {"check-in", "report"}
    /\ Reply(c, order = q.seen)                               \* FULFILLMENT_CONFLICT
    /\ order' = IF order = q.seen THEN to ELSE order
    /\ UNCHANGED <<evidence, stored, issued>>

\* The photos are read after the orders.  The web client takes a list with too
\* many of them for a failure.
Readable(q, count) == q.page = "web" => count <= ListLimit
ReadEvidence(c) ==
  /\ Is(c, "read") /\ ask[c].kind = "list"
  /\ LET count == Cardinality(evidence) IN
       Hold(c, [ask[c] EXCEPT !.stage = "done", !.count = count,
                  !.ok = Readable(ask[c], count)])
  /\ UNCHANGED serverVars

-----------------------------------------------------------------------------
(* ProviderPilotWorkspace.                                                 *)

OpenWeb ==
  /\ visit["web"] < MaxVisits
  /\ visit' = [visit EXCEPT !["web"] = @ + 1]
  /\ web' = FreshWeb
  /\ Send(List("web", visit'["web"], "load", TRUE))
  /\ UNCHANGED <<serverVars, mini, toldWeb, taskBounds>>

Reload ==
  /\ visit["web"] > 0 /\ ~web.loading
  /\ IF web.failed THEN UNCHANGED reloads ELSE reloads < MaxReloads /\ reloads' = reloads + 1
  /\ web' = [web EXCEPT !.loading = TRUE]
  /\ Send(List("web", visit["web"], "load", TRUE))
  /\ UNCHANGED <<serverVars, mini, visit, toldWeb, failures>>

\* mutate: a lock for each operation.
Mutate(work) ==
  /\ visit["web"] > 0 /\ ~web.loading
  /\ work \notin web.locks
  /\ web.shown = Wanted[work]
  /\ work = "report" => web.attached
  /\ web' = [web EXCEPT !.locks = @ \cup {work}]
  /\ Press("web", work, KindOf(work))
  /\ UNCHANGED <<serverVars, mini, visit, toldWeb, taskBounds>>

\* The web page after a call of it: only the last list it asked for counts.
WebLists_Slip(q, ok) ==
  LET w == [web EXCEPT !.locks = @ \ {q.work}, !.loading = FALSE, !.failed = ~ok] IN
    IF ok THEN [w EXCEPT !.shown = q.seen, !.attached = q.seen = InService /\ q.count > 0]
    ELSE w
WebLists(q, ok) ==
  LET w == [web EXCEPT !.locks = @ \ {q.work}] IN
    IF ~q.load THEN w
    ELSE IF ok THEN [w EXCEPT !.loading = FALSE, !.failed = FALSE, !.shown = q.seen,
                       !.attached = q.seen = InService /\ q.count > 0]
    ELSE [w EXCEPT !.loading = FALSE, !.failed = TRUE]
WebAfter(q, ok) ==
  CASE q.kind = "list" -> WebLists(q, ok)
    [] q.kind \in {"issue", "put"} /\ ok -> web
    [] q.kind = "attach" /\ ok -> [web EXCEPT !.attached = TRUE, !.locks = @ \ {"upload"}]
    [] OTHER -> web
\* ... and what it asks for next: after a failure it reconciles.
WebNext(q, ok) ==
  CASE q.kind = "list" \/ (q.kind = "attach" /\ ok) -> NoCall
    [] q.kind = "issue" /\ ok -> [Asking("web", q.visit, "upload", "put") EXCEPT !.photo = q.photo]
    [] q.kind = "put" /\ ok -> [Asking("web", q.visit, "upload", "attach")
                                  EXCEPT !.photo = q.photo]
    [] OTHER -> List("web", q.visit, q.work, TRUE)

-----------------------------------------------------------------------------
(* createProviderService.                                                  *)

\* run: one action at a time.
Waiting(m) == [m EXCEPT !.busy = TRUE]
Refreshing(m) == [m EXCEPT !.loaded = FALSE]

\* openTask: from the list of tasks, for one that is assigned.
OpenMini ==
  /\ order >= Assigned
  /\ visit["mini"] < MaxVisits
  /\ visit' = [visit EXCEPT !["mini"] = @ + 1]
  /\ mini' = Waiting(FreshMini)
  /\ Send(List("mini", visit'["mini"], "load", FALSE))
  /\ UNCHANGED <<serverVars, web, toldWeb, taskBounds>>

Ready == visit["mini"] > 0 /\ ~mini.busy
\* A reload that would find nothing new is left out.
Load ==
  /\ Ready
  /\ mini.loaded => mini.shown # order \/ mini.count # Cardinality(evidence)
  /\ mini' = Refreshing(Waiting(mini))
  /\ Send(List("mini", visit["mini"], "load", FALSE))
  /\ UNCHANGED <<serverVars, web, visit, toldWeb, taskBounds>>

CheckIn ==
  /\ Ready /\ mini.loaded
  /\ mini.shown = Wanted["check-in"]
  /\ mini' = Waiting(mini)
  /\ Press("mini", "check-in", "check-in")
  /\ UNCHANGED <<serverVars, web, visit, toldWeb, taskBounds>>

\* upload: a photo that is in the storage already is only attached.  A new one
\* is not tried when the storage can take no more.
RetryAttach_Slip == [Asking("mini", visit["mini"], "upload", "attach")
                       EXCEPT !.photo = [key |-> mini.pending.key, at |-> 1]]
RetryAttach == [Asking("mini", visit["mini"], "upload", "attach") EXCEPT !.photo = mini.pending]
Upload ==
  /\ Ready /\ mini.loaded
  /\ mini.shown = Wanted["upload"]
  /\ mini.pending # NoPhoto \/ issued < Quota
  /\ mini' = Waiting(mini)
  /\ IF mini.pending = NoPhoto THEN Press("mini", "upload", "issue") ELSE Send(RetryAttach)
  /\ UNCHANGED <<serverVars, web, visit, toldWeb, taskBounds>>

\* reportReadiness, of a report whose list is ticked off.
Complete(count) == count > 0
Submit ==
  /\ Ready /\ mini.loaded
  /\ mini.shown = Wanted["report"]
  /\ Complete(mini.count) /\ mini.pending = NoPhoto
  /\ mini' = Waiting(mini)
  /\ Press("mini", "report", "report")
  /\ UNCHANGED <<serverVars, web, visit, toldWeb, taskBounds>>

\* The task page after a call of it: run refreshes after an error.
AfterError_Slip(m) == [Refreshing(m) EXCEPT !.pending = NoPhoto]
AfterError(m) == Refreshing(m)
MiniAfter(q, ok) ==
  CASE q.kind = "list" /\ ok -> [mini EXCEPT !.busy = FALSE, !.loaded = TRUE, !.shown = q.seen,
                                   !.count = q.count]
    [] q.kind = "list" /\ ~ok -> [mini EXCEPT !.busy = q.load]
    [] q.kind = "issue" /\ ok -> mini
    [] q.kind = "put" /\ ok -> [mini EXCEPT !.pending = q.photo, !.unsure = @ \cup {q.photo.key}]
    [] q.kind = "attach" /\ ok -> [Refreshing(mini) EXCEPT !.pending = NoPhoto,
                                     !.unsure = @ \ {q.photo.key}]
    [] q.kind \in {"check-in", "report"} /\ ok -> Refreshing(mini)
    [] OTHER -> AfterError(mini)
MiniNext(q, ok) ==
  CASE q.kind = "list" /\ (ok \/ ~q.load) -> NoCall
    [] q.kind = "issue" /\ ok -> [Asking("mini", q.visit, "upload", "put") EXCEPT !.photo = q.photo]
    [] q.kind = "put" /\ ok -> [Asking("mini", q.visit, "upload", "attach")
                                  EXCEPT !.photo = q.photo]
    [] q.kind \notin {"list", "issue", "put"} /\ ok -> List("mini", q.visit, q.work, TRUE)
    [] OTHER -> List("mini", q.visit, q.work, FALSE)

-----------------------------------------------------------------------------
(* A page and its calls.                                                   *)

Hears(q) == q.stage # "idle" /\ q.visit = visit[q.page]
After(q, ok) == IF q.page = "web" THEN WebNext(q, ok) ELSE MiniNext(q, ok)
TakeReply(q, ok) ==
  /\ web' = IF q.page = "web" THEN WebAfter(q, ok) ELSE web
  /\ mini' = IF q.page = "mini" THEN MiniAfter(q, ok) ELSE mini
  /\ toldWeb' = IF ok /\ q.page = "web" /\ q.kind \in {"accept", "check-in", "report"}
             THEN Wanted[q.work] + 1 ELSE toldWeb
  /\ UNCHANGED visit

HearReply(c) ==
  /\ Is(c, "done") /\ Hears(ask[c])
  /\ TakeReply(ask[c], ask[c].ok)
  /\ Hold(c, After(ask[c], ask[c].ok))
  /\ UNCHANGED <<serverVars, taskBounds>>

\* The answer comes to a page that does not wait for it any more.
IgnoreReply(c) ==
  /\ Is(c, "done") /\ ~Hears(ask[c])
  /\ Hold(c, NoCall)
  /\ UNCHANGED <<serverVars, taskPages, taskBounds>>

\* The connection breaks: the page sees a failure, and a call that may still
\* change something goes on unheard.
LoseReply(c) ==
  LET next == After(ask[c], FALSE) IN
    /\ Hears(ask[c])
    /\ failures < MaxFailures /\ failures' = failures + 1
    /\ TakeReply(ask[c], FALSE)
    /\ \/ /\ ask[c].kind = "list" \/ Is(c, "done")
          /\ Hold(c, next)
       \/ /\ ask[c].kind # "list" /\ ~Is(c, "done") /\ Free # {}
          /\ LET free == CHOOSE d \in Free : TRUE IN
               ask' = [d \in TaskCalls |-> IF d = free THEN next ELSE
                          IF d = c THEN [ask[c] EXCEPT !.visit = 0] ELSE Outdated(d, next)]
    /\ UNCHANGED <<serverVars, reloads>>

\* ... or it never arrives, or fails: authentication, rate limits, the window
\* of the check-in, the database.
FailCall(c) ==
  /\ ask[c].stage \in {"sent", "read"} /\ ~Hears(ask[c])
  /\ Hold(c, NoCall)
  /\ UNCHANGED <<serverVars, taskPages, taskBounds>>

-----------------------------------------------------------------------------
Handle(c) == \/ AcceptInvitation(c) \/ IssueUpload(c) \/ PutObject(c) \/ ReadOrder(c)
             \/ FindEvidence(c) \/ CreateEvidence(c) \/ MoveOrder(c) \/ ReadEvidence(c)
TaskServe(c) == Handle(c) /\ UNCHANGED <<taskPages, taskBounds>>

TaskNext ==
  \/ OpenWeb \/ Reload \/ \E work \in Works : Mutate(work)
  \/ OpenMini \/ Load \/ CheckIn \/ Upload \/ Submit
  \/ \E c \in TaskCalls : \/ TaskServe(c) \/ HearReply(c) \/ IgnoreReply(c)
                          \/ LoseReply(c) \/ FailCall(c)

\* The API serves what arrives and the page hears it; the provider presses
\* what the task page offers next.
Wants == Load \/ ((mini.count = 0 \/ mini.pending # NoPhoto) /\ Upload) \/ Submit
TaskFairness ==
  /\ \A c \in TaskCalls :
       WF_taskVars(TaskServe(c) \/ HearReply(c) \/ IgnoreReply(c) \/ FailCall(c))
  /\ WF_taskVars(Wants)
TaskSpec == TaskInit /\ [][TaskNext]_taskVars
FairTaskSpec == TaskSpec /\ TaskFairness

-----------------------------------------------------------------------------
(* Properties.                                                             *)

\* A page at rest is no older than what its own answers told it: a list that
\* was asked for earlier and comes later does not undo it
\* (lifecycle.load, ProviderPilotWorkspace.tsx:80).
Quiet(page) == visit[page] > 0 /\ \A c \in TaskCalls : ~(ask[c].page = page /\ Hears(ask[c]))
RestingPageIsCurrent ==
  Quiet("web") /\ ~web.failed => web.shown >= toldWeb

\* The task page knows every photo it attached: it has a receipt, or it will
\* ask for the same one again (pending, provider-service.ts:83).  Another
\* photo is never taken for one that is attached already.
KnowsItsPhotos ==
  \A photo \in evidence :
    photo.key \in mini.unsure => photo = mini.pending

\* However often photos are sent again, the web client can read the list of
\* tasks: it refuses one with more photos than the storage holds
\* (parseProviderOrder, api.ts:555).
TasksStayReadable == Cardinality(evidence) <= ListLimit

\* A provider who keeps at it on the task page gets the report through,
\* whatever answers are lost (attachEvidence and its replay).
ReportGetsThrough == (order = InService /\ visit["mini"] > 0) ~> (order > InService)

=============================================================================
