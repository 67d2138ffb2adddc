---------------------------- MODULE OwnerSession ----------------------------
(***************************************************************************)
(* An owner's access: one page of the web client (PilotApp and its         *)
(* FirstOrderRecoveryDelivery) and the API that opens, recovers and ends   *)
(* sessions and writes recovery credentials (PublicOwnerAccessService).    *)
(* The session is in a cookie, which the page shares with other tabs and   *)
(* never sees; it asks whose it is.                                        *)
(*                                                                         *)
(* A call runs in a slot: it is sent with the cookie of that instant,      *)
(* served in one transaction, arrives at the browser, which takes its      *)
(* Set-Cookie, and is heard by the page later.  An answer is lost as a     *)
(* whole or not at all.                                                    *)
(*                                                                         *)
(* The counters of the code (sessionVersion, recoveryRotationDisplay-      *)
(* Version) only serve to tell whether a call is still the last one: here  *)
(* the page names that call.  Staff sessions, and loadSession after a new  *)
(* display name, add nothing.                                              *)
(*                                                                         *)
(* A definition X_Slip, written before X, is X with a plausible slip: the  *)
(* properties are tested by putting it in the place of X.                  *)
(***************************************************************************)
EXTENDS Integers

CONSTANTS Owners, Sessions, Calls,
          Known,         \* the owner who brings a recovery token from elsewhere
          Nobody,        \* no owner, session or call
          MaxTokens,     \* bound: recovery tokens written
          MaxElsewhere,  \* bound: what other tabs do to the cookie
          MaxLosses      \* bound: lost answers

ASSUME AccessAssumption ==
  /\ Known \in Owners
  /\ Nobody \notin Owners \cup Sessions \cup Calls
  /\ {"loading", "landing"} \cap Owners = {}
  /\ MaxTokens \in Nat \ {0} /\ {MaxElsewhere, MaxLosses} \subseteq Nat

VARIABLES account,    \* the owner of a PilotSession row
          state,      \* live, or why not
          credential, \* the token of an owner's OwnerRecoveryCredential, 0 for none
          tokens,     \* tokens written so far
          ordered,    \* owners with an order
          cookie,
          tab,        \* the page
          call,
          touched,    \* whether another tab changed the cookie since the page asked
          elsewhere, losses

serverVars == <<account, state, credential, tokens, ordered>>
accessVars == <<serverVars, cookie, tab, call, touched, elsewhere, losses>>

NoCard == [owner |-> Nobody, token |-> 0, from |-> "nowhere"]
Card == [owner : Owners \cup {Nobody}, token : 0..MaxTokens,
         from : {"nowhere", "replacement", "delivery"}]
Free == [stage |-> "free", kind |-> "load", by |-> "page", cookie |-> Nobody,
         owner |-> Nobody, token |-> 0, session |-> Nobody, result |-> "none"]
Call == [stage : {"free", "sent", "answered", "arrived"},
         kind : {"load", "ensure", "recover", "delete", "issue", "rotate"},
         by : {"page", "link", "start", "logout", "replacement", "delivery"},  \* who waits for it
         cookie : Sessions \cup {Nobody},   \* as it was sent
         owner : Owners \cup {Nobody},      \* for whom; a load: whose session it is
         token : 0..MaxTokens, session : Sessions \cup {Nobody},
         result : {"none", "done", "unauthenticated", "already", "failed"}]
Tab == [shown : Owners \cup {"loading", "landing"},    \* session: its user, undefined, null
        held : Sessions \cup {Nobody},                 \* the session it was told of
        user : Owners \cup {Nobody},                   \* sessionUserId
        failure : {"no", "yes"},
        load : Calls \cup {Nobody},                    \* the call sessionVersion stands for
        turn : Calls \cup {Nobody},                    \* ... recoveryRotationDisplayVersion
        card : Card,                                   \* recoveryCredential
        delivery : Owners \cup {Nobody},               \* firstOrderRecoveryDelivery
        step : {"absent", "issuing", "retry", "rotate", "changed"},  \* the delivery's stage
        asked : Calls \cup {Nobody}]                   \* the call the delivery waits for

AccessInit ==
  /\ account = [s \in Sessions |-> Nobody]
  /\ state = [s \in Sessions |-> "live"]
  /\ credential = [o \in Owners |-> IF o = Known THEN 1 ELSE 0]
  /\ tokens = 1 /\ ordered = {Known}
  /\ cookie = Nobody
  /\ call = [c \in Calls |-> Free]
  /\ tab = [shown |-> "loading", held |-> Nobody, user |-> Nobody, failure |-> "no",
            load |-> Nobody, turn |-> Nobody, card |-> NoCard, delivery |-> Nobody,
            step |-> "absent", asked |-> Nobody]
  /\ touched = "no" /\ elsewhere = 0 /\ losses = 0

-----------------------------------------------------------------------------
(* The page.                                                               *)

In(c, stage, kind) == call[c].stage = stage /\ call[c].kind = kind
Slot(c, q) == call' = [call EXCEPT ![c] = q]
Sent(kind, by) == [Free EXCEPT !.stage = "sent", !.kind = kind, !.by = by, !.cookie = cookie]
Underway(by) == \E c \in Calls : call[c].stage # "free" /\ call[c].by = by

\* What is on the screen, the covers of a pending logout or a failure first.
Content(t) ==
  IF t.failure = "yes" THEN "failed"
  ELSE IF t.shown \in {"loading", "landing"} THEN t.shown
  ELSE IF t.delivery # Nobody THEN "delivery"
  ELSE IF t.card # NoCard THEN "card" ELSE "workspace"
Screen == IF Underway("logout") THEN "leaving" ELSE Content(tab)

\* The delivery is a component: it is gone when something else is shown.
Show(t) ==
  tab' = IF Content(t) = "delivery" THEN t ELSE [t EXCEPT !.step = "absent", !.asked = Nobody]

\* clearSessionBoundUi, invalidateSession.
Clear(t) == [t EXCEPT !.turn = Nobody, !.card = NoCard, !.delivery = Nobody]
Invalid(t) == [Clear(t) EXCEPT !.load = Nobody, !.user = Nobody, !.shown = "landing",
                               !.held = Nobody]

\* loadSession asks whose the cookie is.
LoadBy(c, by) ==
  /\ Slot(c, Sent("load", by))
  /\ Show([tab EXCEPT !.load = c, !.shown = "loading", !.failure = "no"])
  /\ touched' = "no"

\* The page opens, with a recovery link or without, or tries again.
OpenPage(c) ==
  /\ call[c] = Free
  /\ Screen = "loading" /\ tab.load = Nobody /\ ~\E d \in Calls : call[d].stage # "free"
  /\ \/ LoadBy(c, "page")
     \/ Slot(c, [Sent("recover", "link") EXCEPT !.token = 1]) /\ UNCHANGED <<tab, touched>>
  /\ UNCHANGED <<serverVars, cookie, elsewhere, losses>>
Reload(c) ==
  /\ call[c] = Free
  /\ Screen = "failed"
  /\ LoadBy(c, "page")
  /\ UNCHANGED <<serverVars, cookie, elsewhere, losses>>

StartOwnerSession(c) ==
  /\ call[c] = Free
  /\ Screen = "landing" /\ ~Underway("start")
  /\ Slot(c, Sent("ensure", "start"))
  /\ UNCHANGED <<serverVars, cookie, tab, touched, elsewhere, losses>>

\* With any token the owner has ever seen.
Recover(c) ==
  /\ call[c] = Free
  /\ Screen = "landing"
  /\ \E t \in 1..tokens : Slot(c, [Sent("recover", "page") EXCEPT !.token = t])
  /\ Show(Invalid(tab))
  /\ UNCHANGED <<serverVars, cookie, touched, elsewhere, losses>>

Logout(c) ==
  /\ call[c] = Free
  /\ Screen = "workspace"
  /\ Slot(c, Sent("delete", "logout"))
  /\ Show(Invalid(tab))
  /\ UNCHANGED <<serverVars, cookie, touched, elsewhere, losses>>

IssueReplacement(c) ==
  /\ call[c] = Free
  /\ Screen = "workspace" /\ ~Underway("replacement") /\ tab.user # Nobody
  /\ Slot(c, [Sent("rotate", "replacement") EXCEPT !.owner = tab.user])
  /\ Show([tab EXCEPT !.turn = c])
  /\ UNCHANGED <<serverVars, cookie, touched, elsewhere, losses>>

CloseCard ==
  /\ Screen = "card"
  /\ Show([tab EXCEPT !.card = NoCard])
  /\ UNCHANGED <<serverVars, cookie, call, touched, elsewhere, losses>>

\* OwnerPilotWorkspace: the first order asks for a delivery.
FirstOrder ==
  /\ Screen = "workspace" /\ tab.shown \notin ordered
  /\ ordered' = ordered \cup {tab.shown}
  /\ Show([tab EXCEPT !.delivery = tab.shown])
  /\ UNCHANGED <<account, state, credential, tokens, cookie, call, touched, elsewhere, losses>>

\* The delivery issues a credential as it appears; its buttons ask again, or
\* for a rotation when there was one already.
Deliver(c) ==
  /\ call[c] = Free
  /\ Screen = "delivery" /\ tab.asked = Nobody /\ tab.step \in {"absent", "retry", "rotate"}
  /\ Slot(c, [Sent(IF tab.step = "rotate" THEN "rotate" ELSE "issue", "delivery")
                EXCEPT !.owner = tab.delivery])
  /\ Show([tab EXCEPT !.asked = c, !.step = IF @ = "absent" THEN "issuing" ELSE @])
  /\ UNCHANGED <<serverVars, cookie, touched, elsewhere, losses>>

\* The timer of the session that is shown, whatever is on the screen ...
Expired ==
  /\ tab.shown \in Owners /\ state[tab.held] = "expired"
  /\ Show(Invalid(tab))
  /\ UNCHANGED <<serverVars, cookie, call, touched, elsewhere, losses>>
\* ... and handleProtectedError, when a request of the workspace is refused.
Refused ==
  /\ Screen = "workspace"
  /\ cookie \notin {s \in Sessions : state[s] = "live"}
  /\ Show([Invalid(tab) EXCEPT !.failure = "no"])
  /\ UNCHANGED <<serverVars, cookie, call, touched, elsewhere, losses>>

-----------------------------------------------------------------------------
(* The API.                                                                *)

\* The session a call was sent with, as authenticate finds it.
Authentic(c) == call[c].cookie # Nobody /\ state[call[c].cookie] = "live"
Caller(c) == account[call[c].cookie]
Answer(c, q) == Slot(c, [q EXCEPT !.stage = "answered"])
Reject(c, result) == Answer(c, [call[c] EXCEPT !.result = result])

\* createSessionForUser: an answer with a session sets the cookie.
OpenSession(c, o) ==
  \E s \in Sessions :
    /\ account[s] = Nobody
    /\ account' = [account EXCEPT ![s] = o]
    /\ Answer(c, [call[c] EXCEPT !.result = "done", !.session = s])
\* writeRecovery: the token replaces the one before.
WriteToken(c, o) ==
  /\ tokens < MaxTokens /\ tokens' = tokens + 1
  /\ credential' = [credential EXCEPT ![o] = tokens + 1]

ServeLoad(c) ==
  /\ In(c, "sent", "load")
  /\ IF Authentic(c)
     THEN Answer(c, [call[c] EXCEPT !.result = "done", !.owner = Caller(c)])
     ELSE Reject(c, "unauthenticated")
  /\ UNCHANGED serverVars

\* ensureOwnerSession: with a cookie the session it stands for, without one a
\* new guest.
Guest(o) == credential[o] = 0 /\ \A s \in Sessions : account[s] # o
ServeEnsure(c) ==
  /\ In(c, "sent", "ensure")
  /\ IF call[c].cookie # Nobody
     THEN Reject(c, IF Authentic(c) THEN "done" ELSE "unauthenticated") /\ UNCHANGED account
     ELSE \E o \in Owners : Guest(o) /\ OpenSession(c, o)
  /\ UNCHANGED <<state, credential, tokens, ordered>>

ServeRecover(c) ==
  /\ In(c, "sent", "recover")
  /\ IF \E o \in Owners : credential[o] = call[c].token
     THEN \E o \in Owners : credential[o] = call[c].token /\ OpenSession(c, o)
     ELSE Reject(c, "failed") /\ UNCHANGED account
  /\ UNCHANGED <<state, credential, tokens, ordered>>

ServeDelete(c) ==
  /\ In(c, "sent", "delete")
  /\ IF Authentic(c)
     THEN state' = [state EXCEPT ![call[c].cookie] = "revoked"] /\ Reject(c, "done")
     ELSE Reject(c, "unauthenticated") /\ UNCHANGED state
  /\ UNCHANGED <<account, credential, tokens, ordered>>

\* issueRecovery, rotateRecovery: once, and then again and again.
ServeRecovery(c) ==
  /\ call[c].stage = "sent" /\ call[c].kind \in {"issue", "rotate"}
  /\ IF ~Authentic(c) THEN Reject(c, "unauthenticated") /\ UNCHANGED <<credential, tokens>>
     ELSE IF (call[c].kind = "issue") = (credential[Caller(c)] = 0)
     THEN /\ WriteToken(c, Caller(c))
          /\ Answer(c, [call[c] EXCEPT !.result = "done", !.token = tokens + 1])
     ELSE Reject(c, "already") /\ UNCHANGED <<credential, tokens>>
  /\ UNCHANGED <<account, state, ordered>>

Serve(c) ==
  /\ ServeLoad(c) \/ ServeEnsure(c) \/ ServeRecover(c) \/ ServeDelete(c) \/ ServeRecovery(c)
  /\ UNCHANGED <<cookie, tab, touched, elsewhere, losses>>

\* A session runs out; the browser drops its cookie then.
ExpireSession(s) ==
  /\ account[s] # Nobody /\ state[s] = "live"
  /\ state' = [state EXCEPT ![s] = "expired"]
  /\ cookie' = IF cookie = s THEN Nobody ELSE cookie
  /\ UNCHANGED <<account, credential, tokens, ordered, tab, call, touched, elsewhere, losses>>

-----------------------------------------------------------------------------
(* The network and the other tabs.                                         *)

\* The browser has the answer: it takes the cookie, the page reads on later.
Arrive(c) ==
  /\ call[c].stage = "answered"
  /\ Slot(c, [call[c] EXCEPT !.stage = "arrived"])
  /\ cookie' = IF call[c].result # "done" THEN cookie
               ELSE IF call[c].kind = "delete" THEN Nobody
               ELSE IF call[c].kind \in {"ensure", "recover"} /\ call[c].session # Nobody
               THEN call[c].session ELSE cookie
  /\ UNCHANGED <<serverVars, tab, touched, elsewhere, losses>>

Lose(c) ==
  /\ call[c].stage \in {"sent", "answered"}
  /\ losses < MaxLosses /\ losses' = losses + 1
  /\ Slot(c, [call[c] EXCEPT !.stage = "arrived", !.result = "failed"])
  /\ UNCHANGED <<serverVars, cookie, tab, touched, elsewhere>>

\* Another tab recovers another account, or starts one; another device rotates.
SwitchElsewhere(s, o) ==
  /\ elsewhere < MaxElsewhere /\ elsewhere' = elsewhere + 1
  /\ account[s] = Nobody
  /\ account' = [account EXCEPT ![s] = o]
  /\ cookie' = s /\ touched' = "yes"
  /\ UNCHANGED <<state, credential, tokens, ordered, tab, call, losses>>
RotateElsewhere(o) ==
  /\ elsewhere < MaxElsewhere /\ elsewhere' = elsewhere + 1
  /\ credential[o] # 0 /\ tokens < MaxTokens
  /\ tokens' = tokens + 1
  /\ credential' = [credential EXCEPT ![o] = tokens + 1]
  /\ UNCHANGED <<account, state, ordered, cookie, tab, call, touched, losses>>

-----------------------------------------------------------------------------
(* What the page makes of an answer.                                       *)

Done(c) == call[c].result = "done"
Drop(c) == Slot(c, Free)

\* Only the last loadSession counts; another account than before takes its
\* predecessor's card and delivery away.
TakeSession_Slip(c) ==
  LET t == IF tab.user \notin {Nobody, call[c].owner} THEN Clear(tab) ELSE tab IN
    Show(IF Done(c)
         THEN IF state[call[c].cookie] = "expired" THEN Invalid(tab)
              ELSE [t EXCEPT !.user = call[c].owner, !.shown = call[c].owner,
                             !.held = call[c].cookie]
         ELSE IF call[c].result = "unauthenticated" THEN Invalid(tab)
         ELSE [tab EXCEPT !.failure = "yes"])
TakeSession(c) ==
  LET t == IF tab.user \notin {Nobody, call[c].owner} THEN Clear(tab) ELSE tab IN
    IF tab.load # c THEN UNCHANGED tab
    ELSE Show(IF Done(c)
              THEN IF state[call[c].cookie] = "expired" THEN Invalid(tab)
                   ELSE [t EXCEPT !.user = call[c].owner, !.shown = call[c].owner,
                                  !.held = call[c].cookie]
              ELSE IF call[c].result = "unauthenticated" THEN Invalid(tab)
              ELSE [tab EXCEPT !.failure = "yes"])
HearLoad(c) ==
  /\ In(c, "arrived", "load")
  /\ TakeSession(c) /\ Drop(c)
  /\ UNCHANGED touched

\* startOwnerSession, recover and the recovery link go on to loadSession.
HearAccess(c) ==
  /\ call[c].stage = "arrived" /\ call[c].kind \in {"ensure", "recover"}
  /\ IF Done(c) THEN LoadBy(c, IF call[c].by = "start" THEN "start" ELSE "page")
     ELSE /\ IF call[c].by = "link" THEN Show(Invalid(tab)) ELSE UNCHANGED tab
          /\ Drop(c) /\ UNCHANGED touched

\* logout does so whatever the answer was.
HearDelete(c) ==
  /\ In(c, "arrived", "delete")
  /\ LoadBy(c, "logout")

\* issueReplacementRecovery: not if the page has moved on, not if the cookie
\* was another owner's.
CardOf(c, from) == [owner |-> Caller(c), token |-> call[c].token, from |-> from]
TakeReplacement_Slip(c) ==
  Show(IF ~Done(c) THEN [tab EXCEPT !.failure = "yes"]
       ELSE IF Caller(c) # call[c].owner THEN Invalid(tab)
       ELSE [tab EXCEPT !.card = CardOf(c, "replacement")])
TakeReplacement(c) ==
  IF tab.turn # c THEN UNCHANGED tab
  ELSE Show(IF ~Done(c) THEN [tab EXCEPT !.failure = "yes"]
            ELSE IF Caller(c) # call[c].owner THEN Invalid(tab)
            ELSE [tab EXCEPT !.card = CardOf(c, "replacement")])
HearReplacement(c) ==
  /\ call[c].stage = "arrived" /\ call[c].by = "replacement"
  /\ TakeReplacement(c) /\ Drop(c)
  /\ UNCHANGED touched

\* FirstOrderRecoveryDelivery: onDelivered reaches the page even when the
\* component is gone; its own stage does not.
Delivered(c) == [tab EXCEPT !.delivery = Nobody, !.card = CardOf(c, "delivery")]
NextStep(c) ==
  IF Done(c) THEN "changed"
  ELSE IF call[c].kind = "rotate" THEN tab.step
  ELSE IF call[c].result = "already" THEN "rotate" ELSE "retry"
HearDelivery(c) ==
  /\ call[c].stage = "arrived" /\ call[c].by = "delivery"
  /\ IF Done(c) /\ Caller(c) = call[c].owner THEN Show(Delivered(c))
     ELSE IF tab.asked = c THEN Show([tab EXCEPT !.step = NextStep(c), !.asked = Nobody])
     ELSE UNCHANGED tab
  /\ Drop(c)
  /\ UNCHANGED touched

Hear(c) ==
  /\ HearLoad(c) \/ HearAccess(c) \/ HearDelete(c) \/ HearReplacement(c) \/ HearDelivery(c)
  /\ UNCHANGED <<serverVars, cookie, elsewhere, losses>>

-----------------------------------------------------------------------------
AccessNext ==
  \/ \E c \in Calls :
       \/ OpenPage(c) \/ Reload(c) \/ StartOwnerSession(c) \/ Recover(c) \/ Logout(c)
       \/ IssueReplacement(c) \/ Deliver(c)
       \/ Serve(c) \/ Arrive(c) \/ Lose(c) \/ Hear(c)
  \/ CloseCard \/ FirstOrder \/ Expired \/ Refused
  \/ \E s \in Sessions : ExpireSession(s) \/ \E o \in Owners : SwitchElsewhere(s, o)
  \/ \E o \in Owners : RotateElsewhere(o)

AccessSpec == AccessInit /\ [][AccessNext]_accessVars

-----------------------------------------------------------------------------
(* Properties.                                                             *)

AccessTypeOK ==
  /\ account \in [Sessions -> Owners \cup {Nobody}]
  /\ state \in [Sessions -> {"live", "revoked", "expired"}]
  /\ credential \in [Owners -> 0..MaxTokens] /\ tokens \in 1..MaxTokens
  /\ ordered \subseteq Owners
  /\ cookie \in Sessions \cup {Nobody}
  /\ tab \in Tab /\ call \in [Calls -> Call]
  /\ touched \in {"no", "yes"} /\ elsewhere \in 0..MaxElsewhere /\ losses \in 0..MaxLosses

\* A replacement credential is on the page only while it is its owner's: it
\* went to whom the page showed when it was asked for, and is gone with the
\* session, whichever tab, answer or clock has ended it (PilotApp.tsx:205).
ReplacementIsTheOwners ==
  tab.card.from = "replacement" =>
    /\ tab.card.owner = tab.user
    /\ tab.shown \in Owners => tab.shown = tab.user

\* The page shows whose session its cookie opens, when it waits for nothing
\* and no other tab has changed the cookie since it asked: whatever order the
\* answers to logging out, starting and recovering came in (PilotApp.tsx:70).
ShowsTheCookiesOwner ==
  /\ \A c \in Calls : call[c].stage = "free"
  /\ touched = "no"
  /\ tab.shown \in Owners /\ state[tab.held] = "live"
  => cookie # Nobody /\ account[cookie] = tab.shown

\* A credential is shown to its owner, whoever delivers it: as the tests say,
\* the session's end clears a pending one before its request resolves
\* (PilotApp.test.tsx:302).
CardIsItsOwners ==
  tab.card # NoCard /\ tab.shown \in Owners => tab.card.owner = tab.shown

=============================================================================
