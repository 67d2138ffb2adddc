------------------------- MODULE OwnerAccess_proofs -------------------------
(***************************************************************************)
(* The ways in that need no password, for every number of owners, calls,   *)
(* tabs, guests, commands, codes and attempts, and any limits.             *)
(*                                                                         *)
(* OwnerSession: what the page shows, and the card on it, are those of its *)
(* user.  It rests on what each call says of the session it was sent with  *)
(* (SessionsAreOpen), on the user the page had when it asked for a         *)
(* replacement (TurnIsTheOwners), and on the answers that have changed the *)
(* cookie and make the page ask again (CookieIsTold).                      *)
(*                                                                         *)
(* GuestLimiter: the limiter keeps the guests it creates within its rate   *)
(* and loses no wake-up.  The rate rests on what createdAt has forgotten   *)
(* (ForgottenAreOld) and on the sum that is limited (CountedStayBelow):    *)
(* the request that creates the guest after the limit still holds its own  *)
(* place in that sum, so the guest that many places back has been          *)
(* forgotten.  The wake-ups rest on the queue (QueueWaits): who is woken   *)
(* had waited, and waits no more.                                          *)
(*                                                                         *)
(* PilotInvites: setup makes one administrator, and a code lets in one.    *)
(***************************************************************************)
EXTENDS MCOwnerAccess, Sums, FiniteSetTheorems, SequenceTheorems, TLAPS

-----------------------------------------------------------------------------
(*  OwnerSession.                                                          *)

\* What a call of the page, or its answer, says of the session it came with.
AccessHonest(q) ==
  /\ q.cookie # Nobody => account[q.cookie] # Nobody
  /\ q.session # Nobody => account[q.session] # Nobody
  /\ q.by = "replacement" => q.kind = "rotate"
  /\ q.by = "delivery" => q.kind \in {"issue", "rotate"}
  /\ q.result = "done" /\ q.kind = "load" => q.cookie # Nobody /\ q.owner = account[q.cookie]
  /\ q.result = "done" /\ q.kind \in {"issue", "rotate"} => q.cookie # Nobody
SessionsAreOpen ==
  /\ cookie # Nobody => account[cookie] # Nobody
  /\ \A c \in Calls : AccessHonest(call[c])

\* The replacement that the page waits for is for the user it shows.
TurnIsTheOwners ==
  \A c \in Calls :
    call[c].stage # "free" /\ call[c].by = "replacement" /\ tab.turn = c
      => call[c].owner = tab.user

PageIsHonest ==
  /\ tab.shown \in Owners =>
       tab.shown = tab.user /\ tab.held # Nobody /\ account[tab.held] = tab.shown
  /\ tab.user = Nobody => tab.turn = Nobody /\ tab.card.from # "replacement"
  /\ tab.card.from = "replacement" => tab.card.owner = tab.user

\* An answer that has changed the cookie, which the page has yet to hear: it
\* will ask again whose session it is.
Moves(q) == q.stage = "arrived" /\ q.result = "done" /\ q.kind \in {"ensure", "recover", "delete"}

\* Session s is what the page was told, or will be told, of its cookie.
Told(s) ==
  \/ s = cookie
  \/ s # Nobody /\ state[s] # "live"
  \/ \E c \in Calls : Moves(call[c])
CookieIsTold ==
  touched = "no" =>
    /\ \A c \in Calls :
         call[c].stage # "free" /\ call[c].kind = "load" /\ tab.load = c => Told(call[c].cookie)
    /\ tab.shown \in Owners => Told(tab.held)

AccessInv ==
  AccessTypeOK /\ SessionsAreOpen /\ TurnIsTheOwners /\ PageIsHonest /\ CookieIsTold

-----------------------------------------------------------------------------
(* Lemmas about the operators of the model.                                *)

LEMMA FreeIsCall ==
  Free \in Call /\ Free.stage = "free" /\ ~Moves(Free) /\ Free.by = "page"
BY AccessAssumption DEF Free, Call, Moves

LEMMA SentIs ==
  ASSUME cookie \in Sessions \cup {Nobody},
         NEW kind \in {"load", "ensure", "recover", "delete", "issue", "rotate"},
         NEW by \in {"page", "link", "start", "logout", "replacement", "delivery"}
  PROVE  LET q == Sent(kind, by) IN
           /\ q \in Call /\ q.stage = "sent" /\ q.kind = kind /\ q.by = by
           /\ q.cookie = cookie /\ q.session = Nobody /\ q.result = "none"
<1>1. 0 \in 0..MaxTokens
  BY AccessAssumption
<1> QED
  BY <1>1 DEF Sent, Free, Call

LEMMA NoCardIs == NoCard \in Card
<1>1. 0 \in 0..MaxTokens
  BY AccessAssumption
<1> QED
  BY <1>1 DEF NoCard, Card

\* A component that appears or goes changes nothing else of the page.
SamePage(t, u) ==
  /\ t.shown = u.shown /\ t.held = u.held /\ t.user = u.user /\ t.load = u.load
  /\ t.turn = u.turn /\ t.card = u.card
LEMMA ShowIs ==
  ASSUME NEW t \in Tab, Show(t)
  PROVE  tab' \in Tab /\ SamePage(tab', t)
<1>1. [t EXCEPT !.step = "absent", !.asked = Nobody] \in Tab
  BY DEF Tab
<1> QED
  BY <1>1 DEF Show, Tab, SamePage

\* The page shows nobody's session.
Landed(t) ==
  /\ t.shown = "landing" /\ t.user = Nobody /\ t.load = Nobody /\ t.turn = Nobody
  /\ t.card = NoCard
LEMMA InvalidIs ==
  ASSUME NEW t \in Tab
  PROVE  Invalid(t) \in Tab /\ Landed(Invalid(t))
<1>1. NoCard \in Card
  BY NoCardIs
<1> QED
  BY <1>1 DEF Invalid, Clear, Tab, Landed

LEMMA ClearIs ==
  ASSUME NEW t \in Tab
  PROVE  LET u == Clear(t) IN
           /\ u \in Tab /\ u.turn = Nobody /\ u.card = NoCard
           /\ u.shown = t.shown /\ u.held = t.held /\ u.user = t.user /\ u.load = t.load
<1>1. NoCard \in Card
  BY NoCardIs
<1> QED
  BY <1>1 DEF Clear, Tab

LEMMA ShownIs ==
  ASSUME NEW t \in Tab
  PROVE  /\ "landing" \notin Owners /\ "loading" \notin Owners /\ Nobody \notin Owners
         /\ Content(t) \in {"workspace", "card", "delivery"} => t.shown \in Owners
         /\ NoCard.from # "replacement"
BY AccessAssumption DEF Content, Tab, NoCard

LEMMA SlotIs ==
  ASSUME AccessTypeOK, NEW c \in Calls, NEW r \in Call, Slot(c, r)
  PROVE  /\ call' \in [Calls -> Call] /\ call'[c] = r
         /\ \A d \in Calls : d # c => call'[d] = call[d]
BY DEF Slot, AccessTypeOK

LEMMA TypesStand ==
  ASSUME AccessTypeOK, UNCHANGED <<serverVars, cookie, elsewhere, losses>>,
         tab' \in Tab, call' \in [Calls -> Call], touched' \in {"no", "yes"}
  PROVE  AccessTypeOK'
BY DEF AccessTypeOK, serverVars

-----------------------------------------------------------------------------
(* The steps that leave the sessions and the cookie alone.                 *)

\* A slot that changes gets a call that asks for no session, or is free.
LEMMA PageMoves ==
  ASSUME AccessInv, AccessTypeOK', UNCHANGED <<account, state, cookie, touched>>,
         \A d \in Calls : Moves(call[d]) => Moves(call[d])',
         \A d \in Calls : \/ call'[d] = call[d]
                          \/ /\ AccessHonest(call[d])'
                             /\ call'[d].stage = "free" \/ call'[d].kind # "load",
         TurnIsTheOwners', PageIsHonest',
         tab'.load \in {tab.load, Nobody},
         tab'.shown \in Owners =>
           \/ tab'.shown = tab.shown /\ tab'.held = tab.held
           \/ touched = "no" => Told(tab'.held)
  PROVE  AccessInv'
<1>1. SessionsAreOpen'
  BY DEF AccessInv, SessionsAreOpen, AccessHonest
<1>2. \A s : Told(s) => Told(s)'
  BY DEF Told
<1>3. CookieIsTold'
  <2> SUFFICES ASSUME touched = "no"
               PROVE  /\ \A c \in Calls :
                           call'[c].stage # "free" /\ call'[c].kind = "load" /\ tab'.load = c
                             => Told(call[c].cookie)'
                      /\ tab'.shown \in Owners => Told(tab.held)'
    BY DEF CookieIsTold
  <2>1. ASSUME NEW c \in Calls, call'[c].stage # "free", call'[c].kind = "load", tab'.load = c
        PROVE  Told(call[c].cookie)'
    <3>1. call'[c] = call[c] /\ tab.load = c
      BY <2>1, AccessAssumption
    <3>2. Told(call[c].cookie)
      BY <2>1, <3>1 DEF AccessInv, CookieIsTold
    <3> QED
      BY <3>1, <3>2, <1>2 DEF Told
  <2>2. ASSUME tab'.shown \in Owners
        PROVE  Told(tab.held)'
    <3>1. PICK s : s = tab'.held
      OBVIOUS
    <3>2. Told(s)
      BY <2>2, <3>1 DEF AccessInv, CookieIsTold
    <3>3. Told(s)'
      BY <3>2, <1>2
    <3> QED
      BY <3>1, <3>3 DEF Told
  <2> QED
    BY <2>1, <2>2
<1> QED
  BY <1>1, <1>3 DEF AccessInv

\* The page keeps its user, or shows nobody.
LEMMA PageKeeps ==
  ASSUME AccessInv, tab' \in Tab,
         \A s \in Sessions : account[s] # Nobody => account'[s] = account[s],
         \/ /\ tab'.shown \in {tab.shown, "loading"} /\ tab'.held = tab.held
            /\ tab'.user = tab.user /\ tab'.turn = tab.turn
            /\ tab'.card = tab.card \/ tab'.card.from # "replacement"
         \/ Landed(tab')
  PROVE  PageIsHonest'
<1>1. tab \in Tab /\ "loading" \notin Owners /\ "landing" \notin Owners
      /\ Nobody \notin Owners /\ NoCard.from # "replacement"
  BY ShownIs DEF AccessInv, AccessTypeOK
<1>2. CASE Landed(tab')
  BY <1>1, <1>2 DEF Landed, PageIsHonest
<1>3. CASE /\ tab'.shown \in {tab.shown, "loading"} /\ tab'.held = tab.held
           /\ tab'.user = tab.user /\ tab'.turn = tab.turn
           /\ tab'.card = tab.card \/ tab'.card.from # "replacement"
  <2>1. tab'.shown \in Owners => account'[tab'.held] = tab'.shown
    <3>1. tab.held \in Sessions \cup {Nobody}
      BY <1>1 DEF Tab
    <3> QED
      BY <1>1, <1>3, <3>1 DEF AccessInv, PageIsHonest
  <2> QED
    BY <1>1, <1>3, <2>1 DEF AccessInv, PageIsHonest
<1> QED
  BY <1>2, <1>3

LEMMA TurnKeeps ==
  ASSUME AccessInv,
         \A d \in Calls : \/ call'[d] = call[d] \/ call'[d].stage = "free"
                          \/ call'[d].by # "replacement",
         tab'.turn = Nobody \/ (tab'.turn = tab.turn /\ tab'.user = tab.user)
  PROVE  TurnIsTheOwners'
BY AccessAssumption DEF AccessInv, TurnIsTheOwners

\* The same, for a page that keeps what it shows.
LEMMA PageGoesOn ==
  ASSUME AccessInv, AccessTypeOK', UNCHANGED <<account, state, cookie, touched>>,
         \A d \in Calls : Moves(call[d]) => Moves(call[d])',
         \A d \in Calls :
           \/ call'[d] = call[d]
           \/ /\ AccessHonest(call[d])'
              /\ call'[d].stage = "free" \/ (call'[d].kind # "load" /\ call'[d].by # "replacement"),
         \/ /\ tab'.shown = tab.shown /\ tab'.held = tab.held
            /\ tab'.user = tab.user /\ tab'.turn = tab.turn /\ tab'.load = tab.load
            /\ tab'.card = tab.card \/ tab'.card.from # "replacement"
         \/ Landed(tab')
  PROVE  AccessInv'
<1>1. tab' \in Tab
  BY DEF AccessTypeOK
<1>2. PageIsHonest'
  BY <1>1, PageKeeps
<1>3. tab'.turn = Nobody \/ (tab'.turn = tab.turn /\ tab'.user = tab.user)
  BY DEF Landed
<1>4. TurnIsTheOwners'
  BY <1>3, TurnKeeps
<1>5. tab'.load \in {tab.load, Nobody}
  BY DEF Landed
<1>6. tab'.shown \in Owners => tab'.shown = tab.shown /\ tab'.held = tab.held
  BY ShownIs DEF Landed, AccessInv, AccessTypeOK
<1> QED
  BY <1>2, <1>4, <1>5, <1>6, PageMoves

\* loadSession asks whose the cookie is, in a slot that was free or is now.
LEMMA LoadKeeps ==
  ASSUME AccessInv, NEW c \in Calls,
         NEW by \in {"page", "link", "start", "logout"}, LoadBy(c, by),
         UNCHANGED <<serverVars, cookie, elsewhere, losses>>
  PROVE  AccessInv'
<1>t. /\ AccessTypeOK /\ tab \in Tab /\ cookie \in Sessions \cup {Nobody} /\ Nobody \notin Calls
      /\ "loading" \notin Owners
  BY ShownIs, AccessAssumption DEF AccessInv, AccessTypeOK
<1>1. PICK r : r = Sent("load", by)
  OBVIOUS
<1>2. /\ r \in Call /\ r.stage = "sent" /\ r.kind = "load" /\ r.by = by
      /\ r.cookie = cookie /\ r.session = Nobody /\ r.result = "none"
  BY <1>1, <1>t, SentIs
<1>3. Slot(c, r)
  BY <1>1 DEF LoadBy
<1>4. /\ call' \in [Calls -> Call] /\ call'[c] = r
      /\ \A d \in Calls : d # c => call'[d] = call[d]
  BY <1>2, <1>3, <1>t, SlotIs
<1>5. PICK t : t = [tab EXCEPT !.load = c, !.shown = "loading", !.failure = "no"]
  OBVIOUS
<1>6. /\ t \in Tab /\ t.shown = "loading" /\ t.held = tab.held /\ t.user = tab.user
      /\ t.turn = tab.turn /\ t.card = tab.card /\ t.load = c
  BY <1>5, <1>t DEF Tab
<1>7. tab' \in Tab /\ SamePage(tab', t)
  BY <1>5, <1>6, ShowIs DEF LoadBy
<1>8. AccessTypeOK' /\ UNCHANGED <<account, state, cookie>> /\ touched' = "no"
  BY <1>4, <1>7, <1>t, TypesStand DEF LoadBy, serverVars
<1>9. PageIsHonest'
  BY <1>6, <1>7, <1>8, PageKeeps DEF SamePage
<1>10. TurnIsTheOwners'
  BY <1>2, <1>4, <1>6, <1>7, TurnKeeps DEF SamePage
<1>11. SessionsAreOpen'
  <2>1. cookie # Nobody => account[cookie] # Nobody
    BY DEF AccessInv, SessionsAreOpen
  <2>2. AccessHonest(r)'
    BY <1>2, <1>8, <2>1 DEF AccessHonest
  <2>3. ASSUME NEW d \in Calls PROVE AccessHonest(call[d])'
    <3>1. CASE d = c
      BY <2>2, <3>1, <1>4
    <3>2. CASE d # c
      BY <3>2, <1>4, <1>8 DEF AccessInv, SessionsAreOpen, AccessHonest
    <3> QED
      BY <3>1, <3>2
  <2> QED
    BY <2>1, <2>3, <1>8 DEF SessionsAreOpen
<1>12. CookieIsTold'
  BY <1>2, <1>4, <1>6, <1>7, <1>8, <1>t DEF CookieIsTold, Told, SamePage
<1> QED
  BY <1>8, <1>9, <1>10, <1>11, <1>12 DEF AccessInv

\* The page as it is, but for what its components do; or as Landed has it.
GoesOnAs(t) ==
  \/ /\ t.shown = tab.shown /\ t.held = tab.held
     /\ t.user = tab.user /\ t.turn = tab.turn /\ t.load = tab.load
     /\ t.card = tab.card \/ t.card.from # "replacement"
  \/ Landed(t)

\* A button of the page sends a call, or none.
LEMMA SendingKeeps ==
  ASSUME AccessInv, NEW c \in Calls, call[c] = Free,
         NEW r \in Call, r.stage = "sent", r.kind # "load", r.by # "replacement",
         r.by = "delivery" => r.kind \in {"issue", "rotate"},
         r.cookie = cookie, r.session = Nobody, r.result = "none", Slot(c, r),
         tab' \in Tab, GoesOnAs(tab'),
         UNCHANGED <<serverVars, cookie, touched, elsewhere, losses>>
  PROVE  AccessInv'
<1>1. /\ call' \in [Calls -> Call] /\ call'[c] = r
      /\ \A d \in Calls : d # c => call'[d] = call[d]
  BY SlotIs DEF AccessInv
<1>2. AccessTypeOK' /\ UNCHANGED <<account, state, cookie, touched>>
  BY <1>1, TypesStand DEF AccessInv, AccessTypeOK, serverVars
<1>3. \A d \in Calls : Moves(call[d]) => Moves(call[d])'
  BY <1>1, FreeIsCall DEF Moves
<1>4. cookie # Nobody => account[cookie] # Nobody
  BY DEF AccessInv, SessionsAreOpen
<1>5. AccessHonest(r)'
  BY <1>2, <1>4 DEF AccessHonest
<1>6. \A d \in Calls :
        \/ call'[d] = call[d]
        \/ /\ AccessHonest(call[d])'
           /\ call'[d].stage = "free" \/ (call'[d].kind # "load" /\ call'[d].by # "replacement")
  BY <1>1, <1>5 DEF AccessHonest
<1> QED
  BY <1>2, <1>3, <1>6, PageGoesOn DEF GoesOnAs

\* Another screen, with no call.
LEMMA ShowingKeeps ==
  ASSUME AccessInv, tab' \in Tab, GoesOnAs(tab'), UNCHANGED call,
         UNCHANGED <<account, state, credential, tokens, cookie, touched, elsewhere, losses>>,
         ordered' \subseteq Owners
  PROVE  AccessInv'
<1>1. AccessTypeOK'
  BY DEF AccessInv, AccessTypeOK
<1>2. \A d \in Calls : Moves(call[d]) => Moves(call[d])'
  BY DEF Moves
<1> QED
  BY <1>1, <1>2, PageGoesOn DEF GoesOnAs

\* A page that shows u instead, and u is as it is, or nobody's.
LEMMA ShowGoesOn ==
  ASSUME NEW u \in Tab, Show(u), GoesOnAs(u)
  PROVE  tab' \in Tab /\ GoesOnAs(tab')
BY ShowIs DEF GoesOnAs, SamePage, Landed

LEMMA ButtonsKeep ==
  ASSUME AccessInv, NEW c \in Calls,
         \/ OpenPage(c) \/ Reload(c) \/ StartOwnerSession(c) \/ Recover(c) \/ Logout(c)
         \/ Deliver(c)
  PROVE  AccessInv'
<1>t. /\ tab \in Tab /\ cookie \in Sessions \cup {Nobody} /\ GoesOnAs(tab)
      /\ tokens \in 1..MaxTokens /\ MaxTokens \in Nat
  BY AccessAssumption DEF AccessInv, AccessTypeOK, GoesOnAs
<1>i. Invalid(tab) \in Tab /\ GoesOnAs(Invalid(tab))
  BY <1>t, InvalidIs DEF GoesOnAs
<1>s. ASSUME NEW kind \in {"load", "ensure", "recover", "delete", "issue", "rotate"},
             NEW by \in {"page", "link", "start", "logout", "replacement", "delivery"}
      PROVE  LET q == Sent(kind, by) IN
               /\ q \in Call /\ q.stage = "sent" /\ q.kind = kind /\ q.by = by
               /\ q.cookie = cookie /\ q.session = Nobody /\ q.result = "none"
  BY <1>t, SentIs
\* Another token, or another owner, makes it no other call.
<1>k. ASSUME NEW q \in Call, NEW token \in 0..MaxTokens
      PROVE  LET r == [q EXCEPT !.token = token] IN
               /\ r \in Call /\ r.stage = q.stage /\ r.kind = q.kind /\ r.by = q.by
               /\ r.cookie = q.cookie /\ r.session = q.session /\ r.result = q.result
  BY DEF Call
<1>o. ASSUME NEW q \in Call, NEW o \in Owners \cup {Nobody}
      PROVE  LET r == [q EXCEPT !.owner = o] IN
               /\ r \in Call /\ r.stage = q.stage /\ r.kind = q.kind /\ r.by = q.by
               /\ r.cookie = q.cookie /\ r.session = q.session /\ r.result = q.result
  BY DEF Call
<1>1. CASE OpenPage(c)
  <2>1. CASE LoadBy(c, "page")
    BY <1>1, <2>1, LoadKeeps DEF OpenPage
  <2>2. CASE /\ Slot(c, [Sent("recover", "link") EXCEPT !.token = 1])
             /\ UNCHANGED <<tab, touched>>
    <3>1. PICK q : q = Sent("recover", "link")
      OBVIOUS
    <3>2. PICK r : r = [q EXCEPT !.token = 1]
      OBVIOUS
    <3>3. 1 \in 0..MaxTokens
      BY <1>t
    <3>4. /\ q \in Call /\ q.stage = "sent" /\ q.kind = "recover" /\ q.by = "link"
          /\ q.cookie = cookie /\ q.session = Nobody /\ q.result = "none"
      BY <3>1, <1>s
    <3>5. /\ r \in Call /\ r.stage = "sent" /\ r.kind = "recover" /\ r.by = "link"
          /\ r.cookie = cookie /\ r.session = Nobody /\ r.result = "none"
      BY <3>2, <3>3, <3>4, <1>k
    <3>6. Slot(c, r)
      BY <2>2, <3>1, <3>2
    <3>7. tab' \in Tab /\ GoesOnAs(tab')
      BY <2>2, <1>t
    <3> QED
      BY <1>1, <2>2, <3>5, <3>6, <3>7, SendingKeeps DEF OpenPage
  <2> QED
    BY <1>1, <2>1, <2>2 DEF OpenPage
<1>2. CASE Reload(c)
  BY <1>2, LoadKeeps DEF Reload
<1>3. CASE StartOwnerSession(c)
  <2>1. PICK r : r = Sent("ensure", "start")
    OBVIOUS
  <2>2. /\ r \in Call /\ r.stage = "sent" /\ r.kind = "ensure" /\ r.by = "start"
        /\ r.cookie = cookie /\ r.session = Nobody /\ r.result = "none"
    BY <2>1, <1>s
  <2>3. Slot(c, r) /\ tab' \in Tab /\ GoesOnAs(tab')
    BY <1>3, <2>1, <1>t DEF StartOwnerSession
  <2> QED
    BY <1>3, <2>2, <2>3, SendingKeeps DEF StartOwnerSession
<1>4. CASE Recover(c)
  <2>1. PICK q : q = Sent("recover", "page")
    OBVIOUS
  <2>2. PICK token \in 1..tokens : Slot(c, [q EXCEPT !.token = token])
    BY <1>4, <2>1 DEF Recover
  <2>3. PICK r : r = [q EXCEPT !.token = token]
    OBVIOUS
  <2>4. token \in 0..MaxTokens
    BY <1>t
  <2>5. /\ q \in Call /\ q.stage = "sent" /\ q.kind = "recover" /\ q.by = "page"
        /\ q.cookie = cookie /\ q.session = Nobody /\ q.result = "none"
    BY <2>1, <1>s
  <2>6. /\ r \in Call /\ r.stage = "sent" /\ r.kind = "recover" /\ r.by = "page"
        /\ r.cookie = cookie /\ r.session = Nobody /\ r.result = "none"
    BY <2>3, <2>4, <2>5, <1>k
  <2>7. Slot(c, r) /\ Show(Invalid(tab))
    BY <1>4, <2>2, <2>3 DEF Recover
  <2>8. tab' \in Tab /\ GoesOnAs(tab')
    BY <2>7, <1>i, ShowGoesOn
  <2> QED
    BY <1>4, <2>6, <2>7, <2>8, SendingKeeps DEF Recover
<1>5. CASE Logout(c)
  <2>1. PICK r : r = Sent("delete", "logout")
    OBVIOUS
  <2>2. /\ r \in Call /\ r.stage = "sent" /\ r.kind = "delete" /\ r.by = "logout"
        /\ r.cookie = cookie /\ r.session = Nobody /\ r.result = "none"
    BY <2>1, <1>s
  <2>3. Slot(c, r) /\ Show(Invalid(tab))
    BY <1>5, <2>1 DEF Logout
  <2>4. tab' \in Tab /\ GoesOnAs(tab')
    BY <2>3, <1>i, ShowGoesOn
  <2> QED
    BY <1>5, <2>2, <2>3, <2>4, SendingKeeps DEF Logout
<1>6. CASE Deliver(c)
  <2>1. PICK kind \in {"issue", "rotate"} :
          Slot(c, [Sent(kind, "delivery") EXCEPT !.owner = tab.delivery])
    BY <1>6 DEF Deliver
  <2>2. PICK q : q = Sent(kind, "delivery")
    OBVIOUS
  <2>3. PICK r : r = [q EXCEPT !.owner = tab.delivery]
    OBVIOUS
  <2>4. /\ q \in Call /\ q.stage = "sent" /\ q.kind = kind /\ q.by = "delivery"
        /\ q.cookie = cookie /\ q.session = Nobody /\ q.result = "none"
    BY <2>2, <1>s
  <2>5. tab.delivery \in Owners \cup {Nobody}
    BY <1>t DEF Tab
  <2>6. /\ r \in Call /\ r.stage = "sent" /\ r.kind = kind /\ r.by = "delivery"
        /\ r.cookie = cookie /\ r.session = Nobody /\ r.result = "none"
    BY <2>3, <2>4, <2>5, <1>o
  <2>7. PICK t : t = [tab EXCEPT !.asked = c, !.step = IF @ = "absent" THEN "issuing" ELSE @]
    OBVIOUS
  <2>8. t \in Tab /\ GoesOnAs(t)
    <3>1. PICK step \in {"absent", "issuing", "retry", "rotate", "changed"} :
            t = [tab EXCEPT !.asked = c, !.step = step]
      BY <1>t, <2>7 DEF Tab
    <3>2. tab \in Tab
      BY <1>t
    <3>3. /\ t \in Tab /\ t.shown = tab.shown /\ t.held = tab.held /\ t.user = tab.user
          /\ t.turn = tab.turn /\ t.load = tab.load /\ t.card = tab.card
      BY ONLY <3>1, <3>2, c \in Calls DEF Tab
    <3> QED
      BY <3>3 DEF GoesOnAs
  <2>9. Slot(c, r) /\ Show(t)
    BY <1>6, <2>1, <2>2, <2>3, <2>7 DEF Deliver
  <2>10. tab' \in Tab /\ GoesOnAs(tab')
    BY <2>8, <2>9, ShowGoesOn
  <2> QED
    BY <1>6, <2>6, <2>9, <2>10, SendingKeeps DEF Deliver
<1> QED
  BY <1>1, <1>2, <1>3, <1>4, <1>5, <1>6

LEMMA ScreensKeep ==
  ASSUME AccessInv, CloseCard \/ FirstOrder \/ Expired \/ Refused
  PROVE  AccessInv'
<1>t. tab \in Tab /\ ordered \subseteq Owners
  BY DEF AccessInv, AccessTypeOK
<1>i. Invalid(tab) \in Tab /\ Landed(Invalid(tab))
  BY <1>t, InvalidIs
<1>1. CASE CloseCard
  <2>1. PICK t : t = [tab EXCEPT !.card = NoCard]
    OBVIOUS
  <2>2. t \in Tab /\ GoesOnAs(t)
    BY <2>1, <1>t, NoCardIs, ShownIs DEF Tab, GoesOnAs
  <2>3. tab' \in Tab /\ GoesOnAs(tab')
    BY <1>1, <2>1, <2>2, ShowGoesOn DEF CloseCard
  <2> QED
    BY <1>1, <1>t, <2>3, ShowingKeeps DEF CloseCard, serverVars
<1>2. CASE FirstOrder
  <2>1. PICK t : t = [tab EXCEPT !.delivery = tab.shown]
    OBVIOUS
  <2>2. tab.shown \in Owners
    <3>1. Content(tab) = "workspace"
      BY <1>2 DEF FirstOrder, Screen
    <3> QED
      BY <3>1, <1>t, ShownIs
  <2>3. t \in Tab /\ GoesOnAs(t)
    BY <2>1, <2>2, <1>t DEF Tab, GoesOnAs
  <2>4. tab' \in Tab /\ GoesOnAs(tab')
    BY <1>2, <2>1, <2>3, ShowGoesOn DEF FirstOrder
  <2> QED
    BY <1>2, <1>t, <2>2, <2>4, ShowingKeeps DEF FirstOrder
<1>3. CASE Expired
  <2>1. tab' \in Tab /\ GoesOnAs(tab')
    BY <1>3, <1>i, ShowGoesOn DEF Expired, GoesOnAs
  <2> QED
    BY <1>3, <1>t, <2>1, ShowingKeeps DEF Expired, serverVars
<1>4. CASE Refused
  <2>1. PICK t : t = [Invalid(tab) EXCEPT !.failure = "no"]
    OBVIOUS
  <2>2. t \in Tab /\ GoesOnAs(t)
    BY <2>1, <1>i DEF Tab, GoesOnAs, Landed
  <2>3. tab' \in Tab /\ GoesOnAs(tab')
    BY <1>4, <2>1, <2>2, ShowGoesOn DEF Refused
  <2> QED
    BY <1>4, <1>t, <2>3, ShowingKeeps DEF Refused, serverVars
<1> QED
  BY <1>1, <1>2, <1>3, <1>4

\* The page asks for a replacement for its user, and waits for that one.
LEMMA ReplacingKeeps ==
  ASSUME AccessInv, NEW c \in Calls, IssueReplacement(c)
  PROVE  AccessInv'
<1>t. /\ AccessTypeOK /\ tab \in Tab /\ cookie \in Sessions \cup {Nobody}
      /\ tab.user \in Owners \cup {Nobody} /\ tab.user # Nobody /\ call[c] = Free
  BY DEF AccessInv, AccessTypeOK, Tab, IssueReplacement
<1>1. PICK q : q = Sent("rotate", "replacement")
  OBVIOUS
<1>2. PICK r : r = [q EXCEPT !.owner = tab.user]
  OBVIOUS
<1>3. /\ q \in Call /\ q.stage = "sent" /\ q.kind = "rotate" /\ q.by = "replacement"
      /\ q.cookie = cookie /\ q.session = Nobody /\ q.result = "none"
  BY <1>1, <1>t, SentIs
<1>4. /\ r \in Call /\ r.stage = "sent" /\ r.kind = "rotate" /\ r.by = "replacement"
      /\ r.cookie = cookie /\ r.session = Nobody /\ r.result = "none" /\ r.owner = tab.user
  BY <1>2, <1>3, <1>t DEF Call
<1>5. PICK t : t = [tab EXCEPT !.turn = c]
  OBVIOUS
<1>6. /\ t \in Tab /\ t.shown = tab.shown /\ t.held = tab.held /\ t.user = tab.user
      /\ t.load = tab.load /\ t.turn = c /\ t.card = tab.card
  BY <1>5, <1>t DEF Tab
<1>7. /\ Slot(c, r) /\ Show(t)
      /\ UNCHANGED <<serverVars, cookie, touched, elsewhere, losses>>
  BY <1>1, <1>2, <1>5 DEF IssueReplacement
<1>8. tab' \in Tab /\ SamePage(tab', t)
  BY <1>6, <1>7, ShowIs
<1>9. /\ call' \in [Calls -> Call] /\ call'[c] = r
      /\ \A d \in Calls : d # c => call'[d] = call[d]
  BY <1>4, <1>7, <1>t, SlotIs
<1>10. AccessTypeOK' /\ UNCHANGED <<account, state, cookie, touched>>
  BY <1>7, <1>8, <1>9, <1>t, TypesStand DEF AccessTypeOK, serverVars
<1>11. \A d \in Calls : Moves(call[d]) => Moves(call[d])'
  BY <1>9, <1>t, FreeIsCall DEF Moves
<1>12. cookie # Nobody => account[cookie] # Nobody
  BY DEF AccessInv, SessionsAreOpen
<1>13. AccessHonest(r)'
  BY <1>4, <1>10, <1>12 DEF AccessHonest
<1>14. \A d \in Calls : \/ call'[d] = call[d]
                        \/ AccessHonest(call[d])' /\ call'[d].kind # "load"
  BY <1>4, <1>9, <1>13 DEF AccessHonest
<1>15. TurnIsTheOwners'
  BY <1>4, <1>6, <1>8, <1>9 DEF TurnIsTheOwners, SamePage
<1>16. PageIsHonest'
  BY <1>6, <1>8, <1>10, <1>t DEF PageIsHonest, SamePage, AccessInv
<1>17. tab'.load = tab.load /\ tab'.shown = tab.shown /\ tab'.held = tab.held
  BY <1>6, <1>8 DEF SamePage
<1> QED
  BY <1>10, <1>11, <1>14, <1>15, <1>16, <1>17, PageMoves

-----------------------------------------------------------------------------
(* The API, the network and the other tabs.                                *)

\* No session changes its owner, and none comes to life again.
Lasts ==
  \A s \in Sessions : /\ account[s] # Nobody => account'[s] = account[s]
                      /\ state[s] # "live" => state'[s] # "live"

LEMMA ToldLasts ==
  ASSUME AccessTypeOK, Lasts, NEW s \in Sessions \cup {Nobody}, Told(s),
         \A d \in Calls : Moves(call[d]) => Moves(call[d])',
         \/ cookie' = cookie
         \/ \E d \in Calls : Moves(call[d])'
         \/ cookie \in Sessions /\ state'[cookie] # "live"
  PROVE  Told(s)'
BY AccessAssumption DEF Told, Lasts

\* A call goes on, and the page has not seen it yet.
LEMMA ServingKeeps ==
  ASSUME AccessInv, AccessTypeOK', Lasts, UNCHANGED <<tab, touched>>,
         NEW c \in Calls, NEW r, call'[c] = r, call[c].stage # "free",
         \A d \in Calls : d # c => call'[d] = call[d],
         ~Moves(call[c]), AccessHonest(r)',
         r.kind = call[c].kind, r.by = call[c].by, r.cookie = call[c].cookie,
         r.owner = call[c].owner \/ r.kind = "load",
         cookie' = cookie \/ Moves(r),
         cookie' # Nobody => account'[cookie'] # Nobody
  PROVE  AccessInv'
<1>t. /\ AccessTypeOK /\ call \in [Calls -> Call] /\ tab \in Tab
      /\ cookie \in Sessions \cup {Nobody}
  BY DEF AccessInv, AccessTypeOK
<1>1. SessionsAreOpen'
  <2>1. ASSUME NEW d \in Calls, d # c PROVE AccessHonest(call[d])'
    <3>1. PICK q \in Call : q = call[d] /\ q = call'[d]
      BY <1>t, <2>1
    <3>2. AccessHonest(q)
      BY <3>1 DEF AccessInv, SessionsAreOpen
    <3>3. q.cookie \in Sessions \cup {Nobody} /\ q.session \in Sessions \cup {Nobody}
      BY DEF Call
    <3>4. AccessHonest(q)'
      BY <3>2, <3>3 DEF AccessHonest, Lasts
    <3> QED
      BY <3>1, <3>4
  <2> QED
    BY <2>1 DEF SessionsAreOpen
<1>2. TurnIsTheOwners'
  <2>1. r.by = "replacement" => r.kind = "rotate"
    BY DEF AccessHonest
  <2> QED
    BY <2>1 DEF AccessInv, TurnIsTheOwners
<1>3. PageIsHonest'
  BY <1>t, PageKeeps DEF Lasts
<1>4. CookieIsTold'
  <2> SUFFICES ASSUME touched = "no"
               PROVE  /\ \A d \in Calls :
                           call'[d].stage # "free" /\ call'[d].kind = "load" /\ tab.load = d
                             => Told(call[d].cookie)'
                      /\ tab.shown \in Owners => Told(tab.held)'
    BY DEF CookieIsTold
  <2>1. /\ \A d \in Calls : Moves(call[d]) => Moves(call[d])'
        /\ cookie' = cookie \/ \E d \in Calls : Moves(call[d])'
    BY DEF Moves
  <2>2. ASSUME NEW d \in Calls, call'[d].stage # "free", call'[d].kind = "load", tab.load = d
        PROVE  Told(call[d].cookie)'
    <3>1. PICK s \in Sessions \cup {Nobody} : s = call[d].cookie
      BY <1>t DEF Call
    <3>2. s = call'[d].cookie /\ call[d].stage # "free" /\ call[d].kind = "load"
      BY <2>2, <3>1
    <3>3. Told(s)
      BY <2>2, <3>1, <3>2 DEF AccessInv, CookieIsTold
    <3>4. Told(s)'
      BY <3>3, <2>1, <1>t, ToldLasts
    <3> QED
      BY <3>2, <3>4 DEF Told
  <2>3. ASSUME tab.shown \in Owners
        PROVE  Told(tab.held)'
    <3>1. PICK s \in Sessions \cup {Nobody} : s = tab.held
      BY <1>t DEF Tab
    <3>2. Told(s)
      BY <2>3, <3>1 DEF AccessInv, CookieIsTold
    <3>3. Told(s)'
      BY <3>2, <2>1, <1>t, ToldLasts
    <3> QED
      BY <3>1, <3>3 DEF Told
  <2> QED
    BY <2>2, <2>3
<1> QED
  BY <1>1, <1>2, <1>3, <1>4 DEF AccessInv

\* The sessions change, no call and no page: the cookie stays, or is the one of
\* a session that has run out, or another tab has changed it.
LEMMA OutsideKeeps ==
  ASSUME AccessInv, AccessTypeOK', Lasts, UNCHANGED <<tab, call>>,
         \/ touched' = "yes"
         \/ /\ touched' = touched
            /\ cookie' = cookie \/ (cookie \in Sessions /\ state'[cookie] # "live"),
         cookie' # Nobody => account'[cookie'] # Nobody
  PROVE  AccessInv'
<1>t. /\ AccessTypeOK /\ call \in [Calls -> Call] /\ tab \in Tab
      /\ cookie \in Sessions \cup {Nobody}
  BY DEF AccessInv, AccessTypeOK
<1>1. SessionsAreOpen'
  <2>1. ASSUME NEW d \in Calls PROVE AccessHonest(call[d])'
    <3>1. PICK q \in Call : q = call[d] /\ q = call'[d]
      BY <1>t
    <3>2. AccessHonest(q)
      BY <3>1 DEF AccessInv, SessionsAreOpen
    <3>3. q.cookie \in Sessions \cup {Nobody} /\ q.session \in Sessions \cup {Nobody}
      BY DEF Call
    <3>4. AccessHonest(q)'
      BY <3>2, <3>3 DEF AccessHonest, Lasts
    <3> QED
      BY <3>1, <3>4
  <2> QED
    BY <2>1 DEF SessionsAreOpen
<1>2. TurnIsTheOwners'
  BY DEF AccessInv, TurnIsTheOwners
<1>3. PageIsHonest'
  BY <1>t, PageKeeps DEF Lasts
<1>4. CookieIsTold'
  <2> SUFFICES ASSUME touched' = "no"
               PROVE  /\ \A d \in Calls :
                           call[d].stage # "free" /\ call[d].kind = "load" /\ tab.load = d
                             => Told(call[d].cookie)'
                      /\ tab.shown \in Owners => Told(tab.held)'
    BY DEF CookieIsTold
  <2>1. /\ \A d \in Calls : Moves(call[d]) => Moves(call[d])'
        /\ cookie' = cookie \/ (cookie \in Sessions /\ state'[cookie] # "live")
        /\ touched = "no"
    BY DEF Moves
  <2>2. ASSUME NEW d \in Calls, call[d].stage # "free", call[d].kind = "load", tab.load = d
        PROVE  Told(call[d].cookie)'
    <3>1. PICK s \in Sessions \cup {Nobody} : s = call[d].cookie /\ s = call'[d].cookie
      BY <1>t DEF Call
    <3>2. Told(s)
      BY <2>1, <2>2, <3>1 DEF AccessInv, CookieIsTold
    <3>3. Told(s)'
      BY <3>2, <2>1, <1>t, ToldLasts
    <3> QED
      BY <3>1, <3>3 DEF Told
  <2>3. ASSUME tab.shown \in Owners
        PROVE  Told(tab.held)'
    <3>1. PICK s \in Sessions \cup {Nobody} : s = tab.held
      BY <1>t DEF Tab
    <3>2. Told(s)
      BY <2>1, <2>3, <3>1 DEF AccessInv, CookieIsTold
    <3>3. Told(s)'
      BY <3>2, <2>1, <1>t, ToldLasts
    <3> QED
      BY <3>1, <3>3 DEF Told
  <2> QED
    BY <2>2, <2>3
<1> QED
  BY <1>1, <1>2, <1>3, <1>4 DEF AccessInv

-----------------------------------------------------------------------------
(* A call is answered, lost, or arrives.                                   *)

\* A call is served with q: what q says of its sessions is so afterwards.
LEMMA AnswerKeeps ==
  ASSUME AccessInv, NEW c \in Calls, call[c].stage = "sent",
         NEW q \in Call, Answer(c, q), Lasts,
         q.kind = call[c].kind, q.by = call[c].by, q.cookie = call[c].cookie,
         q.owner = call[c].owner \/ q.kind = "load",
         q.session # Nobody => account'[q.session] # Nobody,
         q.result = "done" /\ q.kind = "load" => q.cookie # Nobody /\ q.owner = account[q.cookie],
         q.result = "done" /\ q.kind \in {"issue", "rotate"} => q.cookie # Nobody,
         account' \in [Sessions -> Owners \cup {Nobody}],
         state' \in [Sessions -> {"live", "revoked", "expired"}],
         credential' \in [Owners -> 0..MaxTokens], tokens' \in 1..MaxTokens,
         UNCHANGED <<ordered, cookie, tab, touched, elsewhere, losses>>
  PROVE  AccessInv'
<1>t. AccessTypeOK /\ cookie \in Sessions \cup {Nobody}
  BY DEF AccessInv, AccessTypeOK
<1>1. PICK r : r = [q EXCEPT !.stage = "answered"]
  OBVIOUS
<1>2. /\ r \in Call /\ r.stage = "answered" /\ r.kind = q.kind /\ r.by = q.by
      /\ r.cookie = q.cookie /\ r.owner = q.owner /\ r.session = q.session
      /\ r.result = q.result
  BY <1>1 DEF Call
<1>3. Slot(c, r)
  BY <1>1 DEF Answer
<1>4. /\ call' \in [Calls -> Call] /\ call'[c] = r
      /\ \A d \in Calls : d # c => call'[d] = call[d]
  BY <1>2, <1>3, <1>t, SlotIs
<1>5. AccessTypeOK'
  BY <1>4, <1>t DEF AccessTypeOK
<1>6. \A s \in Sessions : account[s] # Nobody => account'[s] = account[s] /\ account'[s] # Nobody
  BY DEF Lasts
<1>7. AccessHonest(r)'
  <2>1. AccessHonest(call[c])
    BY DEF AccessInv, SessionsAreOpen
  <2>2. r.cookie \in Sessions \cup {Nobody}
    BY <1>2 DEF Call
  <2> QED
    BY <1>2, <1>6, <2>1, <2>2 DEF AccessHonest
<1>8. cookie # Nobody => account'[cookie] # Nobody
  BY <1>6, <1>t DEF AccessInv, SessionsAreOpen
<1>9. ~Moves(call[c])
  BY DEF Moves
<1> QED
  BY <1>2, <1>4, <1>5, <1>7, <1>8, <1>9, ServingKeeps

\* Refused, the call says no more of a session than it did.
LEMMA RejectKeeps ==
  ASSUME AccessInv, NEW c \in Calls, call[c].stage = "sent",
         NEW result \in {"done", "unauthenticated", "already", "failed"}, Reject(c, result),
         result = "done" => call[c].kind \in {"ensure", "recover", "delete"},
         Lasts, state' \in [Sessions -> {"live", "revoked", "expired"}],
         UNCHANGED <<account, credential, tokens, ordered, cookie, tab, touched, elsewhere, losses>>
  PROVE  AccessInv'
<1>t. call[c] \in Call
  BY DEF AccessInv, AccessTypeOK
<1>1. PICK q : q = [call[c] EXCEPT !.result = result]
  OBVIOUS
<1>2. /\ q \in Call /\ q.kind = call[c].kind /\ q.by = call[c].by
      /\ q.cookie = call[c].cookie /\ q.owner = call[c].owner /\ q.session = call[c].session
      /\ q.result = result
  BY <1>1, <1>t DEF Call
<1>3. Answer(c, q)
  BY <1>1 DEF Reject
<1>4. q.session # Nobody => account'[q.session] # Nobody
  BY <1>2 DEF AccessInv, SessionsAreOpen, AccessHonest
<1>5. /\ account' \in [Sessions -> Owners \cup {Nobody}]
      /\ credential' \in [Owners -> 0..MaxTokens] /\ tokens' \in 1..MaxTokens
  BY DEF AccessInv, AccessTypeOK
<1> QED
  BY <1>2, <1>3, <1>4, <1>5, AnswerKeeps

\* The session that an answer opens was nobody's.
LEMMA OpeningKeeps ==
  ASSUME AccessInv, NEW c \in Calls, call[c].stage = "sent", NEW o \in Owners, OpenSession(c, o),
         call[c].kind \in {"ensure", "recover"},
         UNCHANGED <<state, credential, tokens, ordered, cookie, tab, touched, elsewhere, losses>>
  PROVE  AccessInv'
<1>t. /\ call[c] \in Call /\ account \in [Sessions -> Owners \cup {Nobody}]
      /\ Nobody \notin Owners
  BY AccessAssumption DEF AccessInv, AccessTypeOK
<1>1. PICK s \in Sessions :
        /\ account[s] = Nobody
        /\ account' = [account EXCEPT ![s] = o]
        /\ Answer(c, [call[c] EXCEPT !.result = "done", !.session = s])
  BY DEF OpenSession
<1>2. PICK q : q = [call[c] EXCEPT !.result = "done", !.session = s]
  OBVIOUS
<1>3. /\ q \in Call /\ q.kind = call[c].kind /\ q.by = call[c].by
      /\ q.cookie = call[c].cookie /\ q.owner = call[c].owner /\ q.session = s
  BY <1>2, <1>t DEF Call
<1>4. /\ account' \in [Sessions -> Owners \cup {Nobody}] /\ account'[s] = o
      /\ \A r \in Sessions : r # s => account'[r] = account[r]
  BY <1>1, <1>t
<1>5. Lasts
  BY <1>1, <1>4 DEF Lasts
<1>6. Answer(c, q)
  BY <1>1, <1>2
<1>7. /\ state' \in [Sessions -> {"live", "revoked", "expired"}]
      /\ credential' \in [Owners -> 0..MaxTokens] /\ tokens' \in 1..MaxTokens
  BY DEF AccessInv, AccessTypeOK
<1> QED
  BY <1>3, <1>4, <1>5, <1>6, <1>7, <1>t, AnswerKeeps

LEMMA ServedKeeps ==
  ASSUME AccessInv, NEW c \in Calls, Serve(c)
  PROVE  AccessInv'
<1>t. /\ AccessTypeOK /\ call[c] \in Call
      /\ UNCHANGED <<cookie, tab, touched, elsewhere, losses>>
  BY DEF AccessInv, AccessTypeOK, Serve
<1>k. call[c].cookie \in Sessions \cup {Nobody}
  BY <1>t DEF Call
<1>1. CASE ServeLoad(c)
  <2>s. call[c].stage = "sent" /\ call[c].kind = "load" /\ UNCHANGED serverVars
    BY <1>1 DEF ServeLoad, In
  <2>n. Lasts /\ UNCHANGED <<account, state, credential, tokens, ordered>>
    BY <2>s DEF Lasts, serverVars
  <2>1. CASE Authentic(c)
    <3>1. PICK o : o = account[call[c].cookie]
      OBVIOUS
    <3>2. o \in Owners \cup {Nobody} /\ call[c].cookie # Nobody
      BY <3>1, <2>1, <1>t, <1>k DEF AccessTypeOK, Authentic
    <3>3. PICK q : q = [call[c] EXCEPT !.result = "done", !.owner = o]
      OBVIOUS
    <3>4. /\ q \in Call /\ q.kind = "load" /\ q.by = call[c].by
          /\ q.cookie = call[c].cookie /\ q.owner = o /\ q.session = call[c].session
      BY <3>2, <3>3, <1>t, <2>s DEF Call
    <3>5. Answer(c, q)
      BY <1>1, <2>1, <3>1, <3>3 DEF ServeLoad, Caller
    <3>6. q.session # Nobody => account'[q.session] # Nobody
      BY <3>4, <2>n DEF AccessInv, SessionsAreOpen, AccessHonest
    <3>7. /\ account' \in [Sessions -> Owners \cup {Nobody}]
          /\ state' \in [Sessions -> {"live", "revoked", "expired"}]
          /\ credential' \in [Owners -> 0..MaxTokens] /\ tokens' \in 1..MaxTokens
      BY <1>t, <2>n DEF AccessTypeOK
    <3> QED
      BY <3>1, <3>2, <3>4, <3>5, <3>6, <3>7, <2>s, <2>n, <1>t, AnswerKeeps
  <2>2. CASE ~Authentic(c)
    <3>1. Reject(c, "unauthenticated")
      BY <1>1, <2>2 DEF ServeLoad
    <3>2. state' \in [Sessions -> {"live", "revoked", "expired"}]
      BY <1>t, <2>n DEF AccessTypeOK
    <3> QED
      BY <3>1, <3>2, <2>s, <2>n, <1>t, RejectKeeps
  <2> QED
    BY <2>1, <2>2
<1>2. CASE ServeEnsure(c)
  <2>s. /\ call[c].stage = "sent" /\ call[c].kind = "ensure"
        /\ UNCHANGED <<state, credential, tokens, ordered>>
    BY <1>2 DEF ServeEnsure, In
  <2>1. CASE call[c].cookie # Nobody
    <3>1. PICK result \in {"done", "unauthenticated"} : Reject(c, result) /\ UNCHANGED account
      BY <1>2, <2>1 DEF ServeEnsure
    <3>2. Lasts /\ state' \in [Sessions -> {"live", "revoked", "expired"}]
      BY <1>t, <2>s, <3>1 DEF AccessTypeOK, Lasts
    <3> QED
      BY <3>1, <3>2, <2>s, <1>t, RejectKeeps
  <2>2. CASE call[c].cookie = Nobody
    BY <1>2, <2>2, <2>s, <1>t, OpeningKeeps DEF ServeEnsure
  <2> QED
    BY <2>1, <2>2
<1>3. CASE ServeRecover(c)
  <2>s. /\ call[c].stage = "sent" /\ call[c].kind = "recover"
        /\ UNCHANGED <<state, credential, tokens, ordered>>
    BY <1>3 DEF ServeRecover, In
  <2>1. CASE Reject(c, "failed") /\ UNCHANGED account
    <3>1. Lasts /\ state' \in [Sessions -> {"live", "revoked", "expired"}]
      BY <1>t, <2>s, <2>1 DEF AccessTypeOK, Lasts
    <3> QED
      BY <3>1, <2>1, <2>s, <1>t, RejectKeeps
  <2>2. CASE \E o \in Owners : OpenSession(c, o)
    BY <2>2, <2>s, <1>t, OpeningKeeps
  <2> QED
    BY <1>3, <2>1, <2>2 DEF ServeRecover
<1>4. CASE ServeDelete(c)
  <2>s. /\ call[c].stage = "sent" /\ call[c].kind = "delete"
        /\ UNCHANGED <<account, credential, tokens, ordered>>
    BY <1>4 DEF ServeDelete, In
  <2>1. CASE Authentic(c)
    <3>1. state' = [state EXCEPT ![call[c].cookie] = "revoked"] /\ Reject(c, "done")
      BY <1>4, <2>1 DEF ServeDelete
    <3>2. Lasts /\ state' \in [Sessions -> {"live", "revoked", "expired"}]
      BY <3>1, <1>t, <1>k, <2>s DEF AccessTypeOK, Lasts
    <3> QED
      BY <3>1, <3>2, <2>s, <1>t, RejectKeeps
  <2>2. CASE ~Authentic(c)
    <3>1. Reject(c, "unauthenticated") /\ UNCHANGED state
      BY <1>4, <2>2 DEF ServeDelete
    <3>2. Lasts /\ state' \in [Sessions -> {"live", "revoked", "expired"}]
      BY <3>1, <1>t, <2>s DEF AccessTypeOK, Lasts
    <3> QED
      BY <3>1, <3>2, <2>s, <1>t, RejectKeeps
  <2> QED
    BY <2>1, <2>2
<1>5. CASE ServeRecovery(c)
  <2>s. /\ call[c].stage = "sent" /\ call[c].kind \in {"issue", "rotate"}
        /\ UNCHANGED <<account, state, ordered>>
    BY <1>5 DEF ServeRecovery
  <2>n. Lasts /\ state' \in [Sessions -> {"live", "revoked", "expired"}]
    BY <1>t, <2>s DEF AccessTypeOK, Lasts
  <2>1. CASE /\ Reject(c, "unauthenticated") \/ Reject(c, "already")
             /\ UNCHANGED <<credential, tokens>>
    BY <2>1, <2>s, <2>n, <1>t, RejectKeeps
  <2>2. CASE /\ Authentic(c) /\ WriteToken(c, Caller(c))
             /\ Answer(c, [call[c] EXCEPT !.result = "done", !.token = tokens + 1])
    <3>1. /\ tokens' \in 1..MaxTokens /\ tokens' = tokens + 1 /\ tokens' \in 0..MaxTokens
          /\ credential' \in [Owners -> 0..MaxTokens]
      <4>1. tokens \in 1..MaxTokens /\ MaxTokens \in Nat /\ tokens < MaxTokens
        BY <1>t, <2>2, AccessAssumption DEF AccessTypeOK, WriteToken
      <4>2. tokens + 1 \in 1..MaxTokens /\ tokens + 1 \in 0..MaxTokens
        BY <4>1
      <4> QED
        BY <4>2, <2>2, <1>t DEF WriteToken, AccessTypeOK
    <3>2. PICK q : q = [call[c] EXCEPT !.result = "done", !.token = tokens + 1]
      OBVIOUS
    <3>3. /\ q \in Call /\ q.kind = call[c].kind /\ q.by = call[c].by
          /\ q.cookie = call[c].cookie /\ q.owner = call[c].owner /\ q.session = call[c].session
      <4>1. PICK token \in 0..MaxTokens : token = tokens + 1
        BY <3>1
      <4> QED
        BY <3>2, <4>1, <1>t DEF Call
    <3>4. Answer(c, q)
      BY <2>2, <3>2
    <3>5. q.session # Nobody => account'[q.session] # Nobody
      BY <3>3, <2>s DEF AccessInv, SessionsAreOpen, AccessHonest
    <3>6. q.cookie # Nobody /\ account' \in [Sessions -> Owners \cup {Nobody}] /\ q.kind # "load"
      BY <2>2, <2>s, <3>3, <1>t DEF Authentic, AccessTypeOK
    <3> QED
      BY <3>1, <3>3, <3>4, <3>5, <3>6, <2>s, <2>n, <1>t, AnswerKeeps
  <2> QED
    BY <1>5, <2>1, <2>2 DEF ServeRecovery
<1> QED
  BY <1>1, <1>2, <1>3, <1>4, <1>5 DEF Serve

\* The browser takes the cookie of the answer; the page will ask whose it is.
LEMMA ArrivingKeeps ==
  ASSUME AccessInv, NEW c \in Calls, Arrive(c) \/ Lose(c)
  PROVE  AccessInv'
<1>t. /\ AccessTypeOK /\ call[c] \in Call /\ cookie \in Sessions \cup {Nobody}
      /\ AccessHonest(call[c]) /\ Nobody \notin Sessions
      /\ cookie # Nobody => account[cookie] # Nobody
  BY AccessAssumption DEF AccessInv, AccessTypeOK, SessionsAreOpen
<1>n. Lasts /\ UNCHANGED <<account, state, credential, tokens, ordered, tab, touched, elsewhere>>
  BY DEF Lasts, Arrive, Lose, serverVars
<1>1. PICK result \in {call[c].result, "failed"} :
        /\ Slot(c, [call[c] EXCEPT !.stage = "arrived", !.result = result])
        /\ result = call[c].result \/ ~Arrive(c)
  <2>1. CASE Arrive(c)
    <3>1. [call[c] EXCEPT !.stage = "arrived"]
            = [call[c] EXCEPT !.stage = "arrived", !.result = call[c].result]
      BY <1>t DEF Call
    <3> QED
      BY <2>1, <3>1 DEF Arrive
  <2>2. CASE ~Arrive(c)
    BY <2>2 DEF Lose
  <2> QED
    BY <2>1, <2>2
<1>2. PICK r : r = [call[c] EXCEPT !.stage = "arrived", !.result = result]
  OBVIOUS
<1>3. /\ r \in Call /\ r.stage = "arrived" /\ r.kind = call[c].kind /\ r.by = call[c].by
      /\ r.cookie = call[c].cookie /\ r.owner = call[c].owner /\ r.session = call[c].session
      /\ r.result = result
  BY <1>1, <1>2, <1>t DEF Call
<1>4. Slot(c, r)
  BY <1>1, <1>2
<1>5. /\ call' \in [Calls -> Call] /\ call'[c] = r
      /\ \A d \in Calls : d # c => call'[d] = call[d]
  BY <1>3, <1>4, <1>t, SlotIs
<1>6. AccessHonest(r)'
  BY <1>1, <1>3, <1>n, <1>t DEF AccessHonest
<1>7. /\ cookie' \in Sessions \cup {Nobody} /\ (cookie' = cookie \/ Moves(r))
      /\ cookie' # Nobody => account[cookie'] # Nobody
      /\ losses' \in 0..MaxLosses
  <2>1. CASE Arrive(c)
    <3>1. r.result = call[c].result /\ losses' = losses
      BY <1>1, <1>3, <2>1 DEF Arrive
    <3>2. \/ cookie' = cookie
          \/ cookie' = Nobody /\ call[c].result = "done" /\ call[c].kind = "delete"
          \/ /\ cookie' = call[c].session /\ call[c].session # Nobody
             /\ call[c].result = "done" /\ call[c].kind \in {"ensure", "recover"}
      BY <2>1 DEF Arrive
    <3>3. call[c].session \in Sessions \cup {Nobody}
      BY <1>t DEF Call
    <3> QED
      BY <3>1, <3>2, <3>3, <1>3, <1>t DEF Moves, AccessHonest, AccessTypeOK
  <2>2. CASE Lose(c)
    BY <2>2, <1>t, AccessAssumption DEF Lose, AccessTypeOK
  <2> QED
    BY <2>1, <2>2
<1>8. AccessTypeOK'
  BY <1>5, <1>7, <1>n, <1>t DEF AccessTypeOK
<1>9. ~Moves(call[c]) /\ call[c].stage # "free"
  BY DEF Moves, Arrive, Lose
<1> QED
  BY <1>3, <1>5, <1>6, <1>7, <1>8, <1>9, <1>n, ServingKeeps

\* Another tab, another device, or the clock.
LEMMA OthersKeep ==
  ASSUME AccessInv,
         \/ \E s \in Sessions : ExpireSession(s) \/ \E o \in Owners : SwitchElsewhere(s, o)
         \/ \E o \in Owners : RotateElsewhere(o)
  PROVE  AccessInv'
<1>t. /\ AccessTypeOK /\ cookie \in Sessions \cup {Nobody} /\ Nobody \notin Sessions \cup Owners
      /\ account \in [Sessions -> Owners \cup {Nobody}]
      /\ state \in [Sessions -> {"live", "revoked", "expired"}]
      /\ cookie # Nobody => account[cookie] # Nobody
  BY AccessAssumption DEF AccessInv, AccessTypeOK, SessionsAreOpen
<1>e. elsewhere < MaxElsewhere => elsewhere + 1 \in 0..MaxElsewhere
  BY <1>t, AccessAssumption DEF AccessTypeOK
<1>1. ASSUME NEW s \in Sessions, ExpireSession(s) PROVE AccessInv'
  <2>1. /\ state' \in [Sessions -> {"live", "revoked", "expired"}]
        /\ state'[s] = "expired" /\ \A r \in Sessions : r # s => state'[r] = state[r]
    BY <1>1, <1>t DEF ExpireSession
  <2>2. Lasts /\ UNCHANGED <<tab, call, touched>>
    BY <1>1, <2>1 DEF ExpireSession, Lasts
  <2>3. /\ cookie' \in Sessions \cup {Nobody}
        /\ cookie' = cookie \/ (cookie \in Sessions /\ state'[cookie] # "live")
        /\ cookie' # Nobody => account'[cookie'] # Nobody
    BY <1>1, <2>1, <1>t DEF ExpireSession
  <2>4. AccessTypeOK'
    BY <1>1, <2>1, <2>3, <1>t DEF ExpireSession, AccessTypeOK
  <2> QED
    BY <2>2, <2>3, <2>4, OutsideKeeps
<1>2. ASSUME NEW s \in Sessions, NEW o \in Owners, SwitchElsewhere(s, o) PROVE AccessInv'
  <2>1. /\ account' \in [Sessions -> Owners \cup {Nobody}] /\ account'[s] = o
        /\ \A r \in Sessions : r # s => account'[r] = account[r]
    BY <1>2, <1>t DEF SwitchElsewhere
  <2>2. Lasts /\ UNCHANGED <<tab, call>> /\ touched' = "yes"
    BY <1>2, <2>1 DEF SwitchElsewhere, Lasts
  <2>3. cookie' \in Sessions \cup {Nobody} /\ account'[cookie'] # Nobody
    BY <1>2, <2>1, <1>t DEF SwitchElsewhere
  <2>4. AccessTypeOK'
    BY <1>2, <2>1, <2>3, <1>e, <1>t DEF SwitchElsewhere, AccessTypeOK
  <2> QED
    BY <2>2, <2>3, <2>4, OutsideKeeps
<1>3. ASSUME NEW o \in Owners, RotateElsewhere(o) PROVE AccessInv'
  <2>1. tokens + 1 \in 1..MaxTokens /\ tokens + 1 \in 0..MaxTokens
    BY <1>3, <1>t, AccessAssumption DEF RotateElsewhere, AccessTypeOK
  <2>2. AccessTypeOK'
    BY <1>3, <2>1, <1>e, <1>t DEF RotateElsewhere, AccessTypeOK
  <2>3. Lasts /\ UNCHANGED <<tab, call, touched, cookie, account>>
    BY <1>3 DEF RotateElsewhere, Lasts
  <2> QED
    BY <2>2, <2>3, <1>t, OutsideKeeps
<1> QED
  BY <1>1, <1>2, <1>3

-----------------------------------------------------------------------------
(* The page hears an answer.                                               *)

LEMMA DropIs ==
  ASSUME AccessInv, NEW c \in Calls, Drop(c), ~Moves(call[c]), tab' \in Tab,
         UNCHANGED <<serverVars, cookie, touched, elsewhere, losses>>
  PROVE  /\ AccessTypeOK' /\ UNCHANGED <<account, state, cookie, touched>>
         /\ \A d \in Calls : Moves(call[d]) => Moves(call[d])'
         /\ call'[c].stage = "free" /\ AccessHonest(call[c])'
         /\ \A d \in Calls : d # c => call'[d] = call[d]
<1>1. /\ call' \in [Calls -> Call] /\ call'[c] = Free
      /\ \A d \in Calls : d # c => call'[d] = call[d]
  BY FreeIsCall, SlotIs DEF AccessInv, Drop
<1>2. AccessTypeOK' /\ UNCHANGED <<account, state, cookie, touched>>
  BY <1>1, TypesStand DEF AccessInv, AccessTypeOK, serverVars
<1>3. AccessHonest(Free)'
  BY DEF AccessHonest, Free
<1>4. \A d \in Calls : Moves(call[d]) => Moves(call[d])'
  BY <1>1 DEF Moves
<1> QED
  BY <1>1, <1>2, <1>3, <1>4, FreeIsCall DEF AccessHonest

LEMMA HearingKeeps ==
  ASSUME AccessInv, NEW c \in Calls, Drop(c), ~Moves(call[c]), tab' \in Tab, GoesOnAs(tab'),
         UNCHANGED <<serverVars, cookie, touched, elsewhere, losses>>
  PROVE  AccessInv'
<1>1. /\ AccessTypeOK' /\ UNCHANGED <<account, state, cookie, touched>>
      /\ \A d \in Calls : Moves(call[d]) => Moves(call[d])'
      /\ call'[c].stage = "free" /\ AccessHonest(call[c])'
      /\ \A d \in Calls : d # c => call'[d] = call[d]
  BY DropIs
<1>2. \A d \in Calls :
        \/ call'[d] = call[d]
        \/ /\ AccessHonest(call[d])'
           /\ call'[d].stage = "free" \/ (call'[d].kind # "load" /\ call'[d].by # "replacement")
  BY <1>1 DEF AccessHonest
<1> QED
  BY <1>1, <1>2, PageGoesOn DEF GoesOnAs

\* The page learns whose its cookie is: it shows nothing of another's.
LEMMA HearLoadKeeps ==
  ASSUME AccessInv, NEW c \in Calls, HearLoad(c),
         UNCHANGED <<serverVars, cookie, elsewhere, losses>>
  PROVE  AccessInv'
<1>t. /\ AccessTypeOK /\ tab \in Tab /\ call[c] \in Call /\ AccessHonest(call[c])
      /\ call[c].stage = "arrived" /\ call[c].kind = "load"
      /\ Drop(c) /\ UNCHANGED touched /\ ~Moves(call[c]) /\ Nobody \notin Owners
  BY AccessAssumption DEF AccessInv, AccessTypeOK, SessionsAreOpen, HearLoad, In, Moves
<1>i. Invalid(tab) \in Tab /\ GoesOnAs(Invalid(tab)) /\ GoesOnAs(tab)
  BY <1>t, InvalidIs DEF GoesOnAs
<1>1. CASE tab.load # c
  <2>1. tab' = tab
    BY <1>1 DEF HearLoad, TakeSession
  <2> QED
    BY <2>1, <1>t, <1>i, HearingKeeps
<1>2. CASE Show(Invalid(tab))
  <2>1. tab' \in Tab /\ GoesOnAs(tab')
    BY <1>2, <1>i, ShowGoesOn
  <2> QED
    BY <2>1, <1>t, HearingKeeps
<1>3. CASE Show([tab EXCEPT !.failure = "yes"])
  <2>1. PICK t : t = [tab EXCEPT !.failure = "yes"]
    OBVIOUS
  <2>2. t \in Tab /\ GoesOnAs(t)
    BY <2>1, <1>t DEF Tab, GoesOnAs
  <2>3. tab' \in Tab /\ GoesOnAs(tab')
    BY <1>3, <2>1, <2>2, ShowGoesOn
  <2> QED
    BY <2>3, <1>t, HearingKeeps
<1>4. CASE /\ tab.load = c /\ Done(c)
           /\ Show([IF tab.user \notin {Nobody, call[c].owner} THEN Clear(tab) ELSE tab
                      EXCEPT !.user = call[c].owner, !.shown = call[c].owner,
                             !.held = call[c].cookie])
  <2>1. PICK o, s : o = call[c].owner /\ s = call[c].cookie
    OBVIOUS
  <2>2. s \in Sessions /\ o = account[s] /\ o # Nobody /\ o \in Owners
    BY <2>1, <1>4, <1>t DEF Done, AccessHonest, Call, AccessTypeOK
  <2>3. PICK u : u = IF tab.user \notin {Nobody, o} THEN Clear(tab) ELSE tab
    OBVIOUS
  <2>4. /\ u \in Tab /\ u.load = tab.load
        /\ \/ u.turn = Nobody /\ u.card = NoCard
           \/ u.turn = tab.turn /\ u.card = tab.card /\ tab.user \in {Nobody, o}
    <3>1. CASE tab.user \notin {Nobody, o}
      BY <2>3, <3>1, <1>t, ClearIs
    <3>2. CASE tab.user \in {Nobody, o}
      BY <2>3, <3>2, <1>t
    <3> QED
      BY <3>1, <3>2
  <2>5. PICK t : t = [u EXCEPT !.user = o, !.shown = o, !.held = s]
    OBVIOUS
  <2>6. /\ t \in Tab /\ t.user = o /\ t.shown = o /\ t.held = s
        /\ t.load = u.load /\ t.turn = u.turn /\ t.card = u.card
    BY <2>2, <2>4, <2>5 DEF Tab
  <2>7. Show(t)
    BY <1>4, <2>1, <2>3, <2>5
  <2>8. tab' \in Tab /\ SamePage(tab', t)
    BY <2>6, <2>7, ShowIs
  <2>9. /\ AccessTypeOK' /\ UNCHANGED <<account, state, cookie, touched>>
        /\ \A d \in Calls : Moves(call[d]) => Moves(call[d])'
        /\ call'[c].stage = "free" /\ AccessHonest(call[c])'
        /\ \A d \in Calls : d # c => call'[d] = call[d]
    BY <2>8, <1>t, DropIs
  <2>10. \A d \in Calls :
           \/ call'[d] = call[d]
           \/ AccessHonest(call[d])' /\ (call'[d].stage = "free" \/ call'[d].kind # "load")
    BY <2>9 DEF AccessHonest
  <2>11. TurnIsTheOwners'
    <3>1. tab.user = Nobody => tab.turn = Nobody
      BY DEF AccessInv, PageIsHonest
    <3>2. tab'.turn = Nobody \/ (tab'.turn = tab.turn /\ tab'.user = tab.user)
      BY <2>4, <2>6, <2>8, <3>1 DEF SamePage
    <3>3. \A d \in Calls : call'[d] = call[d] \/ call'[d].stage = "free"
      BY <2>9
    <3> QED
      BY <3>2, <3>3, TurnKeeps
  <2>12. PageIsHonest'
    <3>1. u.card.from = "replacement" => u.card.owner = o
      BY <2>4, ShownIs, <1>t DEF AccessInv, PageIsHonest
    <3>2. s # Nobody
      BY <2>2, AccessAssumption
    <3> QED
      BY <2>2, <2>6, <2>8, <2>9, <3>1, <3>2 DEF PageIsHonest, SamePage
  <2>13. touched = "no" => Told(s)
    BY <1>4, <1>t, <2>1 DEF AccessInv, CookieIsTold
  <2>14. tab'.load = tab.load /\ tab'.held = s
    BY <2>4, <2>6, <2>8 DEF SamePage
  <2>15. touched = "no" => Told(tab'.held)
    BY <2>13, <2>14 DEF Told
  <2> QED
    BY <2>9, <2>10, <2>11, <2>12, <2>14, <2>15, PageMoves
<1> QED
  BY <1>1, <1>2, <1>3, <1>4 DEF HearLoad, TakeSession

\* The card is its owner's: the page still waits for the call it made for its
\* user, and the session of that call was the user's.
LEMMA HearReplacementKeeps ==
  ASSUME AccessInv, NEW c \in Calls, HearReplacement(c),
         UNCHANGED <<serverVars, cookie, elsewhere, losses>>
  PROVE  AccessInv'
<1>t. /\ AccessTypeOK /\ tab \in Tab /\ call[c] \in Call /\ AccessHonest(call[c])
      /\ call[c].stage = "arrived" /\ call[c].by = "replacement" /\ call[c].kind = "rotate"
      /\ Drop(c) /\ UNCHANGED touched /\ ~Moves(call[c]) /\ Nobody \notin Owners
  BY AccessAssumption
  DEF AccessInv, AccessTypeOK, SessionsAreOpen, HearReplacement, AccessHonest, Moves
<1>i. Invalid(tab) \in Tab /\ GoesOnAs(Invalid(tab)) /\ GoesOnAs(tab)
  BY <1>t, InvalidIs DEF GoesOnAs
<1>1. CASE tab.turn # c
  <2>1. tab' = tab
    BY <1>1 DEF HearReplacement, TakeReplacement
  <2> QED
    BY <2>1, <1>t, <1>i, HearingKeeps
<1>2. CASE Show([tab EXCEPT !.failure = "yes"])
  <2>1. PICK t : t = [tab EXCEPT !.failure = "yes"]
    OBVIOUS
  <2>2. t \in Tab /\ GoesOnAs(t)
    BY <2>1, <1>t DEF Tab, GoesOnAs
  <2>3. tab' \in Tab /\ GoesOnAs(tab')
    BY <1>2, <2>1, <2>2, ShowGoesOn
  <2> QED
    BY <2>3, <1>t, HearingKeeps
<1>3. CASE Show(Invalid(tab))
  <2>1. tab' \in Tab /\ GoesOnAs(tab')
    BY <1>3, <1>i, ShowGoesOn
  <2> QED
    BY <2>1, <1>t, HearingKeeps
<1>4. CASE /\ tab.turn = c /\ Done(c) /\ Caller(c) = call[c].owner
           /\ Show([tab EXCEPT !.card = CardOf(c, "replacement")])
  <2>1. PICK k : k = CardOf(c, "replacement")
    OBVIOUS
  <2>2. /\ call[c].owner = tab.user /\ tab.user # Nobody
        /\ tab.user \in Owners \cup {Nobody} /\ call[c].token \in 0..MaxTokens
    <3>1. c # Nobody
      BY AccessAssumption
    <3> QED
      BY <1>4, <1>t, <3>1 DEF AccessInv, TurnIsTheOwners, PageIsHonest, Tab, Call
  <2>3. k \in Card /\ k.owner = tab.user
    BY <1>4, <2>1, <2>2 DEF CardOf, Card
  <2>4. PICK t : t = [tab EXCEPT !.card = k]
    OBVIOUS
  <2>5. /\ t \in Tab /\ t.user = tab.user /\ t.shown = tab.shown /\ t.held = tab.held
        /\ t.load = tab.load /\ t.turn = tab.turn /\ t.card = k
    BY <2>3, <2>4, <1>t DEF Tab
  <2>6. Show(t)
    BY <1>4, <2>1, <2>4
  <2>7. tab' \in Tab /\ SamePage(tab', t)
    BY <2>5, <2>6, ShowIs
  <2>8. /\ AccessTypeOK' /\ UNCHANGED <<account, state, cookie, touched>>
        /\ \A d \in Calls : Moves(call[d]) => Moves(call[d])'
        /\ call'[c].stage = "free" /\ AccessHonest(call[c])'
        /\ \A d \in Calls : d # c => call'[d] = call[d]
    BY <2>7, <1>t, DropIs
  <2>9. \A d \in Calls :
          \/ call'[d] = call[d]
          \/ AccessHonest(call[d])' /\ (call'[d].stage = "free" \/ call'[d].kind # "load")
    BY <2>8 DEF AccessHonest
  <2>10. TurnIsTheOwners'
    <3>1. tab'.turn = tab.turn /\ tab'.user = tab.user
      BY <2>5, <2>7 DEF SamePage
    <3>2. \A d \in Calls : call'[d] = call[d] \/ call'[d].stage = "free"
      BY <2>8
    <3> QED
      BY <3>1, <3>2, TurnKeeps
  <2>11. PageIsHonest'
    BY <2>2, <2>3, <2>5, <2>7, <2>8 DEF PageIsHonest, SamePage, AccessInv
  <2>12. tab'.load = tab.load /\ tab'.shown = tab.shown /\ tab'.held = tab.held
    BY <2>5, <2>7 DEF SamePage
  <2> QED
    BY <2>8, <2>9, <2>10, <2>11, <2>12, PageMoves
<1> QED
  BY <1>1, <1>2, <1>3, <1>4 DEF HearReplacement, TakeReplacement

LEMMA HearDeliveryKeeps ==
  ASSUME AccessInv, NEW c \in Calls, HearDelivery(c),
         UNCHANGED <<serverVars, cookie, elsewhere, losses>>
  PROVE  AccessInv'
<1>t. /\ AccessTypeOK /\ tab \in Tab /\ call[c] \in Call /\ AccessHonest(call[c])
      /\ call[c].kind \in {"issue", "rotate"}
      /\ Drop(c) /\ UNCHANGED touched /\ ~Moves(call[c])
  BY DEF AccessInv, AccessTypeOK, SessionsAreOpen, HearDelivery, AccessHonest, Moves
<1>1. CASE Done(c) /\ Show(Delivered(c))
  <2>1. PICK o : o = Caller(c)
    OBVIOUS
  <2>2. o \in Owners \cup {Nobody}
    BY <2>1, <1>1, <1>t DEF Caller, Done, AccessHonest, AccessTypeOK, Call
  <2>3. PICK k : k = CardOf(c, "delivery")
    OBVIOUS
  <2>4. k \in Card /\ k.from = "delivery"
    BY <2>1, <2>2, <2>3, <1>t DEF CardOf, Card, Call
  <2>5. PICK t : t = [tab EXCEPT !.delivery = Nobody, !.card = k]
    OBVIOUS
  <2>6. t \in Tab /\ GoesOnAs(t)
    BY <2>4, <2>5, <1>t DEF Tab, GoesOnAs
  <2>7. Show(t)
    BY <1>1, <2>3, <2>5 DEF Delivered
  <2>8. tab' \in Tab /\ GoesOnAs(tab')
    BY <2>6, <2>7, ShowGoesOn
  <2> QED
    BY <2>8, <1>t, HearingKeeps
<1>2. CASE Show([tab EXCEPT !.step = NextStep(c), !.asked = Nobody])
  <2>1. PICK step : step = NextStep(c)
    OBVIOUS
  <2>2. step \in {"absent", "issuing", "retry", "rotate", "changed"}
    BY <2>1, <1>t DEF NextStep, Tab
  <2>3. PICK t : t = [tab EXCEPT !.step = step, !.asked = Nobody]
    OBVIOUS
  <2>4. t \in Tab /\ GoesOnAs(t)
    BY <2>2, <2>3, <1>t DEF Tab, GoesOnAs
  <2>5. Show(t)
    BY <1>2, <2>1, <2>3
  <2>6. tab' \in Tab /\ GoesOnAs(tab')
    BY <2>4, <2>5, ShowGoesOn
  <2> QED
    BY <2>6, <1>t, HearingKeeps
<1>3. CASE UNCHANGED tab
  BY <1>3, <1>t, HearingKeeps DEF GoesOnAs
<1> QED
  BY <1>1, <1>2, <1>3 DEF HearDelivery

LEMMA HeardKeeps ==
  ASSUME AccessInv, NEW c \in Calls, Hear(c)
  PROVE  AccessInv'
<1>t. /\ UNCHANGED <<serverVars, cookie, elsewhere, losses>> /\ tab \in Tab
      /\ GoesOnAs(tab)
  BY DEF Hear, AccessInv, AccessTypeOK, GoesOnAs
<1>1. CASE HearLoad(c)
  BY <1>1, <1>t, HearLoadKeeps
<1>2. CASE HearAccess(c)
  <2>1. CASE Done(c)
    <3>1. PICK by \in {"page", "start"} : LoadBy(c, by)
      BY <1>2, <2>1 DEF HearAccess
    <3> QED
      BY <3>1, <1>t, LoadKeeps
  <2>2. CASE ~Done(c)
    <3>1. Drop(c) /\ UNCHANGED touched /\ ~Moves(call[c])
      BY <1>2, <2>2 DEF HearAccess, Done, Moves
    <3>2. Invalid(tab) \in Tab /\ GoesOnAs(Invalid(tab))
      BY <1>t, InvalidIs DEF GoesOnAs
    <3>3. Show(Invalid(tab)) \/ UNCHANGED tab
      BY <1>2, <2>2 DEF HearAccess
    <3>4. tab' \in Tab /\ GoesOnAs(tab')
      BY <3>2, <3>3, <1>t, ShowGoesOn
    <3> QED
      BY <3>1, <3>4, <1>t, HearingKeeps
  <2> QED
    BY <2>1, <2>2
<1>3. CASE HearDelete(c)
  BY <1>3, <1>t, LoadKeeps DEF HearDelete
<1>4. CASE HearReplacement(c)
  BY <1>4, <1>t, HearReplacementKeeps
<1>5. CASE HearDelivery(c)
  BY <1>5, <1>t, HearDeliveryKeeps
<1> QED
  BY <1>1, <1>2, <1>3, <1>4, <1>5 DEF Hear

-----------------------------------------------------------------------------
(* The invariant, and what it says.                                        *)

LEMMA AccessBegins == AccessInit => AccessInv
<1> SUFFICES ASSUME AccessInit PROVE AccessInv
  OBVIOUS
<1>c. \A c \in Calls : call[c] = Free
  BY DEF AccessInit
<1>t. /\ tab.shown = "loading" /\ tab.user = Nobody /\ tab.turn = Nobody /\ tab.card = NoCard
      /\ tab.load = Nobody /\ "loading" \notin Owners /\ NoCard.from # "replacement"
  BY AccessAssumption DEF AccessInit, NoCard
<1>1. AccessTypeOK
  <2>1. 0 \in 0..MaxTokens /\ 1 \in 0..MaxTokens /\ 1 \in 1..MaxTokens /\ 0 \in 0..MaxElsewhere
        /\ 0 \in 0..MaxLosses /\ Known \in Owners
    BY AccessAssumption
  <2>2. call \in [Calls -> Call]
    BY FreeIsCall DEF AccessInit
  <2>3. tab \in Tab
    BY NoCardIs DEF AccessInit, Tab
  <2> QED
    BY <2>1, <2>2, <2>3 DEF AccessInit, AccessTypeOK
<1>2. SessionsAreOpen
  <2>1. AccessHonest(Free) /\ cookie = Nobody
    BY DEF AccessHonest, Free, AccessInit
  <2> QED
    BY <2>1, <1>c DEF SessionsAreOpen
<1>3. TurnIsTheOwners /\ CookieIsTold
  BY <1>c, <1>t, FreeIsCall DEF TurnIsTheOwners, CookieIsTold
<1>4. PageIsHonest
  BY <1>t DEF PageIsHonest
<1> QED
  BY <1>1, <1>2, <1>3, <1>4 DEF AccessInv

LEMMA AccessGoesOn == AccessInv /\ [AccessNext]_accessVars => AccessInv'
<1> SUFFICES ASSUME AccessInv, [AccessNext]_accessVars PROVE AccessInv'
  OBVIOUS
<1>1. CASE UNCHANGED accessVars
  BY <1>1
  DEF accessVars, serverVars, AccessInv, AccessTypeOK, SessionsAreOpen, AccessHonest,
      TurnIsTheOwners, PageIsHonest, CookieIsTold, Told, Moves
<1>2. ASSUME NEW c \in Calls,
             \/ OpenPage(c) \/ Reload(c) \/ StartOwnerSession(c) \/ Recover(c) \/ Logout(c)
             \/ IssueReplacement(c) \/ Deliver(c)
             \/ Serve(c) \/ Arrive(c) \/ Lose(c) \/ Hear(c)
      PROVE  AccessInv'
  BY <1>2, ButtonsKeep, ReplacingKeeps, ServedKeeps, ArrivingKeeps, HeardKeeps
<1>3. CASE CloseCard \/ FirstOrder \/ Expired \/ Refused
  BY <1>3, ScreensKeep
<1>4. CASE \/ \E s \in Sessions : ExpireSession(s) \/ \E o \in Owners : SwitchElsewhere(s, o)
           \/ \E o \in Owners : RotateElsewhere(o)
  BY <1>4, OthersKeep
<1> QED
  BY <1>1, <1>2, <1>3, <1>4 DEF AccessNext

LEMMA AccessStays == AccessSpec => []AccessInv
BY AccessBegins, AccessGoesOn, PTL DEF AccessSpec

\* The page, the calls and the API's rows keep their types.
THEOREM AccessTypes == AccessSpec => []AccessTypeOK
<1>1. AccessInv => AccessTypeOK
  BY DEF AccessInv
<1> QED
  BY <1>1, AccessStays, PTL

\* However many tabs, lost answers and calls there are, a replacement is on the
\* page only while the page is its owner's (PilotApp.tsx, issueReplacementRecovery).
THEOREM ReplacementStaysItsOwners == AccessSpec => []ReplacementIsTheOwners
<1>1. AccessInv => ReplacementIsTheOwners
  BY DEF AccessInv, PageIsHonest, ReplacementIsTheOwners
<1> QED
  BY <1>1, AccessStays, PTL

\* A page at rest shows whose session its cookie opens, unless another tab has
\* changed the cookie since it asked: every answer that changes it makes the
\* page ask again, and only the last answer counts (PilotApp.tsx, loadSession).
THEOREM PageShowsItsCookie == AccessSpec => []ShowsTheCookiesOwner
<1>1. AccessInv => ShowsTheCookiesOwner
  <2> SUFFICES ASSUME AccessInv, \A c \in Calls : call[c].stage = "free", touched = "no",
                      tab.shown \in Owners, state[tab.held] = "live"
               PROVE  cookie # Nobody /\ account[cookie] = tab.shown
    BY DEF ShowsTheCookiesOwner
  <2>1. Told(tab.held) /\ tab.held # Nobody /\ account[tab.held] = tab.shown
    BY DEF AccessInv, CookieIsTold, PageIsHonest
  <2>2. \A c \in Calls : ~Moves(call[c])
    BY DEF Moves
  <2> QED
    BY <2>1, <2>2 DEF Told
<1> QED
  BY <1>1, AccessStays, PTL

-----------------------------------------------------------------------------
(*  GuestLimiter.                                                          *)

ForgottenAreOld == \A i \in 1..gone : Outdated(made[i])
CountedStayBelow == Len(made) - gone + Cardinality(Creating) <= MaximumCreates
QueueWaits ==
  /\ \A i \in 1..Len(queue) : phase[queue[i]] = "queued"
  /\ \A i, j \in 1..Len(queue) : queue[i] = queue[j] => i = j

RateInv == LimiterTypeOK /\ ForgottenAreOld /\ CountedStayBelow /\ GuestsStayWithinTheRate
QueueInv == LimiterTypeOK /\ QueueWaits /\ PlacesAreTakenWhileOneWaits

-----------------------------------------------------------------------------
(* Counting requests.                                                      *)

LEMMA ConstantsAreNumbers ==
  /\ IsFiniteSet(Guests)
  /\ MaximumConcurrent \in Nat /\ MaximumConcurrent > 0
  /\ MaximumCreates \in Nat /\ MaximumCreates > 0
  /\ MaximumQueued \in Nat /\ Window \in Nat /\ MaxTime \in Nat
  BY LimiterAssumption

\* A set of requests can be counted; one more and one less change it by one.
LEMMA Counts ==
  ASSUME NEW S \in SUBSET Guests
  PROVE  /\ IsFiniteSet(S) /\ Cardinality(S) \in Nat
         /\ \A g \in Guests \ S : Cardinality(S \cup {g}) = Cardinality(S) + 1
         /\ \A g \in S : Cardinality(S \ {g}) = Cardinality(S) - 1
         /\ \A T \in SUBSET S : Cardinality(T) <= Cardinality(S)
<1>1. IsFiniteSet(S)
  BY ConstantsAreNumbers, FS_Subset
<1>2. Cardinality(S) \in Nat
  BY <1>1, FS_CardinalityType
<1>3. \A g \in Guests \ S : Cardinality(S \cup {g}) = Cardinality(S) + 1
  BY <1>1, FS_AddElement
<1>4. \A g \in S : Cardinality(S \ {g}) = Cardinality(S) - 1
  BY <1>1, FS_RemoveElement
<1>5. \A T \in SUBSET S : Cardinality(T) <= Cardinality(S)
  BY <1>1, FS_Subset
<1> QED
  BY <1>1, <1>2, <1>3, <1>4, <1>5

-----------------------------------------------------------------------------
(* The queue.                                                              *)

LEMMA FirstAndRest ==
  ASSUME NEW q \in Seq(Guests), q # <<>>
  PROVE  /\ Len(q) \in Nat /\ 1 \in 1..Len(q)
         /\ Head(q) = q[1] /\ Head(q) \in Guests
         /\ Tail(q) \in Seq(Guests) /\ Len(Tail(q)) = Len(q) - 1
         /\ \A i \in 1..Len(Tail(q)) : i + 1 \in 1..Len(q) /\ Tail(q)[i] = q[i + 1]
<1>1. Len(q) \in Nat \ {0}
  BY EmptySeq
<1>2. /\ Head(q) \in Guests /\ Tail(q) \in Seq(Guests) /\ Len(Tail(q)) = Len(q) - 1
      /\ \A i \in 1..Len(Tail(q)) : Tail(q)[i] = q[i + 1]
  BY HeadTailProperties
<1>3. Head(q) = q[1]
  BY <1>1
<1> QED
  BY <1>1, <1>2, <1>3

LEMMA WithoutOne ==
  ASSUME NEW q \in Seq(Guests), NEW i \in 1..Len(q)
  PROVE  /\ RemoveAt(q, i) \in Seq(Guests)
         /\ Len(RemoveAt(q, i)) = Len(q) - 1
         /\ \A k \in 1..Len(q) - 1 :
              RemoveAt(q, i)[k] = IF k < i THEN q[k] ELSE q[k + 1]
<1> DEFINE a == SubSeq(q, 1, i - 1)
           b == SubSeq(q, i + 1, Len(q))
<1>1. Len(q) \in Nat
  BY LenProperties
<1>2. \A k \in 1..Len(q) : q[k] \in Guests
  BY ElementOfSeq
<1>3. a \in Seq(Guests) /\ Len(a) = i - 1 /\ \A k \in 1..i - 1 : a[k] = q[k]
  <2>1. i - 1 \in Int /\ \A k \in 1..i - 1 : q[k] \in Guests
    BY <1>1, <1>2
  <2>2. /\ a \in Seq(Guests) /\ Len(a) = IF 1 <= i - 1 THEN i - 1 - 1 + 1 ELSE 0
        /\ \A k \in 1..i - 1 - 1 + 1 : a[k] = q[1 + k - 1]
    BY <2>1, SubSeqProperties
  <2> QED
    BY <1>1, <2>2
<1>4. /\ b \in Seq(Guests) /\ Len(b) = Len(q) - i
      /\ \A k \in 1..Len(q) - i : b[k] = q[i + k]
  <2>1. i + 1 \in Int /\ Len(q) \in Int /\ \A k \in i + 1..Len(q) : q[k] \in Guests
    BY <1>1, <1>2
  <2>2. /\ b \in Seq(Guests) /\ Len(b) = IF i + 1 <= Len(q) THEN Len(q) - (i + 1) + 1 ELSE 0
        /\ \A k \in 1..Len(q) - (i + 1) + 1 : b[k] = q[i + 1 + k - 1]
    BY <2>1, SubSeqProperties
  <2> QED
    BY <1>1, <2>2
<1>5. RemoveAt(q, i) = a \o b
  BY DEF RemoveAt
<1> HIDE DEF a, b
<1>6. /\ a \o b \in Seq(Guests) /\ Len(a \o b) = Len(a) + Len(b)
      /\ \A k \in 1..Len(a) + Len(b) : (a \o b)[k] = IF k <= Len(a) THEN a[k] ELSE b[k - Len(a)]
  BY <1>3, <1>4, ConcatProperties
<1> QED
  BY <1>1, <1>3, <1>4, <1>5, <1>6

\* A request that ends is idle, and the first that waited is woken.
LEMMA Drained ==
  ASSUME LimiterTypeOK, NEW g \in Guests, EndAndDrain(g)
  PROVE  /\ phase' \in [Guests -> Phase] /\ queue' \in Seq(Guests)
         /\ queue = <<>> => queue' = <<>> /\ phase' = [phase EXCEPT ![g] = "idle"]
         /\ queue # <<>> => /\ queue' = Tail(queue) /\ Head(queue) \in Guests
                            /\ phase' = [phase EXCEPT ![g] = "idle", ![Head(queue)] = "woken"]
<1>1. phase \in [Guests -> Phase] /\ queue \in Seq(Guests)
  BY DEF LimiterTypeOK
<1>2. CASE queue = <<>>
  BY <1>1, <1>2 DEF EndAndDrain, Becomes, Phase
<1>3. CASE queue # <<>>
  <2>1. Head(queue) \in Guests /\ Tail(queue) \in Seq(Guests)
    BY <1>1, <1>3, FirstAndRest
  <2> QED
    BY <1>1, <1>3, <2>1 DEF EndAndDrain, Phase
<1> QED
  BY <1>2, <1>3

-----------------------------------------------------------------------------
(* Types.                                                                  *)

LEMMA ShiftIsBounded ==
  ASSUME LimiterTypeOK, Shift
  PROVE  gone' \in Nat /\ Len(made) \in Nat /\ gone \in Nat /\ gone <= gone' /\ gone' <= Len(made)
  BY LenProperties DEF LimiterTypeOK, Shift

LEMMA TypesAreKept ==
  ASSUME LimiterTypeOK, [LimiterNext]_limiterVars
  PROVE  LimiterTypeOK'
<1> USE DEF LimiterTypeOK
<1>1. ASSUME Tick PROVE LimiterTypeOK'
  BY <1>1, ConstantsAreNumbers DEF Tick
<1>2. ASSUME NEW g \in Guests, Ask(g) PROVE LimiterTypeOK'
  <2>1. gone' \in 0..Len(made)
    BY <1>2, ShiftIsBounded DEF Ask
  <2>2. phase' \in [Guests -> Phase]
    BY <1>2 DEF Ask, Becomes, Phase
  <2>3. Append(queue, g) \in Seq(Guests)
    BY AppendProperties
  <2>4. queue' \in Seq(Guests)
    BY <1>2, <2>3 DEF Ask
  <2> QED
    BY <1>2, <2>1, <2>2, <2>4 DEF Ask
<1>3. ASSUME NEW g \in Guests, Abort(g) PROVE LimiterTypeOK'
  <2>1. phase' \in [Guests -> Phase]
    BY <1>3 DEF Abort, Becomes, Phase
  <2>2. queue' \in Seq(Guests)
    <3>1. CASE phase[g] = "queued"
      <4>1. PICK i \in DOMAIN queue : queue' = RemoveAt(queue, i)
        BY <1>3, <3>1 DEF Abort
      <4>2. i \in 1..Len(queue)
        BY <4>1, LenProperties
      <4> QED
        BY <4>1, <4>2, WithoutOne
    <3> QED
      BY <1>3, <3>1 DEF Abort
  <2> QED
    BY <1>3, <2>1, <2>2 DEF Abort
<1>4. ASSUME NEW g \in Guests, WakeUp(g) PROVE LimiterTypeOK'
  <2>1. gone' \in 0..Len(made)
    BY <1>4, ShiftIsBounded DEF WakeUp
  <2>2. phase' \in [Guests -> Phase] /\ queue' \in Seq(Guests)
    <3>1. EndAndDrain(g) \/ (Becomes(g, "creating") /\ UNCHANGED queue)
      BY <1>4 DEF WakeUp, GoOn
    <3>2. CASE EndAndDrain(g)
      BY <3>2, Drained
    <3>3. CASE Becomes(g, "creating") /\ UNCHANGED queue
      BY <3>3 DEF Becomes, Phase
    <3> QED
      BY <3>1, <3>2, <3>3
  <2> QED
    BY <1>4, <2>1, <2>2 DEF WakeUp
<1>5. ASSUME NEW g \in Guests, Finish(g) PROVE LimiterTypeOK'
  <2>1. phase' \in [Guests -> Phase] /\ queue' \in Seq(Guests)
    BY <1>5, Drained DEF Finish
  <2>2. /\ Append(made, clock) \in Seq(0..MaxTime) /\ Len(made) \in Nat
        /\ Len(Append(made, clock)) = Len(made) + 1
    BY AppendProperties, LenProperties
  <2>3. made' = made \/ made' = Append(made, clock)
    BY <1>5 DEF Finish
  <2> QED
    <3>1. gone \in Nat /\ gone <= Len(made) /\ made \in Seq(0..MaxTime)
      BY <2>2
    <3>2. made' \in Seq(0..MaxTime) /\ Len(made') \in Nat /\ Len(made') >= Len(made)
      <4> DEFINE more == Append(made, clock)
      <4>1. more \in Seq(0..MaxTime) /\ Len(more) = Len(made) + 1 /\ Len(made) \in Nat
        BY <2>2
      <4>2. made' = made \/ made' = more
        BY <2>3
      <4> HIDE DEF more
      <4> QED
        BY <3>1, <4>1, <4>2
    <3>3. made' \in Seq(0..MaxTime) /\ gone \in 0..Len(made')
      BY <2>2, <3>1, <3>2
    <3>4. UNCHANGED <<clock, gone>>
      BY <1>5 DEF Finish
    <3> QED
      BY <2>1, <3>3, <3>4
<1>6. ASSUME UNCHANGED limiterVars PROVE LimiterTypeOK'
  BY <1>6 DEF limiterVars
<1> QED
  BY <1>1, <1>2, <1>3, <1>4, <1>5, <1>6 DEF LimiterNext

\* The limiter keeps its types.
THEOREM LimiterTypes == LimiterSpec => []LimiterTypeOK
<1>1. LimiterInit => LimiterTypeOK
  BY ConstantsAreNumbers, EmptySeq DEF LimiterInit, LimiterTypeOK, Phase
<1>2. LimiterTypeOK /\ [LimiterNext]_limiterVars => LimiterTypeOK'
  BY TypesAreKept
<1> QED
  BY <1>1, <1>2, PTL DEF LimiterSpec

-----------------------------------------------------------------------------
(* The rate.                                                               *)

\* Whoever is counted after an end was counted before, and the one that ended
\* is not; who is woken is not counted yet.
LEMMA EndIsNotCounted ==
  ASSUME LimiterTypeOK, NEW g \in Guests, EndAndDrain(g)
  PROVE  Creating' \subseteq Creating \ {g}
<1>1. phase \in [Guests -> Phase]
  BY DEF LimiterTypeOK
<1> QED
  BY <1>1, Drained DEF Creating

LEMMA OneMoreIsCounted ==
  ASSUME LimiterTypeOK, NEW g \in Guests, Becomes(g, "creating"), phase[g] # "creating"
  PROVE  Creating' = Creating \cup {g} /\ g \notin Creating
  BY DEF LimiterTypeOK, Becomes, Creating

LEMMA CreatingCounts ==
  /\ Creating \in SUBSET Guests /\ Cardinality(Creating) \in Nat
  /\ \A g \in Guests \ Creating : Cardinality(Creating \cup {g}) = Cardinality(Creating) + 1
  /\ \A g \in Creating : Cardinality(Creating \ {g}) = Cardinality(Creating) - 1
  /\ \A T \in SUBSET Creating : Cardinality(T) \in Nat /\ Cardinality(T) <= Cardinality(Creating)
<1>1. Creating \in SUBSET Guests
  BY DEF Creating
<1>2. \A T \in SUBSET Creating : Cardinality(T) \in Nat
  BY <1>1, Counts
<1> QED
  BY <1>1, <1>2, Counts

\* Forgetting more of what is old leaves the sum within the limit.
LEMMA ShiftKeepsOld ==
  ASSUME RateInv, Shift, UNCHANGED <<clock, made>>
  PROVE  ForgottenAreOld' /\ Len(made) - gone' <= Len(made) - gone
<1>1. gone' \in Nat /\ Len(made) \in Nat /\ gone \in Nat /\ gone <= gone'
  BY ShiftIsBounded DEF RateInv
<1>2. \A i \in 1..gone' : Outdated(made[i])
  BY <1>1 DEF RateInv, ForgottenAreOld, Shift
<1> QED
  BY <1>1, <1>2 DEF ForgottenAreOld, Outdated

\* A step that creates no guest disturbs neither the past nor the rate.
LEMMA NothingMade ==
  ASSUME RateInv, LimiterTypeOK', Shift \/ UNCHANGED gone, UNCHANGED <<clock, made>>,
         \/ Cardinality(Creating') <= Cardinality(Creating)
         \/ Shift /\ ~RateLimited /\ Cardinality(Creating') = Cardinality(Creating) + 1,
         Cardinality(Creating') \in Nat
  PROVE  RateInv'
<1>1. /\ gone \in Nat /\ gone' \in Nat /\ Len(made) \in Nat /\ gone' >= gone
      /\ Cardinality(Creating) \in Nat
  <2>1. made \in Seq(0..MaxTime) /\ gone \in 0..Len(made)
    BY DEF LimiterTypeOK, RateInv
  <2>2. Len(made) \in Nat
    BY <2>1, LenProperties
  <2>3. CASE Shift
    BY <2>3, ShiftIsBounded, CreatingCounts DEF RateInv
  <2>4. CASE UNCHANGED gone
    BY <2>1, <2>2, <2>4, CreatingCounts
  <2> QED
    BY <2>3, <2>4
<1>2. ForgottenAreOld' /\ Len(made) - gone' <= Len(made) - gone
  <2>1. CASE Shift
    BY <2>1, ShiftKeepsOld
  <2>2. CASE UNCHANGED gone
    BY <1>1, <2>2 DEF RateInv, ForgottenAreOld, Outdated
  <2> QED
    BY <2>1, <2>2
<1>3. CountedStayBelow'
  BY <1>1, <1>2, ConstantsAreNumbers DEF RateInv, CountedStayBelow, RateLimited
<1>4. GuestsStayWithinTheRate'
  BY DEF RateInv, GuestsStayWithinTheRate
<1> QED
  BY <1>2, <1>3, <1>4 DEF RateInv

\* The guest that is created now: its own place is in the sum still, so the one
\* MaximumCreates before it has been forgotten, and is old.
LEMMA OneMade ==
  ASSUME RateInv, LimiterTypeOK', made' = Append(made, clock), UNCHANGED <<clock, gone>>,
         NEW g \in Creating, Creating' \subseteq Creating \ {g}
  PROVE  RateInv'
<1> DEFINE n == Len(made)
<1>1. /\ made \in Seq(0..MaxTime) /\ clock \in Nat /\ n \in Nat /\ gone \in Nat /\ gone <= n
      /\ clock \in 0..MaxTime
  <2>1. made \in Seq(0..MaxTime) /\ gone \in 0..n /\ clock \in 0..MaxTime
    BY DEF RateInv, LimiterTypeOK
  <2> QED
    BY <2>1, LenProperties
<1>2. Len(made') = n + 1 /\ made'[n + 1] = clock /\ \A i \in 1..n : made'[i] = made[i]
  BY <1>1, AppendProperties
<1>3. /\ Cardinality(Creating) \in Nat /\ Cardinality(Creating') \in Nat
      /\ Cardinality(Creating') <= Cardinality(Creating) - 1
  <2>1. Creating \ {g} \in SUBSET Guests /\ Cardinality(Creating \ {g}) = Cardinality(Creating) - 1
    BY CreatingCounts
  <2>2. Cardinality(Creating') <= Cardinality(Creating \ {g}) /\ Cardinality(Creating') \in Nat
    BY <2>1, Counts
  <2> QED
    BY <2>1, <2>2, CreatingCounts
<1> HIDE DEF n
<1>4. n - gone + Cardinality(Creating) <= MaximumCreates
  BY DEF RateInv, CountedStayBelow, n
<1>5. ForgottenAreOld'
  <2>1. \A i \in 1..gone : Outdated(made[i]) /\ made'[i] = made[i]
    BY <1>1, <1>2 DEF RateInv, ForgottenAreOld
  <2> QED
    BY <2>1 DEF ForgottenAreOld, Outdated
<1>6. CountedStayBelow'
  BY <1>1, <1>2, <1>3, <1>4, ConstantsAreNumbers DEF CountedStayBelow
<1>7. ASSUME NEW i \in 1..Len(made') - MaximumCreates
      PROVE  made'[i + MaximumCreates] >= made'[i] + Window
  <2>1. i \in Nat /\ i >= 1 /\ i + MaximumCreates <= n + 1 /\ i <= n
    BY <1>1, <1>2, <1>7, ConstantsAreNumbers
  <2>2. CASE i + MaximumCreates = n + 1
    <3>1. i <= gone
      BY <1>1, <1>3, <1>4, <2>1, <2>2, ConstantsAreNumbers
    <3>2. Outdated(made[i]) /\ made'[i] = made[i] /\ made'[i + MaximumCreates] = clock
      BY <1>1, <1>2, <2>1, <2>2, <3>1 DEF RateInv, ForgottenAreOld
    <3>3. made[i] \in Nat
      <4>1. i \in 1..Len(made)
        BY <1>1, <2>1 DEF n
      <4>2. made[i] \in 0..MaxTime
        BY <1>1, <4>1, ElementOfSeq
      <4> QED
        BY <4>2, ConstantsAreNumbers
    <3> QED
      BY <1>1, <3>2, <3>3, ConstantsAreNumbers DEF Outdated
  <2>3. CASE i + MaximumCreates <= n
    <3>1. i \in 1..Len(made) - MaximumCreates
      BY <1>1, <2>1, <2>3, ConstantsAreNumbers DEF n
    <3>2. made[i + MaximumCreates] >= made[i] + Window
      BY <3>1 DEF RateInv, GuestsStayWithinTheRate
    <3>3. i + MaximumCreates \in 1..n /\ i \in 1..n
      BY <1>1, <2>1, <2>3, ConstantsAreNumbers
    <3> QED
      BY <1>2, <3>2, <3>3
  <2>4. i + MaximumCreates <= n \/ i + MaximumCreates = n + 1
    BY <1>1, <2>1, ConstantsAreNumbers
  <2> QED
    BY <2>2, <2>3, <2>4
<1> QED
  BY <1>5, <1>6, <1>7 DEF RateInv, GuestsStayWithinTheRate

LEMMA RateIsKept ==
  ASSUME RateInv, [LimiterNext]_limiterVars
  PROVE  RateInv'
<1>1. LimiterTypeOK /\ LimiterTypeOK'
  BY TypesAreKept DEF RateInv
<1>2. ASSUME Creating' = Creating PROVE Cardinality(Creating') <= Cardinality(Creating)
                                         /\ Cardinality(Creating') \in Nat
  BY <1>2, CreatingCounts
<1>3. ASSUME Tick PROVE RateInv'
  <2>1. /\ clock \in Nat /\ Len(made) \in Nat /\ gone \in Nat /\ gone <= Len(made)
        /\ \A i \in 1..Len(made) : made[i] \in Nat
    <3>1. made \in Seq(0..MaxTime) /\ gone \in 0..Len(made) /\ clock \in 0..MaxTime
      BY <1>1 DEF LimiterTypeOK
    <3>2. Len(made) \in Nat
      BY <3>1, LenProperties
    <3>3. \A i \in 1..Len(made) : made[i] \in 0..MaxTime
      BY <3>1, ElementOfSeq
    <3> QED
      BY <3>1, <3>2, <3>3, ConstantsAreNumbers
  <2>2. ForgottenAreOld'
    BY <1>3, <2>1, ConstantsAreNumbers DEF Tick, RateInv, ForgottenAreOld, Outdated
  <2>3. CountedStayBelow' /\ GuestsStayWithinTheRate'
    BY <1>3 DEF Tick, RateInv, CountedStayBelow, GuestsStayWithinTheRate, Creating
  <2> QED
    BY <1>1, <2>2, <2>3 DEF RateInv
<1>4. ASSUME NEW g \in Guests, Ask(g) PROVE RateInv'
  <2>1. CASE ~RateLimited /\ Becomes(g, "creating")
    BY <1>1, <1>4, <2>1, OneMoreIsCounted, CreatingCounts, NothingMade DEF Ask
  <2>2. CASE Becomes(g, "queued")
    <3>1. Creating' = Creating
      BY <1>1, <1>4, <2>2 DEF Ask, Becomes, Creating, LimiterTypeOK
    <3> QED
      BY <1>1, <1>2, <1>4, <3>1, NothingMade DEF Ask
  <2>3. CASE UNCHANGED phase
    BY <1>1, <1>2, <1>4, <2>3, NothingMade DEF Ask, Creating
  <2> QED
    BY <1>4, <2>1, <2>2, <2>3 DEF Ask
<1>5. ASSUME NEW g \in Guests, Abort(g) PROVE RateInv'
  <2>1. Creating' = Creating
    BY <1>1, <1>5 DEF Abort, Becomes, Creating, LimiterTypeOK
  <2> QED
    BY <1>1, <1>2, <1>5, <2>1, NothingMade DEF Abort
<1>6. ASSUME NEW g \in Guests, WakeUp(g) PROVE RateInv'
  <2>1. CASE EndAndDrain(g)
    <3>1. Creating' \in SUBSET Creating
      BY <1>1, <2>1, EndIsNotCounted
    <3> QED
      BY <1>1, <1>6, <3>1, CreatingCounts, NothingMade DEF WakeUp
  <2>2. CASE ~RateLimited /\ Becomes(g, "creating")
    <3>1. phase[g] # "creating"
      BY <1>6 DEF WakeUp, Woken
    <3> QED
      BY <1>1, <1>6, <2>2, <3>1, OneMoreIsCounted, CreatingCounts, NothingMade DEF WakeUp
  <2> QED
    BY <1>6, <2>1, <2>2 DEF WakeUp, GoOn
<1>7. ASSUME NEW g \in Guests, Finish(g) PROVE RateInv'
  <2>1. Creating' \subseteq Creating \ {g} /\ g \in Creating
    BY <1>1, <1>7, EndIsNotCounted DEF Finish
  <2>2. CASE made' = made
    <3>1. Creating' \in SUBSET Creating
      BY <2>1
    <3> QED
      BY <1>1, <1>7, <2>2, <3>1, CreatingCounts, NothingMade DEF Finish
  <2>3. CASE made' = Append(made, clock)
    BY <1>1, <1>7, <2>1, <2>3, OneMade DEF Finish
  <2> QED
    BY <1>7, <2>2, <2>3 DEF Finish
<1>8. ASSUME UNCHANGED limiterVars PROVE RateInv'
  BY <1>1, <1>2, <1>8, NothingMade DEF limiterVars, Creating
<1> QED
  BY <1>3, <1>4, <1>5, <1>6, <1>7, <1>8 DEF LimiterNext

\* No window holds more guests than its limit, whatever overlaps.
THEOREM RateIsHeld == LimiterSpec => []GuestsStayWithinTheRate
<1>1. LimiterInit => RateInv
  <2>1. ASSUME LimiterInit PROVE RateInv
    <3>1. LimiterTypeOK
      BY <2>1, ConstantsAreNumbers, EmptySeq DEF LimiterInit, LimiterTypeOK, Phase
    <3>2. Creating = {} /\ Cardinality({}) = 0 /\ Len(made) = 0 /\ gone = 0
      BY <2>1, FS_EmptySet, EmptySeq DEF LimiterInit, Creating
    <3>3. ForgottenAreOld /\ CountedStayBelow /\ GuestsStayWithinTheRate
      BY <3>2, ConstantsAreNumbers DEF ForgottenAreOld, CountedStayBelow, GuestsStayWithinTheRate
    <3> QED
      BY <3>1, <3>3 DEF RateInv
  <2> QED
    BY <2>1
<1>2. RateInv /\ [LimiterNext]_limiterVars => RateInv'
  BY RateIsKept
<1>3. RateInv => GuestsStayWithinTheRate
  BY DEF RateInv
<1> QED
  BY <1>1, <1>2, <1>3, PTL DEF LimiterSpec

-----------------------------------------------------------------------------
(* The wake-ups.                                                           *)

Placed == Creating \cup Woken

LEMMA CountsOfTwo ==
  ASSUME NEW C \in SUBSET Guests, NEW W \in SUBSET Guests, C \cap W = {}
  PROVE  /\ Cardinality(C \cup W) \in Nat /\ Cardinality(C) <= Cardinality(C \cup W)
         /\ Cardinality(C) + Cardinality(W) = Cardinality(C \cup W)
<1>1. /\ Cardinality(C) \in Nat /\ Cardinality(W) \in Nat /\ Cardinality(C \cup W) \in Nat
      /\ Cardinality(C) <= Cardinality(C \cup W)
  <2>1. C \cup W \in SUBSET Guests /\ C \in SUBSET (C \cup W)
    OBVIOUS
  <2> QED
    BY <2>1, Counts
<1>2. Cardinality(C \cup W) = Cardinality(C) + Cardinality(W) - Cardinality({})
  <2>1. IsFiniteSet(C) /\ IsFiniteSet(W)
    BY Counts
  <2>2. Cardinality(C \cup W) = Cardinality(C) + Cardinality(W) - Cardinality(C \cap W)
    BY <2>1, FS_Union
  <2> QED
    BY <2>2
<1> QED
  BY <1>1, <1>2, FS_EmptySet

LEMMA PlacedCounts ==
  /\ Placed \in SUBSET Guests /\ Cardinality(Placed) \in Nat
  /\ Cardinality(Creating) + Cardinality(Woken) = Cardinality(Placed)
  /\ Cardinality(Creating) <= Cardinality(Placed)
<1>1. Creating \in SUBSET Guests /\ Woken \in SUBSET Guests /\ Creating \cap Woken = {}
  BY DEF Creating, Woken
<1> QED
  BY <1>1, CountsOfTwo DEF Placed

LEMMA PlacedCountsNext ==
  /\ Placed' \in SUBSET Guests /\ Cardinality(Placed') \in Nat
  /\ Cardinality(Creating') + Cardinality(Woken') = Cardinality(Placed')
<1>1. Creating' \in SUBSET Guests /\ Woken' \in SUBSET Guests /\ Creating' \cap Woken' = {}
  BY DEF Creating, Woken
<1> QED
  BY <1>1, CountsOfTwo DEF Placed

\* The same number of places, or more, and nobody waits who had not before.
LEMMA PlacesStayTaken ==
  ASSUME PlacesAreTakenWhileOneWaits, queue # <<>> \/ queue' = <<>>,
         Cardinality(Placed') >= Cardinality(Placed)
  PROVE  PlacesAreTakenWhileOneWaits'
  BY PlacedCounts, PlacedCountsNext, ConstantsAreNumbers DEF PlacesAreTakenWhileOneWaits

\* Who leaves hands its place to the first that waits.
LEMMA EndHandsOn ==
  ASSUME QueueInv, NEW g \in Placed, EndAndDrain(g)
  PROVE  QueueWaits' /\ PlacesAreTakenWhileOneWaits'
<1>1. /\ phase \in [Guests -> Phase] /\ queue \in Seq(Guests) /\ g \in Guests
      /\ phase[g] \notin {"queued", "idle"} /\ LimiterTypeOK
  BY DEF QueueInv, LimiterTypeOK, Placed, Creating, Woken
<1>2. CASE queue = <<>>
  <2>1. queue' = <<>> /\ Len(queue') = 0
    BY <1>1, <1>2, Drained, EmptySeq
  <2> QED
    BY <2>1 DEF QueueWaits, PlacesAreTakenWhileOneWaits
<1>3. CASE queue # <<>>
  <2> DEFINE h == Head(queue)
  <2>1. /\ queue' = Tail(queue) /\ h \in Guests
        /\ phase' = [phase EXCEPT ![g] = "idle", ![h] = "woken"]
    BY <1>1, <1>3, Drained
  <2>2. /\ Len(queue) \in Nat /\ 1 \in 1..Len(queue) /\ h = queue[1]
        /\ \A i \in 1..Len(queue') : i + 1 \in 1..Len(queue) /\ queue'[i] = queue[i + 1]
    BY <1>1, <1>3, <2>1, FirstAndRest
  <2>3. phase[h] = "queued" /\ h # g
    BY <1>1, <2>2 DEF QueueInv, QueueWaits
  <2>4. \A i \in 1..Len(queue') : queue'[i] \notin {g, h} /\ phase[queue'[i]] = "queued"
                                    /\ queue'[i] \in Guests
    <3>1. SUFFICES ASSUME NEW i \in 1..Len(queue')
                   PROVE  queue[i + 1] \notin {g, h} /\ phase[queue[i + 1]] = "queued"
                            /\ queue[i + 1] \in Guests
      BY <2>2
    <3>2. phase[queue[i + 1]] = "queued" /\ queue[i + 1] \in Guests
      BY <1>1, <2>2, ElementOfSeq DEF QueueInv, QueueWaits
    <3>3. queue[i + 1] = queue[1] => i + 1 = 1
      BY <2>2 DEF QueueInv, QueueWaits
    <3>4. i + 1 # 1
      BY <2>2
    <3> QED
      BY <1>1, <2>2, <3>2, <3>3, <3>4
  <2> HIDE DEF h
  <2>5. \A x \in Guests \ {g, h} : phase'[x] = phase[x]
    BY <1>1, <2>1
  <2>6. \A i \in 1..Len(queue') : phase'[queue'[i]] = "queued"
    BY <2>4, <2>5
  <2>7. \A i, j \in 1..Len(queue') : queue'[i] = queue'[j] => i = j
    <3>1. SUFFICES ASSUME NEW i \in 1..Len(queue'), NEW j \in 1..Len(queue'),
                          queue'[i] = queue'[j]
                   PROVE  i = j
      OBVIOUS
    <3>2. i + 1 = j + 1
      BY <2>2, <3>1 DEF QueueInv, QueueWaits
    <3> QED
      BY <3>2
  <2>8. Placed' = (Placed \ {g}) \cup {h} /\ h \notin Placed
    <3>1. phase'[g] = "idle" /\ phase'[h] = "woken"
      BY <1>1, <2>1, <2>3
    <3> QED
      BY <1>1, <2>1, <2>3, <2>5, <3>1 DEF Placed, Creating, Woken
  <2>9. Cardinality(Placed') = Cardinality(Placed) /\ Cardinality(Placed) \in Nat
    <3>1. Placed \in SUBSET Guests /\ Placed \ {g} \in SUBSET Guests /\ h \in Guests \ (Placed \ {g})
      BY <1>1, <2>1, <2>8, PlacedCounts
    <3>2. Cardinality(Placed \ {g}) = Cardinality(Placed) - 1 /\ Cardinality(Placed) \in Nat
      BY <3>1, Counts
    <3>3. Cardinality((Placed \ {g}) \cup {h}) = Cardinality(Placed \ {g}) + 1
      BY <3>1, Counts
    <3> QED
      BY <2>8, <3>2, <3>3
  <2>10. PlacesAreTakenWhileOneWaits'
    BY <1>3, <2>9, PlacesStayTaken DEF QueueInv
  <2> QED
    BY <2>6, <2>7, <2>10 DEF QueueWaits
<1> QED
  BY <1>2, <1>3

\* Who waits no longer leaves the others in their order.
LEMMA LeavingKeepsOrder ==
  ASSUME QueueInv, NEW i \in 1..Len(queue), queue' = RemoveAt(queue, i),
         phase' = [phase EXCEPT ![queue[i]] = "idle"]
  PROVE  QueueWaits'
<1>1. queue \in Seq(Guests) /\ phase \in [Guests -> Phase]
  BY DEF QueueInv, LimiterTypeOK
<1>2. Len(queue) \in Nat
  BY <1>1, LenProperties
<1>3. /\ Len(queue') = Len(queue) - 1
      /\ \A k \in 1..Len(queue) - 1 : queue'[k] = IF k < i THEN queue[k] ELSE queue[k + 1]
  BY <1>1, WithoutOne
<1> DEFINE at(k) == IF k < i THEN k ELSE k + 1
<1>4. \A k \in 1..Len(queue') : at(k) \in 1..Len(queue) /\ at(k) # i /\ queue'[k] = queue[at(k)]
  BY <1>2, <1>3
<1>5. \A k, l \in 1..Len(queue') : at(k) = at(l) => k = l
  BY <1>2, <1>3
<1> HIDE DEF at
<1>6. \A k \in 1..Len(queue') : phase'[queue'[k]] = "queued"
  <2>1. SUFFICES ASSUME NEW k \in 1..Len(queue') PROVE phase'[queue[at(k)]] = "queued"
    BY <1>4
  <2>2. phase[queue[at(k)]] = "queued" /\ queue[at(k)] # queue[i] /\ queue[at(k)] \in Guests
    BY <1>1, <1>4, ElementOfSeq DEF QueueInv, QueueWaits
  <2> QED
    BY <1>1, <2>2
<1>7. \A k, l \in 1..Len(queue') : queue'[k] = queue'[l] => k = l
  BY <1>4, <1>5 DEF QueueInv, QueueWaits
<1> QED
  BY <1>6, <1>7 DEF QueueWaits

LEMMA WakeUpsAreKept ==
  ASSUME QueueInv, [LimiterNext]_limiterVars
  PROVE  QueueInv'
<1>1. LimiterTypeOK /\ LimiterTypeOK' /\ QueueWaits /\ PlacesAreTakenWhileOneWaits
  BY TypesAreKept DEF QueueInv
<1>2. /\ phase \in [Guests -> Phase] /\ queue \in Seq(Guests) /\ Len(queue) \in Nat
      /\ \A i \in 1..Len(queue) : queue[i] \in Guests /\ phase[queue[i]] = "queued"
  BY <1>1, LenProperties, ElementOfSeq DEF LimiterTypeOK, QueueWaits
\* A request that does not wait may change its phase.
<1>3. ASSUME NEW g \in Guests, phase[g] # "queued", UNCHANGED queue,
             NEW p, Becomes(g, p)
      PROVE  QueueWaits'
  BY <1>1, <1>2, <1>3 DEF QueueWaits, Becomes
<1>4. ASSUME Placed' = Placed, queue # <<>> \/ queue' = <<>>
      PROVE  PlacesAreTakenWhileOneWaits'
  BY <1>1, <1>4, PlacedCounts, PlacesStayTaken
<1>5. ASSUME UNCHANGED <<phase, queue>> PROVE QueueWaits' /\ PlacesAreTakenWhileOneWaits'
  BY <1>1, <1>5 DEF QueueWaits, PlacesAreTakenWhileOneWaits, Creating, Woken
<1>6. ASSUME NEW g \in Guests, Ask(g) PROVE QueueWaits' /\ PlacesAreTakenWhileOneWaits'
  <2>1. phase[g] = "idle" /\ g \notin Placed
    BY <1>6 DEF Ask, Placed, Creating, Woken
  <2>2. CASE Becomes(g, "creating") /\ UNCHANGED queue
    <3>1. Placed' = Placed \cup {g}
      BY <1>2, <2>2 DEF Becomes, Placed, Creating, Woken
    <3>2. Cardinality(Placed') >= Cardinality(Placed)
      BY <2>1, <3>1, PlacedCounts, Counts
    <3> QED
      BY <1>1, <1>3, <2>1, <2>2, <3>2, PlacesStayTaken
  <2>3. CASE /\ ~(Cardinality(Creating) < MaximumConcurrent)
             /\ Becomes(g, "queued") /\ queue' = Append(queue, g)
    <3>1. /\ Len(queue') = Len(queue) + 1 /\ queue'[Len(queue) + 1] = g
          /\ \A i \in 1..Len(queue) : queue'[i] = queue[i] /\ queue'[i] # g
      BY <1>2, <2>1, <2>3, AppendProperties
    <3>2. \A i \in 1..Len(queue') : phase'[queue'[i]] = "queued"
      <4>1. phase'[g] = "queued" /\ \A x \in Guests \ {g} : phase'[x] = phase[x]
        BY <1>2, <2>3 DEF Becomes
      <4>2. \A i \in 1..Len(queue') : i \in 1..Len(queue) \/ i = Len(queue) + 1
        BY <1>2, <3>1
      <4> QED
        BY <1>2, <3>1, <4>1, <4>2
    <3>3. \A i, j \in 1..Len(queue') : queue'[i] = queue'[j] => i = j
      <4>1. \A i \in 1..Len(queue') : i \in 1..Len(queue) \/ i = Len(queue) + 1
        BY <1>2, <3>1
      <4> QED
        BY <1>1, <3>1, <4>1 DEF QueueWaits
    <3>4. Creating' = Creating /\ Woken' = Woken
      BY <1>2, <2>1, <2>3 DEF Becomes, Creating, Woken
    <3>5. PlacesAreTakenWhileOneWaits'
      <4>1. Cardinality(Creating) \in Nat /\ Cardinality(Woken) \in Nat
        BY CreatingCounts, Counts DEF Woken
      <4> QED
        BY <2>3, <3>4, <4>1, ConstantsAreNumbers DEF PlacesAreTakenWhileOneWaits
    <3> QED
      BY <3>2, <3>3, <3>5 DEF QueueWaits
  <2> QED
    BY <1>5, <1>6, <2>2, <2>3 DEF Ask
<1>7. ASSUME NEW g \in Guests, Abort(g) PROVE QueueWaits' /\ PlacesAreTakenWhileOneWaits'
  <2>1. CASE phase[g] = "queued"
    <3>1. PICK i \in 1..Len(queue) : queue[i] = g /\ queue' = RemoveAt(queue, i)
      BY <1>2, <1>7, <2>1 DEF Abort
    <3>2. Becomes(g, "idle")
      BY <1>7, <2>1 DEF Abort
    <3>3. QueueWaits'
      BY <3>1, <3>2, LeavingKeepsOrder DEF Becomes
    <3>4. Placed' = Placed
      BY <1>2, <2>1, <3>2 DEF Becomes, Placed, Creating, Woken
    <3>5. queue # <<>>
      BY <1>2, <3>1, EmptySeq
    <3> QED
      BY <1>4, <3>3, <3>4, <3>5
  <2>2. CASE phase[g] = "woken"
    <3>1. Becomes(g, "aborted") /\ UNCHANGED queue
      BY <1>7, <2>2 DEF Abort
    <3>2. Placed' = Placed
      BY <1>2, <2>2, <3>1 DEF Becomes, Placed, Creating, Woken
    <3> QED
      BY <1>3, <1>4, <2>2, <3>1, <3>2
  <2> QED
    BY <1>7, <2>1, <2>2 DEF Abort
<1>8. ASSUME NEW g \in Guests, WakeUp(g) PROVE QueueWaits' /\ PlacesAreTakenWhileOneWaits'
  <2>1. phase[g] \in {"woken", "aborted"} /\ g \in Placed
    BY <1>8 DEF WakeUp, Woken, Placed
  <2>2. CASE EndAndDrain(g)
    BY <2>1, <2>2, EndHandsOn
  <2>3. CASE Becomes(g, "creating") /\ UNCHANGED queue
    <3>1. Placed' = Placed
      BY <1>2, <2>1, <2>3 DEF Becomes, Placed, Creating, Woken
    <3> QED
      BY <1>3, <1>4, <2>1, <2>3, <3>1
  <2> QED
    BY <1>8, <2>2, <2>3 DEF WakeUp, GoOn
<1>9. ASSUME NEW g \in Guests, Finish(g) PROVE QueueWaits' /\ PlacesAreTakenWhileOneWaits'
  BY <1>9, EndHandsOn DEF Finish, Placed
<1>10. CASE Tick \/ UNCHANGED limiterVars
  BY <1>1, <1>5, <1>10 DEF Tick, limiterVars, QueueInv
<1> QED
  BY <1>1, <1>6, <1>7, <1>8, <1>9, <1>10 DEF LimiterNext, QueueInv

\* No wake-up is lost: while one waits, every place is taken.
THEOREM NoWakeUpIsLost == LimiterSpec => []PlacesAreTakenWhileOneWaits
<1>1. LimiterInit => QueueInv
  <2>1. ASSUME LimiterInit PROVE QueueInv
    <3>1. LimiterTypeOK
      BY <2>1, ConstantsAreNumbers, EmptySeq DEF LimiterInit, LimiterTypeOK, Phase
    <3>2. queue = <<>> /\ Len(queue) = 0
      BY <2>1, EmptySeq DEF LimiterInit
    <3> QED
      BY <3>1, <3>2 DEF QueueInv, QueueWaits, PlacesAreTakenWhileOneWaits
  <2> QED
    BY <2>1
<1>2. QueueInv /\ [LimiterNext]_limiterVars => QueueInv'
  BY WakeUpsAreKept
<1>3. QueueInv => PlacesAreTakenWhileOneWaits
  BY DEF QueueInv
<1> QED
  BY <1>1, <1>2, <1>3, PTL DEF LimiterSpec

-----------------------------------------------------------------------------
(*  PilotInvites.                                                          *)

\* A command that has not started has not tried.
FreshCommands == \A k \in Commands : command[k].stage = "new" => command[k].tries = 0

\* There is no administrator, or one.
OneAdmin == admins = {} \/ \E k \in Commands : admins = {k}

\* A code opened a session exactly when it is used, and once.
CodesOpenOnce == \A i \in Codes : /\ opened[i] = IF invite[i].used THEN 1 ELSE 0
                                  /\ invite[i].used => invite[i].made

\* An attempt is some client's, and one that found an invitation holds its code.
AttemptsAreSound ==
  \A a \in Attempts : /\ attempt[a].stage # "free" => attempt[a].client \in Clients
                      /\ attempt[a].stage = "found" =>
                           attempt[a].code \in Codes /\ invite[attempt[a].code].made

IInv == InviteTypeOK /\ FreshCommands /\ OneAdmin /\ CodesOpenOnce /\ AttemptsAreSound

-----------------------------------------------------------------------------
(* What the actions share.                                                 *)

\* Leaving puts nothing but vacant attempts and attempts that wait for no one.
LEMMA LeaveKeepsAttempts ==
  ASSUME InviteTypeOK, AttemptsAreSound, NEW a \in Attempts, Leave(a),
         \A i \in Codes : invite[i].made => invite'[i].made
  PROVE  /\ attempt' \in [Attempts -> Attempt]
         /\ queueTail' \in [Clients -> Attempts \cup {NoOne}]
         /\ AttemptsAreSound'
<1>1. Vacant \in Attempt /\ Vacant.stage = "free"
  BY DEF Vacant, Attempt
<1>2. ASSUME NEW b \in Attempts
      PROVE  /\ attempt'[b] \in Attempt
             /\ \/ attempt'[b].stage = "free"
                \/ /\ attempt'[b].stage = attempt[b].stage
                   /\ attempt'[b].code = attempt[b].code
                   /\ attempt'[b].client = attempt[b].client
  <2>1. attempt[b] \in Attempt
    BY DEF InviteTypeOK
  <2>2. /\ [attempt[b] EXCEPT !.behind = NoOne] \in Attempt
        /\ [attempt[b] EXCEPT !.behind = NoOne].stage = attempt[b].stage
        /\ [attempt[b] EXCEPT !.behind = NoOne].code = attempt[b].code
        /\ [attempt[b] EXCEPT !.behind = NoOne].client = attempt[b].client
    BY <2>1 DEF Attempt
  <2>3. attempt'[b] \in {Vacant, [attempt[b] EXCEPT !.behind = NoOne], attempt[b]}
    BY DEF Leave
  <2> QED
    BY <1>1, <2>1, <2>2, <2>3
<1>3. attempt' \in [Attempts -> Attempt]
  BY <1>2 DEF Leave
<1>4. queueTail' \in [Clients -> Attempts \cup {NoOne}]
  BY DEF Leave, InviteTypeOK
<1> QED
  BY <1>2, <1>3, <1>4 DEF AttemptsAreSound

\* Counting a failure keeps the limiter's counts numbers.
LEMMA RefuseKeepsTypes ==
  ASSUME InvitesAssumption, InviteTypeOK, AttemptsAreSound, NEW a \in Attempts,
         attempt[a].client \in Clients, Refuse(a), UNCHANGED invite
  PROVE  /\ attempt' \in [Attempts -> Attempt]
         /\ queueTail' \in [Clients -> Attempts \cup {NoOne}]
         /\ AttemptsAreSound'
         /\ failures' \in [Clients -> Nat]
         /\ resetsAt' \in [Clients -> Nat]
         /\ tested' \in [Clients -> [0..LastTime -> Nat]]
<1> DEFINE c == attempt[a].client
<1>1. RecordFailure(c) /\ Leave(a)
  BY DEF Refuse
<1>2. tested' \in [Clients -> [0..LastTime -> Nat]]
  <2>1. tested' = [tested EXCEPT ![c] = [tested[c] EXCEPT ![time] = @ + 1]]
    BY <1>1 DEF RecordFailure
  <2>2. tested \in [Clients -> [0..LastTime -> Nat]] /\ time \in 0..LastTime
    BY DEF InviteTypeOK
  <2>3. PICK row : row = tested[c]
    OBVIOUS
  <2>4. row \in [0..LastTime -> Nat] /\ row[time] + 1 \in Nat
    <3>1. row \in [0..LastTime -> Nat]
      BY <2>2, <2>3
    <3>2. row[time] \in Nat
      BY <3>1, <2>2
    <3> QED
      BY <3>1, <3>2
  <2>5. [row EXCEPT ![time] = @ + 1] \in [0..LastTime -> Nat]
    BY <2>4
  <2> QED
    BY <2>1, <2>2, <2>3, <2>5
<1>0. /\ attempt' \in [Attempts -> Attempt]
      /\ queueTail' \in [Clients -> Attempts \cup {NoOne}]
      /\ AttemptsAreSound'
  BY <1>1, LeaveKeepsAttempts
<1>3. CASE failures[c] > 0 /\ ~Over(c)
  <2>1. failures' = [failures EXCEPT ![c] = @ + 1] /\ UNCHANGED resetsAt
    BY <1>1, <1>3 DEF RecordFailure
  <2>2. /\ failures \in [Clients -> Nat] /\ resetsAt \in [Clients -> Nat]
        /\ failures[c] + 1 \in Nat
    <3>1. failures \in [Clients -> Nat] /\ resetsAt \in [Clients -> Nat]
      BY DEF InviteTypeOK
    <3>2. failures[c] \in Nat
      BY <3>1
    <3> QED
      BY <3>1, <3>2
  <2>3. failures' \in [Clients -> Nat] /\ resetsAt' \in [Clients -> Nat]
    BY <2>1, <2>2
  <2> QED
    BY <1>0, <1>2, <2>3
<1>4. CASE ~(failures[c] > 0 /\ ~Over(c))
  <2>1. resetsAt' = [resetsAt EXCEPT ![c] = time + GuessWindow]
    BY <1>1, <1>4 DEF RecordFailure
  <2>2. \E d \in Clients : failures' = [failures EXCEPT ![d] = 0, ![c] = 1]
    BY <1>1, <1>4 DEF RecordFailure
  <2>3. time + GuessWindow \in Nat
    BY DEF InvitesAssumption, InviteTypeOK
  <2>4. failures' \in [Clients -> Nat]
    <3>1. failures \in [Clients -> Nat]
      BY DEF InviteTypeOK
    <3>2. PICK d \in Clients : failures' = [[failures EXCEPT ![d] = 0] EXCEPT ![c] = 1]
      BY <2>2
    <3>3. PICK f : f = [failures EXCEPT ![d] = 0]
      OBVIOUS
    <3>4. f \in [Clients -> Nat]
      BY <3>1, <3>3
    <3> QED
      BY <3>2, <3>3, <3>4
  <2> QED
    BY <1>0, <1>2, <2>1, <2>3, <2>4 DEF InviteTypeOK
<1> QED
  BY <1>3, <1>4

-----------------------------------------------------------------------------
LEMMA InitSound == InviteInit => IInv
<1> SUFFICES ASSUME InviteInit PROVE IInv
  OBVIOUS
<1> USE InvitesAssumption DEF InviteInit
<1>1. NoInvite \in Invitation /\ NoInvite.used = FALSE
  BY DEF NoInvite, Invitation
<1>2. Vacant \in Attempt /\ Vacant.stage = "free"
  BY DEF Vacant, Attempt
<1>3. command \in [Commands -> Command] /\ FreshCommands
  <2>1. 0 \in 0..MaxTries
    BY DEF InvitesAssumption
  <2>2. [stage |-> "new", name |-> NoOne, sees |-> {}, tries |-> 0] \in Command
    BY <2>1 DEF Command
  <2> QED
    BY <2>2 DEF FreshCommands
<1>4. time \in 0..LastTime /\ errors \in 0..MaxErrors
  OBVIOUS
<1>5. /\ failures \in [Clients -> Nat] /\ resetsAt \in [Clients -> Nat]
      /\ tested \in [Clients -> [0..LastTime -> Nat]]
      /\ queueTail \in [Clients -> Attempts \cup {NoOne}]
  OBVIOUS
<1>6. /\ invite \in [Codes -> Invitation] /\ opened \in [Codes -> Nat]
      /\ attempt \in [Attempts -> Attempt]
      /\ CodesOpenOnce /\ AttemptsAreSound
  BY <1>1, <1>2 DEF CodesOpenOnce, AttemptsAreSound
<1> QED
  BY <1>3, <1>4, <1>5, <1>6 DEF IInv, InviteTypeOK, OneAdmin

-----------------------------------------------------------------------------
(* The setup commands write admins, command, lock and, for an invitation,  *)
(* invite; the requests leave these alone but mark invitations used.       *)

CommandsStaySound ==
  /\ admins' \subseteq Commands
  /\ command' \in [Commands -> Command] /\ lock' \in Commands \cup {NoOne}
  /\ FreshCommands' /\ OneAdmin'

LEMMA SnapshotIsSound ==
  ASSUME IInv, NEW k \in Commands, NEW stage \in {"waiting", "working"},
         NEW name \in Names \cup {NoOne}, command[k].tries < MaxTries,
         Snapshot(k, stage, name), UNCHANGED admins, lock' \in Commands \cup {NoOne}
  PROVE  CommandsStaySound
<1> USE DEF IInv, InviteTypeOK
<1>1. /\ command[k] \in Command /\ command[k].tries + 1 \in 0..MaxTries
      /\ admins \in SUBSET Commands
  BY InvitesAssumption DEF Command, InvitesAssumption
<1>2. [command[k] EXCEPT !.stage = stage, !.name = name, !.sees = admins, !.tries = @ + 1] \in Command
  BY <1>1 DEF Command
<1>3. command' = [command EXCEPT ![k] =
        [command[k] EXCEPT !.stage = stage, !.name = name, !.sees = admins, !.tries = @ + 1]]
  BY DEF Snapshot
<1>4. command' \in [Commands -> Command]
  BY <1>2, <1>3
<1>5. \A j \in Commands : command'[j].stage = "new" => j # k /\ command'[j] = command[j]
  BY <1>1, <1>3 DEF Command
<1>6. FreshCommands'
  BY <1>5 DEF FreshCommands
<1> QED
  BY <1>4, <1>6 DEF CommandsStaySound, OneAdmin

LEMMA EndingIsSound ==
  ASSUME IInv, NEW k \in Commands, EndCommand(k), lock' \in Commands \cup {NoOne},
         \/ UNCHANGED admins
         \/ admins = {} /\ admins' = admins \cup {k}
  PROVE  CommandsStaySound
<1> USE DEF IInv, InviteTypeOK
<1>1. command[k] \in Command
  OBVIOUS
<1>2. [command[k] EXCEPT !.stage = "ended"] \in Command
  BY <1>1 DEF Command
<1>3. command' = [command EXCEPT ![k] = [command[k] EXCEPT !.stage = "ended"]]
  BY DEF EndCommand
<1>4. command' \in [Commands -> Command]
  BY <1>2, <1>3
<1>5. \A j \in Commands : command'[j].stage = "new" => j # k /\ command'[j] = command[j]
  BY <1>1, <1>3 DEF Command
<1>6. FreshCommands'
  BY <1>5 DEF FreshCommands
<1> QED
  BY <1>4, <1>6 DEF CommandsStaySound, OneAdmin

LEMMA NewInviteIsSound ==
  ASSUME IInv, NEW i \in Codes, NEW target \in Commands \cup {NoOne},
         NewInvite(i, target), UNCHANGED opened
  PROVE  invite' \in [Codes -> Invitation] /\ CodesOpenOnce'
<1>1. time + InviteTicks \in Nat
  BY InvitesAssumption DEF InvitesAssumption, IInv, InviteTypeOK
<1> DEFINE row == [made |-> TRUE, target |-> target, until |-> time + InviteTicks, used |-> FALSE]
<1>2. row \in Invitation /\ row.used = FALSE
  BY <1>1 DEF Invitation
<1>3. invite' = [invite EXCEPT ![i] = row]
  BY DEF NewInvite
<1>4. ~invite[i].made
  BY DEF NewInvite
<1> QED
  BY <1>2, <1>3, <1>4 DEF IInv, InviteTypeOK, CodesOpenOnce

-----------------------------------------------------------------------------
(* The invariant is inductive.                                             *)

LEMMA SetupKeepsInv ==
  ASSUME IInv, NEW k \in Commands,
         \/ RunBootstrap(k) \/ TakeLock(k) \/ CommitAdmin(k) \/ RejectCommand(k)
         \/ BreakCommand(k) \/ RunLocalProduction(k)
         \/ \E name \in Names : RunCreateStaff(k, name)
         \/ \E i \in Codes : CommitInvitation(k, i)
  PROVE  IInv'
<1> USE DEF IInv, InviteTypeOK
<1>1. command[k] \in Command /\ 0 < MaxTries /\ NoOne \notin Names
  BY InvitesAssumption DEF InvitesAssumption
<1>2. ASSUME CommandsStaySound, errors' \in 0..MaxErrors,
             UNCHANGED <<time, codeVars, attempt, limitVars>>
      PROVE  IInv'
  BY <1>2 DEF CommandsStaySound, CodesOpenOnce, AttemptsAreSound, codeVars, limitVars
<1>3. ASSUME command[k].stage = "new" PROVE command[k].tries < MaxTries
  BY <1>1, <1>3 DEF FreshCommands
<1>4. CASE RunBootstrap(k)
  BY <1>2, <1>3, <1>4, SnapshotIsSound DEF RunBootstrap
<1>5. ASSUME NEW name \in Names, BootstrapAdmin(k, name)
      PROVE  IInv'
  BY <1>2, <1>3, <1>5, SnapshotIsSound DEF BootstrapAdmin
<1>6. CASE TakeLock(k)
  <2>1. command' = [command EXCEPT ![k] = [command[k] EXCEPT !.stage = "working"]]
    BY <1>6 DEF TakeLock
  <2>2. [command[k] EXCEPT !.stage = "working"] \in Command
    BY <1>1 DEF Command
  <2>3. \A j \in Commands : command'[j].stage = "new" => command'[j] = command[j]
    BY <1>1, <2>1 DEF Command
  <2>4. CommandsStaySound
    BY <1>6, <2>1, <2>2, <2>3 DEF TakeLock, CommandsStaySound, FreshCommands, OneAdmin
  <2> QED
    BY <1>2, <1>6, <2>4 DEF TakeLock
<1>7. ASSUME Unlock(k) PROVE lock' \in Commands \cup {NoOne}
  BY <1>7 DEF Unlock
<1>8. CASE CommitAdmin(k)
  BY <1>2, <1>7, <1>8, EndingIsSound DEF CommitAdmin, Conflicts
<1>9. CASE RejectCommand(k)
  <2>1. CASE command[k].name # NoOne /\ command[k].tries < MaxTries
    BY <1>1, <1>2, <1>7, <1>9, <2>1, SnapshotIsSound DEF RejectCommand, Command
  <2>2. CASE ~(command[k].name # NoOne /\ command[k].tries < MaxTries)
    BY <1>2, <1>7, <1>9, <2>2, EndingIsSound DEF RejectCommand
  <2> QED
    BY <2>1, <2>2
<1>10. CASE BreakCommand(k)
  <2>1. errors' \in 0..MaxErrors
    BY <1>10, InvitesAssumption DEF BreakCommand, InvitesAssumption
  <2> QED
    BY <1>2, <1>7, <1>10, <2>1, EndingIsSound DEF BreakCommand
<1>11. ASSUME NEW i \in Codes, CommitInvitation(k, i)
       PROVE  IInv'
  <2>1. CommandsStaySound
    BY <1>11, EndingIsSound DEF CommitInvitation, Conflicts
  <2>2. \E target \in Commands \cup {NoOne} : NewInvite(i, target)
    BY <1>1, <1>11 DEF CommitInvitation, Command
  <2>3. invite' \in [Codes -> Invitation] /\ CodesOpenOnce'
    BY <1>11, <2>2, NewInviteIsSound DEF CommitInvitation
  <2>4. AttemptsAreSound'
    BY <1>11, <2>2 DEF CommitInvitation, NewInvite, AttemptsAreSound
  <2> QED
    BY <1>11, <2>1, <2>3, <2>4 DEF CommitInvitation, CommandsStaySound, limitVars
<1> QED
  BY <1>4, <1>5, <1>6, <1>8, <1>9, <1>10, <1>11, InvitesAssumption
     DEF RunLocalProduction, RunCreateStaff, InvitesAssumption

LEMMA CreateInviteKeepsInv == ASSUME IInv, NEW i \in Codes, CreateInvite(i) PROVE IInv'
<1>1. NewInvite(i, NoOne) /\ UNCHANGED <<time, setupVars, opened, attempt, limitVars, errors>>
  BY DEF CreateInvite
<1>2. invite' \in [Codes -> Invitation] /\ CodesOpenOnce'
  BY <1>1, NewInviteIsSound
<1>3. AttemptsAreSound'
  BY <1>1 DEF NewInvite, AttemptsAreSound, IInv, InviteTypeOK
<1> QED
  BY <1>1, <1>2, <1>3 DEF IInv, InviteTypeOK, FreshCommands, OneAdmin, setupVars, limitVars

LEMMA RequestsKeepInv ==
  ASSUME IInv, NEW a \in Attempts,
         \/ \E c \in Clients, code \in Codes \cup {Wrong} : Redeem(a, c, code)
         \/ TakeTurn(a) \/ Find(a) \/ Consume(a) \/ RejectConsumption(a) \/ BreakAttempt(a)
  PROVE  IInv'
<1> USE DEF IInv, InviteTypeOK
<1>1. attempt[a] \in Attempt
  OBVIOUS
<1>2. ASSUME UNCHANGED <<time, setupVars>>, errors' \in 0..MaxErrors,
             attempt' \in [Attempts -> Attempt] /\ AttemptsAreSound',
             invite' \in [Codes -> Invitation] /\ opened' \in [Codes -> Nat] /\ CodesOpenOnce',
             queueTail' \in [Clients -> Attempts \cup {NoOne}],
             failures' \in [Clients -> Nat] /\ resetsAt' \in [Clients -> Nat],
             tested' \in [Clients -> [0..LastTime -> Nat]]
      PROVE  IInv'
  BY <1>2 DEF setupVars, FreshCommands, OneAdmin
<1>3. ASSUME UNCHANGED codeVars
      PROVE  /\ UNCHANGED <<invite, opened>> /\ CodesOpenOnce'
             /\ \A i \in Codes : invite[i].made => invite'[i].made
  BY <1>3 DEF codeVars, CodesOpenOnce
<1>4. ASSUME NEW c \in Clients, NEW code \in Codes \cup {Wrong}, Redeem(a, c, code)
      PROVE  IInv'
  <2> DEFINE row == [Vacant EXCEPT !.stage = "queued", !.client = c, !.code = code,
                                   !.behind = queueTail[c]]
  <2>1. row \in Attempt /\ row.stage = "queued" /\ row.client = c
    BY DEF Vacant, Attempt
  <2>2. attempt' = [attempt EXCEPT ![a] = row]
    BY <1>4 DEF Redeem
  <2>3. UNCHANGED codeVars
    BY <1>4 DEF Redeem
  <2>4. attempt' \in [Attempts -> Attempt] /\ AttemptsAreSound'
    BY <1>3, <2>1, <2>2, <2>3 DEF AttemptsAreSound
  <2>5. queueTail' \in [Clients -> Attempts \cup {NoOne}]
    BY <1>4 DEF Redeem
  <2> QED
    BY <1>2, <1>3, <1>4, <2>3, <2>4, <2>5 DEF Redeem
<1>5. CASE TakeTurn(a)
  <2> DEFINE c == attempt[a].client
  <2>1. UNCHANGED codeVars
    BY <1>5 DEF TakeTurn
  <2>2. failures' \in [Clients -> Nat]
    BY <1>5 DEF TakeTurn
  <2>3. CASE Leave(a)
    BY <1>2, <1>3, <1>5, <2>1, <2>2, <2>3, LeaveKeepsAttempts DEF TakeTurn
  <2>4. CASE /\ attempt' = [attempt EXCEPT ![a].stage = "asked", ![a].at = time]
             /\ UNCHANGED queueTail
    <3>1. attempt[a].stage = "queued" /\ attempt[a].client \in Clients
      BY <1>5 DEF TakeTurn, AttemptsAreSound
    <3>2. time \in Nat
      BY InvitesAssumption DEF InvitesAssumption
    <3>3. attempt' \in [Attempts -> Attempt]
      BY <1>1, <2>4, <3>2 DEF Attempt
    <3>4. attempt'[a].stage = "asked" /\ attempt'[a].client = attempt[a].client
      BY <1>1, <2>4 DEF Attempt
    <3>5. \A b \in Attempts : b # a => attempt'[b] = attempt[b]
      BY <2>4
    <3>6. AttemptsAreSound'
      BY <1>3, <2>1, <3>1, <3>4, <3>5 DEF AttemptsAreSound
    <3> QED
      BY <1>2, <1>3, <1>5, <2>1, <2>2, <2>4, <3>3, <3>6 DEF TakeTurn
  <2> QED
    BY <1>5, <2>3, <2>4 DEF TakeTurn
<1>6. ASSUME attempt[a].stage # "free", Refuse(a),
             UNCHANGED <<time, setupVars, codeVars, errors>>
      PROVE  IInv'
  <2>1. attempt[a].client \in Clients
    BY <1>6 DEF AttemptsAreSound
  <2> QED
    BY <1>2, <1>3, <1>6, <2>1, InvitesAssumption, RefuseKeepsTypes
<1>7. CASE Find(a)
  <2>1. CASE Redeemable(attempt[a].code, attempt[a].at)
    <3> DEFINE row == [attempt[a] EXCEPT !.stage = "found"]
    <3>1. /\ attempt[a].stage = "asked" /\ attempt[a].client \in Clients
          /\ attempt[a].code \in Codes /\ invite[attempt[a].code].made
      BY <1>1, <1>7, <2>1 DEF Find, AttemptsAreSound, Redeemable, Attempt
    <3>2. /\ row \in Attempt /\ row.client \in Clients
          /\ row.code \in Codes /\ invite[row.code].made
      BY <1>1, <3>1 DEF Attempt
    <3>3. attempt' = [attempt EXCEPT ![a] = row] /\ UNCHANGED codeVars
      BY <1>7, <2>1 DEF Find
    <3>4. attempt' \in [Attempts -> Attempt] /\ AttemptsAreSound'
      BY <1>3, <3>2, <3>3 DEF AttemptsAreSound
    <3> QED
      BY <1>2, <1>3, <1>7, <2>1, <3>3, <3>4 DEF Find, limitVars
  <2>2. CASE ~Redeemable(attempt[a].code, attempt[a].at)
    BY <1>6, <1>7, <2>2 DEF Find
  <2> QED
    BY <2>1, <2>2
<1>8. CASE Consume(a)
  <2> DEFINE code == attempt[a].code
  <2>1. code \in Codes /\ invite[code].made /\ ~invite[code].used
    BY <1>8 DEF Consume, AttemptsAreSound, Changed
  <2>2. [invite[code] EXCEPT !.used = TRUE] \in Invitation
    <3>1. PICK i \in Invitation : i = invite[code]
      BY <2>1
    <3>2. [i EXCEPT !.used = TRUE] \in Invitation
      BY DEF Invitation
    <3> QED
      BY <3>1, <3>2
  <2>3. /\ invite' = [invite EXCEPT ![code] = [invite[code] EXCEPT !.used = TRUE]]
        /\ opened' = [opened EXCEPT ![code] = @ + 1]
    BY <1>8 DEF Consume
  <2>4. invite' \in [Codes -> Invitation] /\ opened' \in [Codes -> Nat]
    BY <2>1, <2>2, <2>3
  <2>5. invite'[code].made /\ invite'[code].used
    BY <2>1, <2>3 DEF Invitation
  <2>6. \A i \in Codes : i # code => invite'[i] = invite[i] /\ opened'[i] = opened[i]
    BY <2>3
  <2>7. opened[code] = 0 /\ opened'[code] = 1
    BY <2>1, <2>3 DEF CodesOpenOnce
  <2>8. CodesOpenOnce' /\ \A i \in Codes : invite[i].made => invite'[i].made
    <3>1. \A i \in Codes : /\ opened'[i] = IF invite'[i].used THEN 1 ELSE 0
                           /\ invite'[i].used => invite'[i].made
                           /\ invite[i].made => invite'[i].made
      <4> TAKE i \in Codes
      <4>1. CASE i = code
        BY <2>5, <2>7, <4>1
      <4>2. CASE i # code
        BY <2>6, <4>2 DEF CodesOpenOnce
      <4> QED
        BY <4>1, <4>2
    <3> QED
      BY <3>1 DEF CodesOpenOnce
  <2> QED
    BY <1>2, <1>8, <2>4, <2>8, LeaveKeepsAttempts DEF Consume
<1>9. CASE RejectConsumption(a)
  BY <1>6, <1>9 DEF RejectConsumption
<1>10. CASE BreakAttempt(a)
  <2>1. errors' \in 0..MaxErrors
    BY <1>10, InvitesAssumption DEF BreakAttempt, InvitesAssumption
  <2> QED
    BY <1>2, <1>3, <1>10, <2>1, LeaveKeepsAttempts DEF BreakAttempt
<1> QED
  BY <1>4, <1>5, <1>7, <1>8, <1>9, <1>10

LEMMA InvIsInductive == IInv /\ [InviteNext]_inviteVars => IInv'
<1> SUFFICES ASSUME IInv, [InviteNext]_inviteVars PROVE IInv'
  OBVIOUS
<1>1. CASE UNCHANGED inviteVars
  BY <1>1 DEF inviteVars, setupVars, codeVars, limitVars, IInv, InviteTypeOK, FreshCommands,
     OneAdmin, CodesOpenOnce, AttemptsAreSound
<1>2. CASE PassTime
  <2>1. time' \in 0..LastTime
    BY <1>2, InvitesAssumption DEF PassTime, IInv, InviteTypeOK, InvitesAssumption
  <2> QED
    BY <1>2, <2>1 DEF PassTime, setupVars, codeVars, limitVars, IInv, InviteTypeOK,
       FreshCommands, OneAdmin, CodesOpenOnce, AttemptsAreSound
<1>3. ASSUME NEW k \in Commands,
             \/ RunBootstrap(k) \/ TakeLock(k) \/ CommitAdmin(k) \/ RejectCommand(k)
             \/ BreakCommand(k) \/ RunLocalProduction(k)
             \/ \E name \in Names : RunCreateStaff(k, name)
             \/ \E i \in Codes : CommitInvitation(k, i)
      PROVE  IInv'
  BY <1>3, SetupKeepsInv
<1>4. ASSUME NEW i \in Codes, CreateInvite(i) PROVE IInv'
  BY <1>4, CreateInviteKeepsInv
<1>5. ASSUME NEW a \in Attempts,
             \/ \E c \in Clients, code \in Codes \cup {Wrong} : Redeem(a, c, code)
             \/ TakeTurn(a) \/ Find(a) \/ Consume(a) \/ RejectConsumption(a) \/ BreakAttempt(a)
      PROVE  IInv'
  BY <1>5, RequestsKeepInv
<1> QED
  BY <1>1, <1>2, <1>3, <1>4, <1>5 DEF InviteNext

\* One administrator and one session per code is what the property says.
LEMMA InvImpliesOnce == IInv => EachIsMadeOnce
<1> SUFFICES ASSUME IInv PROVE EachIsMadeOnce
  OBVIOUS
<1>1. Cardinality(admins) <= 1
  <2>1. CASE admins = {}
    BY <2>1, FS_EmptySet
  <2>2. ASSUME NEW k \in Commands, admins = {k} PROVE Cardinality(admins) <= 1
    <3>1. Cardinality({k}) = 1
      BY FS_Singleton
    <3> QED
      BY <2>2, <3>1
  <2> QED
    BY <2>1, <2>2 DEF IInv, OneAdmin
<1>2. \A i \in Codes : opened[i] <= 1
  BY DEF IInv, CodesOpenOnce
<1> QED
  BY <1>1, <1>2 DEF EachIsMadeOnce

-----------------------------------------------------------------------------
\* The variables of setup, invitations and the limiter keep their types,
\* whatever commands and requests overlap.
THEOREM InviteTypes == InviteSpec => []InviteTypeOK
<1>1. IInv => InviteTypeOK
  BY DEF IInv
<1> QED
  BY <1>1, InitSound, InvIsInductive, PTL DEF InviteSpec

\* Setup commands that overlap make one administrator (bootstrapAdminInvite,
\* bootstrapInitialAdmin), and a code that several redeem at once lets in one
\* (redeem), however many there are.
THEOREM MadeOnce == InviteSpec => []EachIsMadeOnce
  BY InvImpliesOnce, InitSound, InvIsInductive, PTL DEF InviteSpec

-----------------------------------------------------------------------------
(* Guesses: counts over stretches of time.                                 *)

Times == 0..LastTime
Span(from, to) == {t \in Times : from <= t /\ t < to}
CountIn(f, from, to) == TotalOf(f, Span(from, to))

LEMMA SpanIsFinite ==
  ASSUME NEW from \in Int, NEW to \in Int
  PROVE  IsFiniteSet(Span(from, to)) /\ Span(from, to) \subseteq Times
<1>1. IsFiniteSet(Times)
  BY FS_Interval, InvitesAssumption DEF InvitesAssumption, Times
<1> QED
  BY <1>1, FS_Subset DEF Span

LEMMA CountIsNat ==
  ASSUME NEW f \in [Times -> Nat], NEW from \in Int, NEW to \in Int
  PROVE  CountIn(f, from, to) \in Nat
<1>1. \A t \in Span(from, to) : f[t] \in Nat
  BY DEF Span
<1> QED
  BY <1>1, SpanIsFinite, TotalIsNat DEF CountIn

\* A stretch is counted in two parts.
LEMMA CountsJoin ==
  ASSUME NEW f \in [Times -> Nat], NEW from \in Int, NEW mid \in Int, NEW to \in Int,
         from <= mid, mid <= to
  PROVE  CountIn(f, from, to) = CountIn(f, from, mid) + CountIn(f, mid, to)
<1>1. PICK A : A = Span(from, mid)
  OBVIOUS
<1>2. PICK B : B = Span(mid, to)
  OBVIOUS
<1>3. PICK C : C = Span(from, to)
  OBVIOUS
<1>4. Times \subseteq Int
  BY DEF Times
<1>5. C = A \cup B /\ A \cap B = {}
  <2>1. \A t \in Times : /\ t \in A <=> from <= t /\ t < mid
                         /\ t \in B <=> mid <= t /\ t < to
                         /\ t \in C <=> from <= t /\ t < to
    BY <1>1, <1>2, <1>3 DEF Span
  <2>2. \A t \in Times : (t \in C <=> t \in A \/ t \in B) /\ ~(t \in A /\ t \in B)
    BY <1>4, <2>1
  <2>3. A \subseteq Times /\ B \subseteq Times /\ C \subseteq Times
    BY <1>1, <1>2, <1>3 DEF Span
  <2> QED
    BY <2>2, <2>3
<1>6. IsFiniteSet(A) /\ IsFiniteSet(B) /\ \A t \in A \cup B : f[t] \in Int
  BY <1>1, <1>2, SpanIsFinite
<1>7. TotalOf(f, A \cup B) = TotalOf(f, A) + TotalOf(f, B)
  BY <1>5, <1>6, TotalOfTwo
<1> QED
  BY <1>1, <1>2, <1>3, <1>5, <1>7, Zenon DEF CountIn

\* A count of more time is no smaller.
LEMMA CountOfPart ==
  ASSUME NEW f \in [Times -> Nat], NEW from \in Int, NEW a \in Int, NEW b \in Int, NEW to \in Int,
         from <= a, a <= b, b <= to
  PROVE  CountIn(f, a, b) <= CountIn(f, from, to)
<1>1. CountIn(f, from, to) = CountIn(f, from, a) + CountIn(f, a, to)
  BY CountsJoin
<1>2. CountIn(f, a, to) = CountIn(f, a, b) + CountIn(f, b, to)
  BY CountsJoin
<1>3. /\ CountIn(f, from, a) \in Nat /\ CountIn(f, a, b) \in Nat
      /\ CountIn(f, b, to) \in Nat /\ CountIn(f, a, to) \in Nat
  BY CountIsNat
<1> QED
  BY <1>1, <1>2, <1>3

LEMMA CountOfOne ==
  ASSUME NEW f \in [Times -> Nat], NEW a \in Times
  PROVE  CountIn(f, a, a + 1) = f[a]
<1>1. PICK A : A = Span(a, a + 1)
  OBVIOUS
<1>2. a \in Int /\ Times \subseteq Int
  BY DEF Times
<1>3. A = {} \cup {a}
  <2>1. \A t \in Times : t \in A <=> a <= t /\ t < a + 1
    BY <1>1 DEF Span
  <2>2. \A t \in Times : t \in A <=> t = a
    BY <1>2, <2>1
  <2>3. A \subseteq Times
    BY <1>1 DEF Span
  <2> QED
    BY <2>2, <2>3
<1>4. TotalOf(f, {} \cup {a}) = TotalOf(f, {}) + f[a]
  BY TotalAdds, FS_EmptySet
<1>5. TotalOf(f, {}) = 0 /\ f[a] \in Nat
  BY TotalOfNone
<1>6. CountIn(f, a, a + 1) = TotalOf(f, {} \cup {a})
  BY <1>1, <1>3, Zenon DEF CountIn
<1> QED
  BY <1>4, <1>5, <1>6

LEMMA CountOfNone ==
  ASSUME NEW f \in [Times -> Nat], NEW from \in Int, NEW to \in Int,
         \A t \in Times : from <= t => f[t] = 0
  PROVE  CountIn(f, from, to) = 0
<1>1. \A t \in Span(from, to) : f[t] = 0
  BY DEF Span
<1> QED
  BY <1>1, SpanIsFinite, TotalOfZeros DEF CountIn

\* One guess more, at one time.
LEMMA CountGrows ==
  ASSUME NEW f \in [Times -> Nat], NEW g \in [Times -> Nat], NEW now \in Times,
         g[now] = f[now] + 1, \A t \in Times : t # now => g[t] = f[t],
         NEW from \in Int, NEW to \in Int
  PROVE  CountIn(g, from, to) =
           CountIn(f, from, to) + (IF from <= now /\ now < to THEN 1 ELSE 0)
<1>1. PICK A : A = Span(from, to)
  OBVIOUS
<1>2. IsFiniteSet(A) /\ A \subseteq Times /\ (now \in A <=> from <= now /\ now < to)
  BY <1>1, SpanIsFinite DEF Span
<1>3. \A t \in A : f[t] \in Int /\ g[t] \in Int /\ (t # now => g[t] = f[t])
  BY <1>2
<1>4. CASE now \in A
  <2>1. TotalOf(g, A) = TotalOf(f, A) - f[now] + g[now]
    BY <1>2, <1>3, <1>4, TotalGrows
  <2>2. TotalOf(f, A) \in Int /\ g[now] = f[now] + 1
    BY <1>2, <1>3, TotalIsInt
  <2> QED
    BY <1>1, <1>2, <1>3, <1>4, <2>1, <2>2 DEF CountIn
<1>5. CASE now \notin A
  <2>1. TotalOf(g, A) = TotalOf(f, A) /\ TotalOf(f, A) \in Int
    <3>1. \A t \in A : g[t] = f[t]
      BY <1>3, <1>5
    <3>2. TotalOf(g, A) = TotalOf(f, A)
      BY <1>2, <3>1, TotalsOfEquals
    <3>3. TotalOf(f, A) \in Int
      BY <1>2, <1>3, TotalIsInt
    <3> QED
      BY <3>2, <3>3
  <2> QED
    BY <1>1, <1>2, <1>5, <2>1 DEF CountIn
<1> QED
  BY <1>4, <1>5

-----------------------------------------------------------------------------
(* What the limiter knows of a client: f counts its guesses by time, n and *)
(* resets are its entry.  Its last window was never counted past the       *)
(* limit, and a stretch that reaches into it from before began after the   *)
(* first guess of the window before, which it does not count.              *)

LastWindow(f, n, resets, now) ==
  LET start == resets - GuessWindow
  IN  /\ start \in 0..now
      /\ f[start] >= 1
      /\ CountIn(f, start, LastTime + 1) <= MaximumFailures
      /\ n > 0 => CountIn(f, start, LastTime + 1) = n
      /\ n = 0 => resets <= now
      /\ \A a \in 0..start : a + GuessWindow > start => CountIn(f, a, start) < MaximumFailures
Limited(f, n, resets, now) ==
  /\ \A t \in Times : t > now \/ t >= resets => f[t] = 0
  /\ n <= MaximumFailures
  /\ resets = 0 => n = 0
  /\ resets # 0 => LastWindow(f, n, resets, now)
  /\ \A a \in Times : CountIn(f, a, a + GuessWindow) < 2 * MaximumFailures

LEMMA LimitsArePositive ==
  /\ MaximumFailures \in Nat \ {0} /\ GuessWindow \in Nat \ {0} /\ LastTime \in Nat
  /\ Times \subseteq Nat /\ \A t \in Times : t <= LastTime
BY InvitesAssumption DEF InvitesAssumption, Times

LEMMA WindowIsForgotten ==
  ASSUME NEW f \in [Times -> Nat], NEW n \in Nat, NEW resets \in Nat, NEW now \in Times,
         Limited(f, n, resets, now), n > 0, resets <= now
  PROVE  Limited(f, 0, resets, now)
BY LimitsArePositive DEF Limited, LastWindow

LEMMA TimePassesOver ==
  ASSUME NEW f \in [Times -> Nat], NEW n \in Nat, NEW resets \in Nat, NEW now \in Times,
         Limited(f, n, resets, now)
  PROVE  Limited(f, n, resets, now + 1)
<1>1. now \in Nat
  BY LimitsArePositive
<1>2. resets # 0 => LastWindow(f, n, resets, now + 1)
  BY <1>1, LimitsArePositive DEF Limited, LastWindow
<1>3. \A t \in Times : t > now + 1 => t > now
  BY <1>1, LimitsArePositive
<1> QED
  BY <1>2, <1>3 DEF Limited

\* All that the next two lemmas use of counts.
LEMMA CountsAreSound ==
  ASSUME NEW f \in [Times -> Nat]
  PROVE  /\ \A a, b \in Int : CountIn(f, a, b) \in Nat
         /\ \A a, b, c \in Int : a <= b /\ b <= c =>
              CountIn(f, a, c) = CountIn(f, a, b) + CountIn(f, b, c)
         /\ \A a, b \in Int : (\A t \in Times : a <= t => f[t] = 0) => CountIn(f, a, b) = 0
         /\ \A a \in Times : CountIn(f, a, a + 1) = f[a]
<1>1. \A a, b \in Int : CountIn(f, a, b) \in Nat
  BY CountIsNat
<1>2. ASSUME NEW a \in Int, NEW b \in Int, NEW c \in Int, a <= b, b <= c
      PROVE  CountIn(f, a, c) = CountIn(f, a, b) + CountIn(f, b, c)
  BY <1>2, CountsJoin
<1>3. ASSUME NEW a \in Int, NEW b \in Int, \A t \in Times : a <= t => f[t] = 0
      PROVE  CountIn(f, a, b) = 0
  BY <1>3, CountOfNone
<1>4. ASSUME NEW a \in Times PROVE CountIn(f, a, a + 1) = f[a]
  BY CountOfOne
<1> QED
  BY <1>1, <1>2, <1>3, <1>4

\* A guess is counted in the window there is, unless the limit is reached.
LEMMA GuessIsCounted ==
  ASSUME NEW f \in [Times -> Nat], NEW n \in Nat, NEW resets \in Nat, NEW now \in Times,
         Limited(f, n, resets, now), n > 0, n < MaximumFailures, ~(resets <= now),
         NEW g \in [Times -> Nat], g[now] = f[now] + 1,
         \A t \in Times : t # now => g[t] = f[t]
  PROVE  Limited(g, n + 1, resets, now)
<1>a. PICK M, G : M = MaximumFailures /\ G = GuessWindow
  OBVIOUS
<1>b. PICK start : start = resets - G
  OBVIOUS
<1>c. PICK end : end = LastTime + 1
  OBVIOUS
<1>d. /\ \A a, b \in Int : CountIn(f, a, b) \in Nat /\ CountIn(g, a, b) \in Nat
      /\ \A a, b, c \in Int : a <= b /\ b <= c =>
           CountIn(g, a, c) = CountIn(g, a, b) + CountIn(g, b, c)
      /\ \A a, b, c \in Int : a <= b /\ b <= c =>
           CountIn(f, a, c) = CountIn(f, a, b) + CountIn(f, b, c)
      /\ \A a, b \in Int : (\A t \in Times : a <= t => g[t] = 0) => CountIn(g, a, b) = 0
      /\ \A a, b \in Int : (\A t \in Times : a <= t => f[t] = 0) => CountIn(f, a, b) = 0
      /\ \A a \in Times : CountIn(f, a, a + 1) = f[a] /\ CountIn(g, a, a + 1) = g[a]
  BY CountsAreSound
<1>e. \A a, b \in Int : CountIn(g, a, b) =
                        CountIn(f, a, b) + (IF a <= now /\ now < b THEN 1 ELSE 0)
  BY CountGrows
<1>p. ASSUME NEW a \in Int, NEW b \in Int, NEW c \in Int, NEW d \in Int, a <= b, b <= c, c <= d
      PROVE  CountIn(f, b, c) <= CountIn(f, a, d) /\ CountIn(g, b, c) <= CountIn(g, a, d)
  BY <1>p, CountOfPart
<1>1. /\ M \in Nat /\ G \in Nat /\ G > 0 /\ end \in Int /\ now \in Int /\ now >= 0 /\ now < end
      /\ resets # 0 /\ resets > now /\ n + 1 <= M /\ n + 1 # 0 /\ n + 1 > 0
  BY <1>a, <1>c, LimitsArePositive DEF Limited
<1>2. /\ start \in 0..now /\ f[start] >= 1 /\ CountIn(f, start, end) = n
      /\ \A a \in 0..start : a + G > start => CountIn(f, a, start) < M
  <2>1. LastWindow(f, n, resets, now)
    BY <1>1 DEF Limited
  <2> QED
    BY <2>1, <1>a, <1>b, <1>c DEF LastWindow
<1>3. start \in Int /\ start >= 0 /\ start <= now /\ start \in Times
  BY <1>1, <1>2, LimitsArePositive DEF Times
<1>4. g \in [Times -> Nat] /\ g[start] >= 1 /\ \A t \in Times : t # now => g[t] = f[t]
  <2>1. f[start] >= 1 /\ f[start] \in Nat /\ f[now] \in Nat
    BY <1>2, <1>3
  <2> QED
    BY <2>1, <1>3
<1>5. CountIn(f, start, end) = n
  BY <1>2
<1>6. CountIn(g, start, end) = n + 1
  BY <1>1, <1>3, <1>5, <1>e
<1>7. ASSUME NEW a \in 0..start PROVE CountIn(g, a, start) = CountIn(f, a, start)
  <2>0. a \in Int
    BY <1>3
  <2>1. CountIn(f, a, start) \in Nat
    BY <1>3, <2>0, CountIsNat
  <2>2. ~(now < start)
    BY <1>1, <1>3
  <2> QED
    BY <1>3, <2>0, <2>1, <2>2, <1>e
<1>8. LastWindow(g, n + 1, resets, now)
  <2>1. \A a \in 0..start : a + G > start => CountIn(g, a, start) < M
    BY <1>2, <1>7
  <2>2. CountIn(g, start, end) <= M
    BY <1>1, <1>6
  <2> QED
    BY <1>a, <1>b, <1>c, <1>1, <1>2, <1>4, <1>6, <2>1, <2>2 DEF LastWindow
<1>9. ASSUME NEW a \in Times PROVE CountIn(g, a, a + G) < 2 * M
  <2>0. PICK b : b = a + G
    OBVIOUS
  <2>1. a \in Int /\ a >= 0 /\ b \in Int /\ a <= b /\ (now < b <=> now < a + G)
    BY <2>0, <1>1, LimitsArePositive
  <2>2. CountIn(f, a, b) < 2 * M /\ CountIn(f, a, b) \in Nat
    BY <2>0, <2>1, <1>a, <1>d DEF Limited
  <2> SUFFICES CountIn(g, a, b) < 2 * M
    BY <2>0
  <2>3. CASE ~(a <= now /\ now < b)
    <3>1. CountIn(g, a, b) = CountIn(f, a, b)
      BY <2>1, <2>2, <2>3, <1>e
    <3> QED
      BY <2>2, <3>1
  <2>4. CASE a <= now /\ now < b /\ start < a
    <3>0. CASE b <= end
      <4>1. CountIn(g, a, b) <= CountIn(g, start, end)
        BY <1>1, <1>3, <2>1, <2>4, <3>0, <1>p
      <4>2. CountIn(g, a, b) \in Nat
        BY <1>4, <2>1, <1>d
      <4> QED
        BY <1>1, <1>6, <4>1, <4>2
    <3>1. CASE ~(b <= end)
      <4>1. CountIn(g, a, b) = CountIn(g, a, end) + CountIn(g, end, b)
        BY <1>1, <1>4, <2>1, <2>4, <3>1, <1>d
      <4>2. CountIn(g, end, b) = 0
        <5>1. \A t \in Times : end <= t => g[t] = 0
          BY <1>c, LimitsArePositive
        <5> QED
          BY <1>1, <1>4, <2>1, <5>1, <1>d
      <4>3. CountIn(g, a, end) <= CountIn(g, start, end) /\ CountIn(g, a, end) \in Nat
        <5>1. start <= a /\ a <= end
          BY <1>1, <1>3, <2>1, <2>4
        <5>2. CountIn(g, a, end) <= CountIn(g, start, end)
          BY <1>1, <1>3, <2>1, <5>1, <1>p
        <5> QED
          BY <1>1, <2>1, <5>2, <1>d
      <4> QED
        BY <1>1, <1>6, <4>1, <4>2, <4>3
    <3> QED
      BY <3>0, <3>1
  <2>5. CASE a <= now /\ now < b /\ ~(start < a)
    <3>1. CountIn(g, a, b) = CountIn(g, a, start) + CountIn(g, start, b)
      BY <1>1, <1>3, <1>4, <2>1, <2>5, <1>d
    <3>2. a \in 0..start /\ b > start /\ a + G > start
      BY <1>1, <1>3, <2>0, <2>1, <2>5
    <3>3. CountIn(g, a, start) < M /\ CountIn(g, a, start) \in Nat
      <4>1. CountIn(g, a, start) < M
        BY <1>2, <1>7, <3>2
      <4>2. CountIn(g, a, start) \in Nat
        BY <1>3, <1>4, <2>1, <1>d
      <4> QED
        BY <4>1, <4>2
    <3>4. CountIn(g, start, b) <= n + 1 /\ CountIn(g, start, b) \in Nat
      <4>1. CountIn(g, start, b) \in Nat
        BY <1>3, <1>4, <2>1, <1>d
      <4>2. CASE b <= end
        BY <1>1, <1>3, <1>6, <2>1, <2>5, <4>1, <4>2, <1>p
      <4>3. CASE ~(b <= end)
        <5>1. CountIn(g, start, b) = CountIn(g, start, end) + CountIn(g, end, b)
          BY <1>1, <1>3, <1>4, <2>1, <4>3, <1>d
        <5>2. \A t \in Times : end <= t => g[t] = 0
          BY <1>c, LimitsArePositive
        <5>3. CountIn(g, end, b) = 0
          BY <1>1, <1>4, <2>1, <5>2, <1>d
        <5> QED
          BY <1>6, <4>1, <5>1, <5>3
      <4> QED
        BY <4>2, <4>3
    <3> QED
      BY <1>1, <3>1, <3>3, <3>4
  <2> QED
    BY <2>3, <2>4, <2>5
<1>10. \A t \in Times : t > now \/ t >= resets => g[t] = 0
  <2> SUFFICES ASSUME NEW t \in Times, t > now \/ t >= resets PROVE g[t] = 0
    OBVIOUS
  <2>1. t # now
    BY <1>1, LimitsArePositive
  <2> QED
    BY <2>1, <1>4 DEF Limited
<1> QED
  BY <1>a, <1>1, <1>8, <1>9, <1>10 DEF Limited

\* The first guess after a window opens the next.
LEMMA GuessOpensWindow ==
  ASSUME NEW f \in [Times -> Nat], NEW n \in Nat, NEW resets \in Nat, NEW now \in Times,
         Limited(f, n, resets, now), n = 0 \/ resets <= now,
         NEW g \in [Times -> Nat], g[now] = f[now] + 1,
         \A t \in Times : t # now => g[t] = f[t]
  PROVE  Limited(g, 1, now + GuessWindow, now)
<1>a. PICK M, G : M = MaximumFailures /\ G = GuessWindow
  OBVIOUS
<1>b. PICK start : start = resets - G
  OBVIOUS
<1>c. PICK end : end = LastTime + 1
  OBVIOUS
<1>d. /\ \A a, b \in Int : CountIn(f, a, b) \in Nat /\ CountIn(g, a, b) \in Nat
      /\ \A a, b, c \in Int : a <= b /\ b <= c =>
           CountIn(g, a, c) = CountIn(g, a, b) + CountIn(g, b, c)
      /\ \A a, b, c \in Int : a <= b /\ b <= c =>
           CountIn(f, a, c) = CountIn(f, a, b) + CountIn(f, b, c)
      /\ \A a, b \in Int : (\A t \in Times : a <= t => g[t] = 0) => CountIn(g, a, b) = 0
      /\ \A a, b \in Int : (\A t \in Times : a <= t => f[t] = 0) => CountIn(f, a, b) = 0
      /\ \A a \in Times : CountIn(f, a, a + 1) = f[a] /\ CountIn(g, a, a + 1) = g[a]
  BY CountsAreSound
<1>e. \A a, b \in Int : CountIn(g, a, b) =
                        CountIn(f, a, b) + (IF a <= now /\ now < b THEN 1 ELSE 0)
  BY CountGrows
<1>p. ASSUME NEW a \in Int, NEW b \in Int, NEW c \in Int, NEW d \in Int, a <= b, b <= c, c <= d
      PROVE  CountIn(f, b, c) <= CountIn(f, a, d) /\ CountIn(g, b, c) <= CountIn(g, a, d)
  BY <1>p, CountOfPart
<1>1. /\ M \in Nat /\ M >= 1 /\ G \in Nat /\ G > 0 /\ end \in Int
      /\ now \in Int /\ now >= 0 /\ now < end
  BY <1>a, <1>c, LimitsArePositive
<1>2. resets <= now
  BY <1>1 DEF Limited, LastWindow
<1>3. \A t \in Times : now <= t => f[t] = 0
  <2> SUFFICES ASSUME NEW t \in Times, now <= t PROVE f[t] = 0
    OBVIOUS
  <2>1. t >= resets
    BY <1>1, <1>2, LimitsArePositive
  <2> QED
    BY <2>1 DEF Limited
<1>4. /\ g \in [Times -> Nat] /\ g[now] = 1
      /\ \A t \in Times : now < t => g[t] = 0
  <2>1. f[now] = 0
    BY <1>1, <1>3
  <2>2. \A t \in Times : now < t => t # now /\ now <= t
    BY <1>1, LimitsArePositive
  <2> QED
    BY <1>3, <2>1, <2>2
<1>5. ASSUME NEW to \in Int, now < to PROVE CountIn(g, now, to) = 1
  <2>1. CountIn(g, now, to) = CountIn(g, now, now + 1) + CountIn(g, now + 1, to)
    BY <1>1, <1>4, <1>5, <1>d
  <2>2. \A t \in Times : now + 1 <= t => g[t] = 0
    BY <1>1, <1>4, LimitsArePositive
  <2>3. CountIn(g, now + 1, to) = 0
    BY <1>1, <1>4, <1>5, <2>2, <1>d
  <2>4. CountIn(g, now, now + 1) = 1
    BY <1>4, <1>d
  <2> QED
    BY <2>1, <2>3, <2>4
\* A stretch that reaches the new window missed the first guess of the last.
<1>6. ASSUME NEW a \in 0..now, a + G > now
      PROVE  CountIn(f, a, now) < M /\ CountIn(f, a, now) \in Nat
  <2>1. a \in Int /\ a >= 0 /\ a <= now
    BY <1>1
  <2>2. CountIn(f, a, now) \in Nat
    BY <1>1, <2>1, <1>d
  <2>3. CASE resets = 0
    <3>1. \A t \in Times : a <= t => f[t] = 0
      BY <2>3, LimitsArePositive DEF Limited
    <3>2. CountIn(f, a, now) = 0
      BY <1>1, <2>1, <3>1, <1>d
    <3> QED
      BY <1>1, <3>2
  <2>4. CASE resets # 0
    <3>1. start \in 0..now /\ f[start] >= 1 /\ CountIn(f, start, end) <= M
      BY <2>4, <1>a, <1>b, <1>c DEF Limited, LastWindow
    <3>2. start \in Int /\ start >= 0 /\ start < a /\ start \in Times
      BY <1>b, <1>1, <1>2, <1>6, <2>1, <3>1, LimitsArePositive DEF Times
    <3>3. f[start] >= 1 /\ f[start] \in Nat /\ CountIn(f, start, end) <= M
      BY <3>1, <3>2
    <3>4. CountIn(f, start, end) = CountIn(f, start, start + 1) + CountIn(f, start + 1, end)
      <4>1. start + 1 \in Int /\ start + 1 <= end /\ start <= start + 1
        BY <1>1, <2>1, <3>2
      <4> QED
        BY <1>1, <3>2, <4>1, <1>d
    <3>5. CountIn(f, start, start + 1) = f[start]
      BY <3>2, <1>d
    <3>6. CountIn(f, a, now) <= CountIn(f, start + 1, end)
      <4>1. start + 1 \in Int /\ start + 1 <= a /\ now <= end
        BY <1>1, <2>1, <3>2
      <4> QED
        BY <1>1, <2>1, <4>1, <1>p
    <3>7. CountIn(f, start + 1, end) \in Nat /\ CountIn(f, start, end) \in Nat
      <4>1. start + 1 \in Int
        BY <3>2
      <4> QED
        BY <1>1, <3>2, <4>1, CountIsNat
    <3> QED
      BY <1>1, <2>2, <3>3, <3>4, <3>5, <3>6, <3>7
  <2> QED
    BY <2>2, <2>3, <2>4
<1>7. ASSUME NEW a \in 0..now PROVE CountIn(g, a, now) = CountIn(f, a, now)
  <2>0. a \in Int
    BY <1>1
  <2>1. CountIn(f, a, now) \in Nat
    BY <1>1, <2>0, CountIsNat
  <2> QED
    BY <1>1, <2>0, <2>1, <1>e
<1>8. LastWindow(g, 1, now + G, now)
  <2>1. (now + G) - G = now /\ now \in 0..now
    BY <1>1
  <2>2. CountIn(g, now, end) = 1
    BY <1>1, <1>5
  <2>3. \A a \in 0..now : a + G > now => CountIn(g, a, now) < M
    BY <1>6, <1>7
  <2> QED
    BY <1>a, <1>c, <1>1, <1>4, <2>1, <2>2, <2>3 DEF LastWindow
<1>9. ASSUME NEW a \in Times PROVE CountIn(g, a, a + G) < 2 * M
  <2>0. PICK b : b = a + G
    OBVIOUS
  <2>1. a \in Int /\ a >= 0 /\ b \in Int /\ a <= b /\ (now < b <=> now < a + G)
    BY <2>0, <1>1, LimitsArePositive
  <2>2. CountIn(f, a, b) < 2 * M /\ CountIn(f, a, b) \in Nat
    BY <2>0, <2>1, <1>a, <1>d DEF Limited
  <2> SUFFICES CountIn(g, a, b) < 2 * M
    BY <2>0
  <2>3. CASE ~(a <= now /\ now < b)
    <3>1. CountIn(g, a, b) = CountIn(f, a, b)
      BY <1>1, <2>1, <2>2, <2>3, <1>e
    <3> QED
      BY <2>2, <3>1
  <2>4. CASE a <= now /\ now < b
    <3>1. CountIn(g, a, b) = CountIn(g, a, now) + CountIn(g, now, b)
      BY <1>1, <1>4, <2>1, <2>4, <1>d
    <3>2. a \in 0..now /\ CountIn(g, now, b) = 1
      BY <1>1, <1>5, <2>1, <2>4
    <3>3. CountIn(g, a, now) < M /\ CountIn(g, a, now) \in Nat
      BY <1>6, <1>7, <2>0, <2>4, <3>2
    <3> QED
      BY <1>1, <3>1, <3>2, <3>3
  <2> QED
    BY <2>3, <2>4
<1>10. \A t \in Times : t > now \/ t >= now + G => g[t] = 0
  <2> SUFFICES ASSUME NEW t \in Times, t > now \/ t >= now + G PROVE g[t] = 0
    OBVIOUS
  <2>1. now < t
    BY <1>1, LimitsArePositive
  <2> QED
    BY <2>1, <1>4
<1> QED
  BY <1>a, <1>1, <1>8, <1>9, <1>10 DEF Limited

-----------------------------------------------------------------------------
(* The queues: the attempts of a client come one after another, numbered   *)
(* by place.  Only the one whose turn it is waits for no one.              *)

Lined(c) == {a \in Attempts : attempt[a].stage # "free" /\ attempt[a].client = c}
InTurn(a) == attempt[a].stage \in {"asked", "found"}

LineOf(c, place) ==
  /\ queueTail[c] # NoOne => queueTail[c] \in Lined(c)
  /\ \A a \in Lined(c) :
       /\ queueTail[c] # NoOne /\ place[a] <= place[queueTail[c]]
       /\ attempt[a].behind = NoOne => \A b \in Lined(c) : place[a] <= place[b]
       /\ attempt[a].behind # NoOne =>
            attempt[a].behind \in Lined(c) /\ place[a] = place[attempt[a].behind] + 1
       /\ \A b \in Lined(c) : place[a] = place[b] => a = b
       /\ InTurn(a) => attempt[a].behind = NoOne
Queues == \E place \in [Attempts -> Nat] : \A c \in Clients : LineOf(c, place)

\* Whose turn it is has failed less often than the limit.
TurnsAreAllowed ==
  \A a \in Attempts : InTurn(a) => failures[attempt[a].client] < MaximumFailures
GuessesAreLimited ==
  \A c \in Clients : Limited(tested[c], failures[c], resetsAt[c], time)
GuessInv == IInv /\ Queues /\ TurnsAreAllowed /\ GuessesAreLimited

\* Whose turn it is waits for no one.
LEMMA OnlyHeadsHaveTurns ==
  ASSUME IInv, Queues, NEW a \in Attempts, InTurn(a)
  PROVE  attempt[a].behind = NoOne
<1>1. PICK place \in [Attempts -> Nat] : \A c \in Clients : LineOf(c, place)
  BY DEF Queues
<1>2. PICK c \in Clients : attempt[a].client = c /\ a \in Lined(c)
  BY DEF IInv, AttemptsAreSound, InTurn, Lined
<1> QED
  BY <1>1, <1>2 DEF LineOf

\* One attempt of a client has its turn.
LEMMA OneTurn ==
  ASSUME IInv, Queues, NEW a \in Attempts, NEW b \in Attempts,
         attempt[a].stage # "free", attempt[a].behind = NoOne, InTurn(b),
         attempt[a].client = attempt[b].client
  PROVE  a = b
<1>1. PICK place \in [Attempts -> Nat] : \A c \in Clients : LineOf(c, place)
  BY DEF Queues
<1>2. PICK c \in Clients : attempt[a].client = c /\ attempt[b].client = c
  BY DEF IInv, AttemptsAreSound
<1>3. a \in Lined(c) /\ b \in Lined(c)
  BY <1>2 DEF Lined, InTurn
<1>4. place[a] <= place[b] /\ place[b] <= place[a]
  BY <1>1, <1>3 DEF LineOf
<1>5. place[a] = place[b]
  BY <1>4
<1> QED
  BY <1>1, <1>3, <1>5 DEF LineOf

\* Whoever leaves when it is its turn is the first of its line.
LEMMA LeavingKeepsQueues ==
  ASSUME IInv, Queues, NEW a \in Attempts, attempt[a].stage # "free",
         attempt[a].behind = NoOne, Leave(a)
  PROVE  /\ Queues'
         /\ \A b \in Attempts : InTurn(b)' =>
              b # a /\ InTurn(b) /\ attempt'[b].client = attempt[b].client
<1>1. PICK place \in [Attempts -> Nat] : \A c \in Clients : LineOf(c, place)
  BY DEF Queues
<1>2. Vacant.stage = "free"
  BY DEF Vacant
<1>3. ASSUME NEW b \in Attempts
      PROVE  /\ b = a => attempt'[b].stage = "free"
             /\ b # a => /\ attempt'[b].stage = attempt[b].stage
                         /\ attempt'[b].client = attempt[b].client
                         /\ attempt'[b].behind = IF attempt[b].behind = a THEN NoOne
                                                 ELSE attempt[b].behind
  <2>1. attempt[b] \in Attempt
    BY DEF IInv, InviteTypeOK
  <2>2. /\ [attempt[b] EXCEPT !.behind = NoOne].stage = attempt[b].stage
        /\ [attempt[b] EXCEPT !.behind = NoOne].client = attempt[b].client
        /\ [attempt[b] EXCEPT !.behind = NoOne].behind = NoOne
    BY <2>1 DEF Attempt
  <2>3. attempt'[b] = IF b = a THEN Vacant
                      ELSE IF attempt[b].behind = a THEN [attempt[b] EXCEPT !.behind = NoOne]
                      ELSE attempt[b]
    BY DEF Leave
  <2> QED
    BY <1>2, <2>2, <2>3
<1>4. a # NoOne
  BY InvitesAssumption DEF InvitesAssumption
<1>5. ASSUME NEW c \in Clients PROVE LineOf(c, place)'
  <2>1. LineOf(c, place)
    BY <1>1
  <2>2. \A b \in Attempts : b \in Lined(c)' <=> b \in Lined(c) /\ b # a
    BY <1>3 DEF Lined
  <2>3. queueTail'[c] = IF queueTail[c] = a THEN NoOne ELSE queueTail[c]
    BY DEF Leave
  <2>4. Lined(c) \subseteq Attempts /\ Lined(c)' \subseteq Attempts
    BY DEF Lined
  <2>5. queueTail'[c] # NoOne => queueTail'[c] \in Lined(c)'
    BY <2>1, <2>2, <2>3, <2>4 DEF LineOf
  <2>6. ASSUME NEW b \in Lined(c)'
        PROVE  /\ queueTail'[c] # NoOne /\ place[b] <= place[queueTail'[c]]
               /\ attempt'[b].behind = NoOne => \A d \in Lined(c)' : place[b] <= place[d]
               /\ attempt'[b].behind # NoOne =>
                    attempt'[b].behind \in Lined(c)' /\ place[b] = place[attempt'[b].behind] + 1
               /\ \A d \in Lined(c)' : place[b] = place[d] => b = d
               /\ InTurn(b)' => attempt'[b].behind = NoOne
    <3>1. b \in Lined(c) /\ b # a /\ b \in Attempts
      BY <2>2, <2>4, <2>6
    <3>2. /\ queueTail[c] # NoOne /\ queueTail[c] \in Lined(c)
          /\ place[b] <= place[queueTail[c]]
          /\ attempt[b].behind = NoOne => \A d \in Lined(c) : place[b] <= place[d]
          /\ attempt[b].behind # NoOne =>
               attempt[b].behind \in Lined(c) /\ place[b] = place[attempt[b].behind] + 1
          /\ \A d \in Lined(c) : place[b] = place[d] => b = d
          /\ InTurn(b) => attempt[b].behind = NoOne
      BY <2>1, <3>1 DEF LineOf
    <3>3. a \in Lined(c) => \A d \in Lined(c) : place[a] <= place[d]
      BY <2>1 DEF LineOf
    <3>4. \A d \in Attempts : place[d] \in Nat
      OBVIOUS
    <3>5. queueTail[c] # a
      <4> SUFFICES ASSUME queueTail[c] = a PROVE FALSE
        OBVIOUS
      <4>1. place[a] <= place[b] /\ place[b] <= place[a] /\ a \in Lined(c)
        BY <3>1, <3>2, <3>3
      <4>2. place[a] = place[b]
        BY <3>1, <3>4, <4>1
      <4> QED
        BY <3>1, <3>2, <4>1, <4>2
    <3>6. /\ attempt'[b].stage = attempt[b].stage
          /\ attempt'[b].behind = IF attempt[b].behind = a THEN NoOne ELSE attempt[b].behind
      BY <1>3, <3>1
    <3>7. ASSUME attempt'[b].behind = NoOne, NEW d \in Lined(c)' PROVE place[b] <= place[d]
      <4>1. d \in Lined(c) /\ d # a /\ d \in Attempts
        BY <2>2, <2>4
      <4>2. CASE attempt[b].behind = NoOne
        BY <3>2, <4>1, <4>2
      <4>3. CASE attempt[b].behind = a
        <5>1. a \in Lined(c) /\ place[b] = place[a] + 1
          BY <1>4, <3>2, <4>3
        <5>2. place[a] <= place[d] /\ place[a] # place[d]
          BY <2>1, <3>3, <4>1, <5>1 DEF LineOf
        <5> QED
          BY <3>1, <3>4, <4>1, <5>1, <5>2
      <4> QED
        BY <3>6, <3>7, <4>2, <4>3
    <3>8. /\ queueTail'[c] # NoOne /\ place[b] <= place[queueTail'[c]]
          /\ \A d \in Lined(c)' : place[b] = place[d] => b = d
      BY <2>2, <2>3, <2>4, <3>2, <3>5
    <3>9. ASSUME attempt'[b].behind # NoOne
          PROVE  attempt'[b].behind \in Lined(c)' /\ place[b] = place[attempt'[b].behind] + 1
      BY <2>2, <2>4, <3>2, <3>6, <3>9
    <3>10. InTurn(b)' => attempt'[b].behind = NoOne
      BY <3>2, <3>6 DEF InTurn
    <3> QED
      BY <3>7, <3>8, <3>9, <3>10
  <2> QED
    BY <2>5, <2>6 DEF LineOf
<1>6. Queues'
  BY <1>1, <1>5 DEF Queues
<1>7. \A b \in Attempts : InTurn(b)' =>
        b # a /\ InTurn(b) /\ attempt'[b].client = attempt[b].client
  BY <1>3 DEF InTurn
<1> QED
  BY <1>6, <1>7

\* A new attempt goes behind the last of its client.
LEMMA RedeemKeepsQueues ==
  ASSUME IInv, Queues, NEW a \in Attempts, NEW c \in Clients, NEW code \in Codes \cup {Wrong},
         Redeem(a, c, code)
  PROVE  /\ Queues'
         /\ \A b \in Attempts : InTurn(b)' =>
              InTurn(b) /\ attempt'[b].client = attempt[b].client
<1>1. PICK place \in [Attempts -> Nat] : \A d \in Clients : LineOf(d, place)
  BY DEF Queues
<1>2. PICK last \in Attempts \cup {NoOne} : last = queueTail[c]
  BY DEF IInv, InviteTypeOK
<1>3. PICK n \in Nat : n = IF last = NoOne THEN 0 ELSE place[last] + 1
  <2>1. (IF last = NoOne THEN 0 ELSE place[last] + 1) \in Nat
    BY <1>2
  <2> QED
    BY <2>1
<1>4. PICK next \in [Attempts -> Nat] : next = [place EXCEPT ![a] = n]
  OBVIOUS
<1>5. next[a] = n /\ \A b \in Attempts : b # a => next[b] = place[b]
  BY <1>4
<1>6. /\ attempt[a].stage = "free"
      /\ attempt'[a].stage = "queued" /\ attempt'[a].client = c /\ attempt'[a].behind = last
      /\ \A b \in Attempts : b # a => attempt'[b] = attempt[b]
      /\ queueTail'[c] = a /\ \A d \in Clients : d # c => queueTail'[d] = queueTail[d]
  <2>1. PICK row : row = [Vacant EXCEPT !.stage = "queued", !.client = c, !.code = code,
                                        !.behind = queueTail[c]]
    OBVIOUS
  <2>2. row.stage = "queued" /\ row.client = c /\ row.behind = queueTail[c]
    BY <2>1 DEF Vacant
  <2>3. attempt' = [attempt EXCEPT ![a] = row] /\ attempt[a].stage = "free"
    BY <2>1 DEF Redeem
  <2>4. queueTail' = [queueTail EXCEPT ![c] = a]
    BY DEF Redeem
  <2> QED
    BY <1>2, <2>2, <2>3, <2>4 DEF IInv, InviteTypeOK
<1>7. ASSUME NEW d \in Clients, d # c PROVE LineOf(d, next)'
  <2>1. LineOf(d, place)
    BY <1>1
  <2>2. \A b \in Attempts : b \in Lined(d)' <=> b \in Lined(d)
    BY <1>6, <1>7 DEF Lined
  <2>3. a \notin Lined(d) /\ Lined(d) \subseteq Attempts /\ Lined(d)' \subseteq Attempts
    BY <1>6 DEF Lined
  <2>4. \A b \in Lined(d) : /\ b \in Attempts /\ attempt'[b] = attempt[b] /\ next[b] = place[b]
                            /\ InTurn(b)' <=> InTurn(b)
    BY <1>5, <1>6, <2>3 DEF InTurn
  <2>5. Lined(d)' = Lined(d)
    BY <2>2, <2>3
  <2>6. queueTail'[d] = queueTail[d]
    BY <1>6, <1>7
  <2> QED
    BY <2>1, <2>4, <2>5, <2>6 DEF LineOf
<1>8. LineOf(c, next)'
  <2>1. LineOf(c, place)
    BY <1>1
  <2>2. \A b \in Attempts : b \in Lined(c)' <=> b \in Lined(c) \/ b = a
    BY <1>6 DEF Lined
  <2>3. a \notin Lined(c) /\ Lined(c) \subseteq Attempts /\ Lined(c)' \subseteq Attempts
    BY <1>6 DEF Lined
  <2>4. \A b \in Lined(c) : /\ b \in Attempts /\ attempt'[b] = attempt[b] /\ next[b] = place[b]
                            /\ InTurn(b)' <=> InTurn(b)
    BY <1>5, <1>6, <2>3 DEF InTurn
  <2>5. /\ last # NoOne => last \in Lined(c) /\ last # a
        /\ \A b \in Lined(c) : last # NoOne /\ place[b] <= place[last] /\ next[b] < n
    <3>1. last # NoOne => last \in Lined(c)
      BY <1>2, <2>1 DEF LineOf
    <3>2. \A b \in Lined(c) : last # NoOne /\ place[b] <= place[last]
      BY <1>2, <2>1 DEF LineOf
    <3> QED
      BY <1>3, <2>3, <2>4, <3>1, <3>2
  <2>6. ASSUME NEW b \in Lined(c)', b # a
        PROVE  /\ next[b] <= next[a]
               /\ attempt'[b].behind = NoOne => \A d \in Lined(c)' : next[b] <= next[d]
               /\ attempt'[b].behind # NoOne =>
                    attempt'[b].behind \in Lined(c)' /\ next[b] = next[attempt'[b].behind] + 1
               /\ \A d \in Lined(c)' : next[b] = next[d] => b = d
               /\ InTurn(b)' => attempt'[b].behind = NoOne
    <3>1. b \in Lined(c) /\ b \in Attempts
      BY <2>2, <2>3, <2>6
    <3>2. /\ attempt[b].behind = NoOne => \A d \in Lined(c) : place[b] <= place[d]
          /\ attempt[b].behind # NoOne =>
               attempt[b].behind \in Lined(c) /\ place[b] = place[attempt[b].behind] + 1
          /\ \A d \in Lined(c) : place[b] = place[d] => b = d
          /\ InTurn(b) => attempt[b].behind = NoOne
      BY <2>1, <3>1 DEF LineOf
    <3>3. next[b] < n /\ next[b] = place[b] /\ attempt'[b] = attempt[b] /\ (InTurn(b)' <=> InTurn(b))
      BY <2>4, <2>5, <3>1
    <3>4. next[b] \in Nat /\ n \in Nat
      BY <3>1
    <3>5. \A d \in Lined(c)' : d = a \/ (d \in Lined(c) /\ next[d] = place[d])
      BY <2>2, <2>3, <2>4
    <3>6. attempt'[b].behind = NoOne => \A d \in Lined(c)' : next[b] <= next[d]
      BY <1>5, <3>2, <3>3, <3>4, <3>5
    <3>7. \A d \in Lined(c)' : next[b] = next[d] => b = d
      BY <1>5, <3>2, <3>3, <3>4, <3>5
    <3>8. attempt'[b].behind # NoOne =>
            attempt'[b].behind \in Lined(c)' /\ next[b] = next[attempt'[b].behind] + 1
      BY <2>2, <2>3, <2>4, <3>2, <3>3
    <3> QED
      BY <1>5, <3>2, <3>3, <3>4, <3>6, <3>7, <3>8
  <2>7. /\ next[a] <= next[a]
        /\ last = NoOne => \A d \in Lined(c)' : next[a] <= next[d]
        /\ last # NoOne => last \in Lined(c)' /\ next[a] = next[last] + 1
        /\ \A d \in Lined(c)' : next[a] = next[d] => a = d
        /\ ~InTurn(a)'
    <3>1. last = NoOne => \A d \in Lined(c)' : d = a
      BY <2>2, <2>3, <2>5
    <3>2. \A d \in Lined(c)' : d # a => next[d] < n /\ next[d] \in Nat
      BY <2>2, <2>3, <2>5
    <3>3. next[a] \in Nat
      OBVIOUS
    <3>4. last = NoOne => \A d \in Lined(c)' : next[a] <= next[d]
      BY <3>1, <3>3
    <3>5. \A d \in Lined(c)' : next[a] = next[d] => a = d
      BY <1>5, <3>2, <3>3
    <3>6. last # NoOne => last \in Lined(c)' /\ next[a] = next[last] + 1
      BY <1>3, <1>5, <2>2, <2>3, <2>4, <2>5
    <3>7. ~InTurn(a)'
      BY <1>6 DEF InTurn
    <3> QED
      BY <3>3, <3>4, <3>5, <3>6, <3>7
  <2>8. a # NoOne /\ a \in Lined(c)'
    BY <2>2, InvitesAssumption DEF InvitesAssumption
  <2> QED
    BY <1>6, <2>6, <2>7, <2>8 DEF LineOf
<1>9. Queues'
  <2>1. \A d \in Clients : LineOf(d, next)'
    BY <1>7, <1>8
  <2> QED
    BY <2>1 DEF Queues
<1>10. \A b \in Attempts : InTurn(b)' => InTurn(b) /\ attempt'[b].client = attempt[b].client
  BY <1>6 DEF InTurn
<1> QED
  BY <1>9, <1>10

\* An attempt goes on where it is.
LEMMA StagesKeepQueues ==
  ASSUME IInv, Queues, NEW a \in Attempts, NEW row \in Attempt,
         attempt[a].stage # "free", attempt[a].behind = NoOne, row.stage # "free",
         row.client = attempt[a].client, row.behind = attempt[a].behind,
         attempt' = [attempt EXCEPT ![a] = row], UNCHANGED queueTail
  PROVE  Queues'
<1>1. PICK place \in [Attempts -> Nat] : \A c \in Clients : LineOf(c, place)
  BY DEF Queues
<1>2. /\ attempt'[a] = row
      /\ \A b \in Attempts : b # a => attempt'[b] = attempt[b]
  BY DEF IInv, InviteTypeOK
<1>3. ASSUME NEW c \in Clients PROVE LineOf(c, place)'
  <2>1. LineOf(c, place)
    BY <1>1
  <2>2. \A b \in Attempts : b \in Lined(c)' <=> b \in Lined(c)
    BY <1>2 DEF Lined
  <2>3. Lined(c) \subseteq Attempts /\ Lined(c)' \subseteq Attempts
    BY DEF Lined
  <2>4. \A b \in Lined(c) : /\ attempt'[b].behind = attempt[b].behind
                            /\ InTurn(b)' => InTurn(b) \/ b = a
    BY <1>2, <2>3 DEF InTurn
  <2>5. Lined(c)' = Lined(c)
    BY <2>2, <2>3
  <2> QED
    BY <2>1, <2>4, <2>5 DEF LineOf
<1> QED
  BY <1>1, <1>3 DEF Queues

-----------------------------------------------------------------------------
(* The counts: while all clients fit, counting one's guess forgets no one. *)

AllFit == IsFiniteSet(Clients) /\ Cardinality(Clients) <= MaxTracked

LEMMA NobodyHasToGo ==
  ASSUME AllFit, NEW c \in Clients
  PROVE  ~(Cardinality({d \in Clients \ {c} : failures[d] > 0}) >= MaxTracked)
<1> DEFINE tracked == {d \in Clients \ {c} : failures[d] > 0}
<1>1. IsFiniteSet(Clients \ {c}) /\ Cardinality(Clients \ {c}) = Cardinality(Clients) - 1
  BY FS_RemoveElement DEF AllFit
<1>2. tracked \subseteq Clients \ {c}
  OBVIOUS
<1>3. IsFiniteSet(tracked) /\ Cardinality(tracked) <= Cardinality(Clients \ {c})
  BY <1>1, <1>2, FS_Subset
<1>4. Cardinality(Clients) \in Nat /\ Cardinality(tracked) \in Nat /\ MaxTracked \in Nat
  BY <1>3, FS_CardinalityType, InvitesAssumption DEF AllFit, InvitesAssumption
<1> QED
  BY <1>1, <1>3, <1>4 DEF AllFit

LEMMA FailureIsLimited ==
  ASSUME AllFit, IInv, GuessesAreLimited, NEW c \in Clients, RecordFailure(c),
         failures[c] < MaximumFailures, UNCHANGED time
  PROVE  /\ GuessesAreLimited'
         /\ \A d \in Clients : d # c => failures'[d] = failures[d]
<1>0. /\ failures \in [Clients -> Nat] /\ resetsAt \in [Clients -> Nat]
      /\ tested \in [Clients -> [Times -> Nat]] /\ time \in Times
  BY DEF IInv, InviteTypeOK, Times
<1>1. PICK f \in [Times -> Nat] : f = tested[c]
  BY <1>0
<1>2. PICK g \in [Times -> Nat] : g = [f EXCEPT ![time] = @ + 1]
  <2>1. [f EXCEPT ![time] = @ + 1] \in [Times -> Nat]
    BY <1>0
  <2> QED
    BY <2>1
<1>3. g[time] = f[time] + 1 /\ \A t \in Times : t # time => g[t] = f[t]
  BY <1>0, <1>2
<1>4. tested'[c] = g /\ \A d \in Clients : d # c => tested'[d] = tested[d]
  <2>1. tested' = [tested EXCEPT ![c] = g]
    <3>1. tested' = [tested EXCEPT ![c] = [tested[c] EXCEPT ![time] = @ + 1]]
      BY DEF RecordFailure
    <3> QED
      BY <1>1, <1>2, <3>1
  <2> QED
    BY <1>0, <2>1, Zenon
<1>5. PICK n \in Nat, resets \in Nat : n = failures[c] /\ resets = resetsAt[c]
  BY <1>0
<1>6. Limited(f, n, resets, time)
  BY <1>1, <1>5 DEF GuessesAreLimited
<1>7. CASE n > 0 /\ ~(resets <= time)
  <2>1. failures' = [failures EXCEPT ![c] = @ + 1] /\ UNCHANGED resetsAt
    BY <1>5, <1>7 DEF RecordFailure, Over
  <2>2. Limited(g, n + 1, resets, time)
    BY <1>0, <1>3, <1>5, <1>6, <1>7, GuessIsCounted
  <2>3. failures'[c] = n + 1 /\ resetsAt'[c] = resets /\ time' = time
    BY <1>0, <1>5, <2>1
  <2>4. Limited(tested[c], failures[c], resetsAt[c], time)'
    BY <1>4, <2>2, <2>3, Zenon
  <2>5. ASSUME NEW d \in Clients, d # c
        PROVE  failures'[d] = failures[d] /\ Limited(tested[d], failures[d], resetsAt[d], time)'
    <3>1. /\ failures'[d] = failures[d] /\ resetsAt'[d] = resetsAt[d]
          /\ tested'[d] = tested[d] /\ time' = time
      BY <1>0, <1>4, <2>1, <2>5
    <3>2. Limited(tested[d], failures[d], resetsAt[d], time)
      BY DEF GuessesAreLimited
    <3> QED
      BY <3>1, <3>2, Zenon
  <2> QED
    BY <2>4, <2>5 DEF GuessesAreLimited
<1>8. CASE ~(n > 0 /\ ~(resets <= time))
  <2>1. /\ resetsAt' = [resetsAt EXCEPT ![c] = time + GuessWindow]
        /\ failures' = [failures EXCEPT ![c] = 0, ![c] = 1]
    BY <1>5, <1>8, NobodyHasToGo DEF RecordFailure, Over
  <2>2. n = 0 \/ resets <= time
    BY <1>8
  <2>3. Limited(g, 1, time + GuessWindow, time)
    BY <1>0, <1>3, <1>5, <1>6, <2>2, GuessOpensWindow
  <2>4. failures'[c] = 1 /\ resetsAt'[c] = time + GuessWindow /\ time' = time
    BY <1>0, <2>1
  <2>5. Limited(tested[c], failures[c], resetsAt[c], time)'
    BY <1>4, <2>3, <2>4, Zenon
  <2>6. ASSUME NEW d \in Clients, d # c
        PROVE  failures'[d] = failures[d] /\ Limited(tested[d], failures[d], resetsAt[d], time)'
    <3>1. /\ failures'[d] = failures[d] /\ resetsAt'[d] = resetsAt[d]
          /\ tested'[d] = tested[d] /\ time' = time
      BY <1>0, <1>4, <2>1, <2>6
    <3>2. Limited(tested[d], failures[d], resetsAt[d], time)
      BY DEF GuessesAreLimited
    <3> QED
      BY <3>1, <3>2, Zenon
  <2> QED
    BY <2>5, <2>6 DEF GuessesAreLimited
<1> QED
  BY <1>7, <1>8

\* Refusing the attempt whose turn it is counts its guess and lets it go.
LEMMA RefusalIsLimited ==
  ASSUME AllFit, GuessInv, NEW a \in Attempts, InTurn(a), Refuse(a), UNCHANGED time
  PROVE  Queues' /\ TurnsAreAllowed' /\ GuessesAreLimited'
<1>1. PICK c \in Clients : c = attempt[a].client
  BY DEF GuessInv, IInv, AttemptsAreSound, InTurn
<1>2. RecordFailure(c) /\ Leave(a) /\ failures[c] < MaximumFailures
  BY <1>1 DEF Refuse, GuessInv, TurnsAreAllowed
<1>3. GuessesAreLimited' /\ \A d \in Clients : d # c => failures'[d] = failures[d]
  BY <1>2, FailureIsLimited DEF GuessInv
<1>4. attempt[a].stage # "free" /\ attempt[a].behind = NoOne
  BY <1>1, OnlyHeadsHaveTurns DEF GuessInv, InTurn
<1>5. /\ Queues'
      /\ \A b \in Attempts : InTurn(b)' =>
           b # a /\ InTurn(b) /\ attempt'[b].client = attempt[b].client
  BY <1>2, <1>4, LeavingKeepsQueues DEF GuessInv
<1>6. ASSUME NEW b \in Attempts, InTurn(b)' PROVE failures'[attempt'[b].client] < MaximumFailures
  <2>1. b # a /\ InTurn(b) /\ attempt'[b].client = attempt[b].client
    BY <1>5, <1>6
  <2>2. attempt[b].client # c
    BY <1>1, <1>4, <2>1, OneTurn DEF GuessInv
  <2>3. attempt[b].client \in Clients /\ failures[attempt[b].client] < MaximumFailures
    BY <2>1 DEF GuessInv, IInv, AttemptsAreSound, InTurn, TurnsAreAllowed
  <2> QED
    BY <1>3, <2>1, <2>2, <2>3
<1> QED
  BY <1>3, <1>5, <1>6 DEF TurnsAreAllowed

-----------------------------------------------------------------------------
(* What the limiter promises is inductive, while all clients fit.          *)

LEMMA GuessesBegin == InviteInit => GuessInv
<1> SUFFICES ASSUME InviteInit PROVE GuessInv
  OBVIOUS
<1>1. IInv
  BY InitSound
<1>2. \A a \in Attempts : attempt[a].stage = "free"
  BY DEF InviteInit, Vacant
<1>3. Queues
  <2>1. PICK place \in [Attempts -> Nat] : place = [a \in Attempts |-> 0]
    OBVIOUS
  <2>2. \A c \in Clients : queueTail[c] = NoOne
    BY DEF InviteInit
  <2>3. \A c \in Clients : LineOf(c, place)
    BY <1>2, <2>2 DEF LineOf, Lined
  <2> QED
    BY <2>3 DEF Queues
<1>4. TurnsAreAllowed
  BY <1>2 DEF TurnsAreAllowed, InTurn
<1>5. PICK f \in [Times -> Nat] : f = [t \in Times |-> 0]
  OBVIOUS
<1>6. \A t \in Times : f[t] = 0
  BY <1>5
<1>7. Limited(f, 0, 0, 0)
  <2>1. ASSUME NEW a \in Times PROVE CountIn(f, a, a + GuessWindow) < 2 * MaximumFailures
    <3>1. a \in Int /\ a + GuessWindow \in Int
      BY LimitsArePositive
    <3>2. CountIn(f, a, a + GuessWindow) = 0
      BY <1>6, <3>1, CountOfNone
    <3> QED
      BY <3>2, LimitsArePositive
  <2> QED
    BY <1>6, <2>1, LimitsArePositive DEF Limited
<1>8. \A c \in Clients : tested[c] = f /\ failures[c] = 0 /\ resetsAt[c] = 0 /\ time = 0
  BY <1>5 DEF InviteInit, Times
<1>9. GuessesAreLimited
  BY <1>7, <1>8, Zenon DEF GuessesAreLimited
<1> QED
  BY <1>1, <1>3, <1>4, <1>9 DEF GuessInv

\* Forgetting a window that is over keeps the counts, and so does passing time.
LEMMA OthersKeepLimits ==
  ASSUME GuessInv, UNCHANGED <<failures, resetsAt, tested>>,
         UNCHANGED time \/ time' = time + 1
  PROVE  GuessesAreLimited'
<1> SUFFICES ASSUME NEW c \in Clients
             PROVE  Limited(tested[c], failures[c], resetsAt[c], time)'
  BY DEF GuessesAreLimited
<1>1. PICK f \in [Times -> Nat], n \in Nat, resets \in Nat, now \in Times :
        f = tested[c] /\ n = failures[c] /\ resets = resetsAt[c] /\ now = time
  BY DEF GuessInv, IInv, InviteTypeOK, Times
<1>2. Limited(f, n, resets, now)
  BY <1>1 DEF GuessInv, GuessesAreLimited
<1>3. Limited(f, n, resets, now + 1)
  BY <1>2, TimePassesOver
<1>4. f = tested'[c] /\ n = failures'[c] /\ resets = resetsAt'[c]
  BY <1>1
<1>5. CASE time' = now
  BY <1>2, <1>4, <1>5, Zenon
<1>6. CASE time' = now + 1
  BY <1>3, <1>4, <1>6, Zenon
<1> QED
  BY <1>1, <1>5, <1>6

LEMMA LeavingIsLimited ==
  ASSUME GuessInv, NEW a \in Attempts, InTurn(a), Leave(a),
         UNCHANGED <<failures, resetsAt, tested, time>>
  PROVE  Queues' /\ TurnsAreAllowed' /\ GuessesAreLimited'
<1>1. attempt[a].stage # "free" /\ attempt[a].behind = NoOne
  BY OnlyHeadsHaveTurns DEF GuessInv, InTurn
<1>2. /\ Queues'
      /\ \A b \in Attempts : InTurn(b)' =>
           b # a /\ InTurn(b) /\ attempt'[b].client = attempt[b].client
  BY <1>1, LeavingKeepsQueues DEF GuessInv
<1>3. TurnsAreAllowed'
  BY <1>2 DEF TurnsAreAllowed, GuessInv
<1> QED
  BY <1>2, <1>3, OthersKeepLimits

LEMMA TurnsAreLimited ==
  ASSUME GuessInv, NEW a \in Attempts, TakeTurn(a)
  PROVE  Queues' /\ TurnsAreAllowed' /\ GuessesAreLimited'
<1>1. /\ attempt[a] \in Attempt /\ attempt[a].stage = "queued" /\ attempt[a].behind = NoOne
      /\ failures \in [Clients -> Nat] /\ resetsAt \in [Clients -> Nat]
      /\ tested \in [Clients -> [Times -> Nat]] /\ time \in Times
  BY DEF GuessInv, IInv, InviteTypeOK, TakeTurn, Times
<1>2. PICK c \in Clients : c = attempt[a].client
  BY <1>1 DEF GuessInv, IInv, AttemptsAreSound
<1>3. failures' = [failures EXCEPT ![c] = IF Over(c) THEN 0 ELSE @]
  BY <1>2 DEF TakeTurn
<1>4. /\ failures'[c] = IF Over(c) THEN 0 ELSE failures[c]
      /\ \A d \in Clients : d # c => failures'[d] = failures[d]
  BY <1>1, <1>3
<1>5. UNCHANGED <<resetsAt, tested, time>>
  BY DEF TakeTurn
<1>6. GuessesAreLimited'
  <2> SUFFICES ASSUME NEW d \in Clients
               PROVE  Limited(tested[d], failures[d], resetsAt[d], time)'
    BY DEF GuessesAreLimited
  <2>1. PICK f \in [Times -> Nat], n \in Nat, resets \in Nat, now \in Times :
          f = tested[d] /\ n = failures[d] /\ resets = resetsAt[d] /\ now = time
    BY <1>1
  <2>2. Limited(f, n, resets, now)
    BY <2>1 DEF GuessInv, GuessesAreLimited
  <2>3. f = tested'[d] /\ resets = resetsAt'[d] /\ now = time'
    BY <1>5, <2>1
  <2>4. CASE d = c /\ Over(c)
    <3>1. n > 0 /\ resets <= now
      BY <2>1, <2>4 DEF Over
    <3>2. Limited(f, 0, resets, now)
      BY <2>2, <3>1, WindowIsForgotten
    <3>3. failures'[d] = 0
      BY <1>4, <2>4
    <3> QED
      BY <2>3, <3>2, <3>3, Zenon
  <2>5. CASE ~(d = c /\ Over(c))
    <3>1. failures'[d] = n
      BY <1>4, <2>1, <2>5
    <3> QED
      BY <2>2, <2>3, <3>1, Zenon
  <2> QED
    BY <2>4, <2>5
<1>7. CASE failures'[c] >= MaximumFailures
  <2>1. Leave(a)
    BY <1>2, <1>7 DEF TakeTurn
  <2>2. /\ Queues'
        /\ \A b \in Attempts : InTurn(b)' =>
             b # a /\ InTurn(b) /\ attempt'[b].client = attempt[b].client
    BY <1>1, <2>1, LeavingKeepsQueues DEF GuessInv
  <2>3. ASSUME NEW b \in Attempts, InTurn(b)'
        PROVE  failures'[attempt'[b].client] < MaximumFailures
    <3>1. b # a /\ InTurn(b) /\ attempt'[b].client = attempt[b].client
      BY <2>2, <2>3
    <3>2. attempt[b].client # c
      BY <1>1, <1>2, <3>1, OneTurn DEF GuessInv
    <3>3. attempt[b].client \in Clients /\ failures[attempt[b].client] < MaximumFailures
      BY <3>1 DEF GuessInv, IInv, AttemptsAreSound, InTurn, TurnsAreAllowed
    <3> QED
      BY <1>4, <3>1, <3>2, <3>3
  <2> QED
    BY <1>6, <2>2, <2>3 DEF TurnsAreAllowed
<1>8. CASE ~(failures'[c] >= MaximumFailures)
  <2>1. attempt' = [attempt EXCEPT ![a].stage = "asked", ![a].at = time] /\ UNCHANGED queueTail
    BY <1>2, <1>8 DEF TakeTurn
  <2>2. PICK row : row = [attempt[a] EXCEPT !.stage = "asked", !.at = time]
    OBVIOUS
  <2>3. /\ row \in Attempt /\ row.stage = "asked"
        /\ row.client = attempt[a].client /\ row.behind = attempt[a].behind
    BY <1>1, <2>2, LimitsArePositive DEF Attempt
  <2>4. attempt' = [attempt EXCEPT ![a] = row]
    BY <2>1, <2>2
  <2>5. Queues'
    BY <1>1, <2>1, <2>3, <2>4, StagesKeepQueues DEF GuessInv
  <2>6. attempt'[a] = row /\ \A b \in Attempts : b # a => attempt'[b] = attempt[b]
    BY <2>4 DEF GuessInv, IInv, InviteTypeOK
  <2>7. ASSUME NEW b \in Attempts, InTurn(b)'
        PROVE  failures'[attempt'[b].client] < MaximumFailures
    <3>1. CASE b = a
      <4>1. attempt'[b].client = c /\ failures'[c] \in Nat
        BY <1>1, <1>2, <1>4, <2>3, <2>6, <3>1
      <4> QED
        BY <1>8, <4>1, LimitsArePositive
    <3>2. CASE b # a
      <4>1. InTurn(b) /\ attempt'[b].client = attempt[b].client
        BY <2>6, <2>7, <3>2 DEF InTurn
      <4>2. attempt[b].client # c
        BY <1>1, <1>2, <3>2, <4>1, OneTurn DEF GuessInv
      <4>3. attempt[b].client \in Clients /\ failures[attempt[b].client] < MaximumFailures
        BY <4>1 DEF GuessInv, IInv, AttemptsAreSound, InTurn, TurnsAreAllowed
      <4> QED
        BY <1>4, <4>1, <4>2, <4>3
    <3> QED
      BY <3>1, <3>2
  <2> QED
    BY <1>6, <2>5, <2>7 DEF TurnsAreAllowed
<1> QED
  BY <1>7, <1>8

LEMMA GuessesGoOn ==
  ASSUME AllFit, GuessInv, [InviteNext]_inviteVars
  PROVE  GuessInv'
<1>0. IInv /\ IInv'
  BY InvIsInductive DEF GuessInv
<1>1. ASSUME UNCHANGED <<time, attempt, queueTail, failures, resetsAt, tested>>
      PROVE  Queues' /\ TurnsAreAllowed' /\ GuessesAreLimited'
  <2>1. Queues'
    BY <1>1 DEF GuessInv, Queues, LineOf, Lined, InTurn
  <2>2. TurnsAreAllowed'
    BY <1>1 DEF GuessInv, TurnsAreAllowed, InTurn
  <2> QED
    BY <1>1, <2>1, <2>2, OthersKeepLimits
<1>2. CASE UNCHANGED inviteVars
  BY <1>0, <1>1, <1>2 DEF inviteVars, limitVars, GuessInv
<1>3. CASE PassTime
  <2>1. UNCHANGED <<attempt, queueTail, failures, resetsAt, tested>> /\ time' = time + 1
    BY <1>3 DEF PassTime, limitVars
  <2>2. Queues'
    BY <2>1 DEF GuessInv, Queues, LineOf, Lined, InTurn
  <2>3. TurnsAreAllowed'
    BY <2>1 DEF GuessInv, TurnsAreAllowed, InTurn
  <2> QED
    BY <1>0, <2>1, <2>2, <2>3, OthersKeepLimits DEF GuessInv
<1>4. ASSUME NEW k \in Commands,
             \/ RunBootstrap(k) \/ RunLocalProduction(k) \/ TakeLock(k)
             \/ \E name \in Names : RunCreateStaff(k, name)
             \/ \E i \in Codes : CommitInvitation(k, i)
             \/ CommitAdmin(k) \/ RejectCommand(k) \/ BreakCommand(k)
      PROVE  GuessInv'
  <2>1. UNCHANGED <<time, attempt, limitVars>>
    BY <1>4 DEF RunBootstrap, RunLocalProduction, BootstrapAdmin, TakeLock, RunCreateStaff,
       CommitInvitation, CommitAdmin, RejectCommand, BreakCommand
  <2> QED
    BY <1>0, <1>1, <2>1 DEF limitVars, GuessInv
<1>5. ASSUME NEW i \in Codes, CreateInvite(i) PROVE GuessInv'
  BY <1>0, <1>1, <1>5 DEF CreateInvite, limitVars, GuessInv
<1>6. ASSUME NEW a \in Attempts, NEW c \in Clients, NEW code \in Codes \cup {Wrong},
             Redeem(a, c, code)
      PROVE  GuessInv'
  <2>1. UNCHANGED <<time, failures, resetsAt, tested>>
    BY <1>6 DEF Redeem
  <2>2. /\ Queues'
        /\ \A b \in Attempts : InTurn(b)' => InTurn(b) /\ attempt'[b].client = attempt[b].client
    BY <1>6, RedeemKeepsQueues DEF GuessInv
  <2>3. TurnsAreAllowed'
    BY <2>1, <2>2 DEF TurnsAreAllowed, GuessInv
  <2> QED
    BY <1>0, <2>1, <2>2, <2>3, OthersKeepLimits DEF GuessInv
<1>7. ASSUME NEW a \in Attempts, TakeTurn(a) PROVE GuessInv'
  BY <1>0, <1>7, TurnsAreLimited DEF GuessInv
<1>8. ASSUME NEW a \in Attempts, Find(a) PROVE GuessInv'
  <2>1. attempt[a] \in Attempt /\ attempt[a].stage = "asked" /\ InTurn(a)
    BY <1>0, <1>8 DEF IInv, InviteTypeOK, Find, InTurn
  <2>2. CASE Redeemable(attempt[a].code, attempt[a].at)
    <3>1. /\ attempt' = [attempt EXCEPT ![a].stage = "found"]
          /\ UNCHANGED <<time, queueTail, failures, resetsAt, tested>>
      BY <1>8, <2>2 DEF Find, limitVars
    <3>2. PICK row : row = [attempt[a] EXCEPT !.stage = "found"]
      OBVIOUS
    <3>3. /\ row \in Attempt /\ row.stage = "found"
          /\ row.client = attempt[a].client /\ row.behind = attempt[a].behind
      BY <2>1, <3>2 DEF Attempt
    <3>4. attempt' = [attempt EXCEPT ![a] = row]
      BY <3>1, <3>2
    <3>5. attempt[a].behind = NoOne
      BY <2>1, OnlyHeadsHaveTurns DEF GuessInv
    <3>6. Queues'
      BY <2>1, <3>1, <3>3, <3>4, <3>5, StagesKeepQueues DEF GuessInv
    <3>7. attempt'[a] = row /\ \A b \in Attempts : b # a => attempt'[b] = attempt[b]
      BY <1>0, <3>4 DEF IInv, InviteTypeOK
    <3>8. \A b \in Attempts : InTurn(b)' => InTurn(b) /\ attempt'[b].client = attempt[b].client
      BY <2>1, <3>3, <3>7 DEF InTurn
    <3>9. TurnsAreAllowed'
      BY <3>1, <3>8 DEF TurnsAreAllowed, GuessInv
    <3> QED
      BY <1>0, <3>1, <3>6, <3>9, OthersKeepLimits DEF GuessInv
  <2>3. CASE ~Redeemable(attempt[a].code, attempt[a].at)
    <3>1. Refuse(a) /\ UNCHANGED time
      BY <1>8, <2>3 DEF Find
    <3> QED
      BY <1>0, <2>1, <3>1, RefusalIsLimited DEF GuessInv
  <2> QED
    BY <2>2, <2>3
<1>9. ASSUME NEW a \in Attempts, Consume(a) PROVE GuessInv'
  <2>1. InTurn(a) /\ Leave(a) /\ UNCHANGED <<failures, resetsAt, tested, time>>
    BY <1>9 DEF Consume, InTurn
  <2> QED
    BY <1>0, <2>1, LeavingIsLimited DEF GuessInv
<1>10. ASSUME NEW a \in Attempts, RejectConsumption(a) PROVE GuessInv'
  <2>1. InTurn(a) /\ Refuse(a) /\ UNCHANGED time
    BY <1>10 DEF RejectConsumption, InTurn
  <2> QED
    BY <1>0, <2>1, RefusalIsLimited DEF GuessInv
<1>11. ASSUME NEW a \in Attempts, BreakAttempt(a) PROVE GuessInv'
  <2>1. InTurn(a) /\ Leave(a) /\ UNCHANGED <<failures, resetsAt, tested, time>>
    BY <1>11 DEF BreakAttempt, InTurn
  <2> QED
    BY <1>0, <2>1, LeavingIsLimited DEF GuessInv
<1> QED
  BY <1>2, <1>3, <1>4, <1>5, <1>6, <1>7, <1>8, <1>9, <1>10, <1>11 DEF InviteNext

LEMMA LimitsBoundGuesses == GuessInv => GuessesStayBounded
<1> SUFFICES ASSUME GuessInv, NEW c \in Clients, NEW from \in 0..LastTime
             PROVE  MapThenSumSet(LAMBDA t : tested[c][t],
                                  {t \in 0..LastTime : from <= t /\ t < from + GuessWindow})
                      < 2 * MaximumFailures
  BY DEF GuessesStayBounded
<1>1. MapThenSumSet(LAMBDA t : tested[c][t],
                    {t \in 0..LastTime : from <= t /\ t < from + GuessWindow})
        = TotalOf(tested[c], {t \in 0..LastTime : from <= t /\ t < from + GuessWindow})
  BY SumIsTotal
<1>2. TotalOf(tested[c], {t \in 0..LastTime : from <= t /\ t < from + GuessWindow})
        = CountIn(tested[c], from, from + GuessWindow)
  BY Zenon DEF CountIn, Span, Times
<1>3. CountIn(tested[c], from, from + GuessWindow) < 2 * MaximumFailures
  BY DEF GuessInv, GuessesAreLimited, Limited, Times
<1> QED
  BY <1>1, <1>2, <1>3, Zenon

\* However many attempts a client overlaps, with however many others, in any
\* stretch as long as a window it tests fewer wrong codes than two windows
\* allow (FailedLoginLimiter's run, assertAllowed and recordFailure), as long
\* as there are no more clients than entries.
THEOREM GuessesAreBounded ==
  ASSUME IsFiniteSet(Clients)
  PROVE  InviteSpec => []GuessesStayBounded
<1>1. CASE Cardinality(Clients) <= MaxTracked
  <2>1. GuessInv /\ [InviteNext]_inviteVars => GuessInv'
    BY <1>1, GuessesGoOn DEF AllFit
  <2> QED
    BY <2>1, GuessesBegin, LimitsBoundGuesses, PTL DEF InviteSpec
<1>2. CASE ~(Cardinality(Clients) <= MaxTracked)
  <2>1. GuessesStayBounded
    BY <1>2 DEF GuessesStayBounded
  <2> QED
    BY <2>1, PTL
<1> QED
  BY <1>1, <1>2

=============================================================================
