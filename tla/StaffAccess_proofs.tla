------------------------ MODULE StaffAccess_proofs ------------------------
(* Proofs about StaffAccess, for every value of its constants.             *)
EXTENDS StaffAccess, TLAPS

-----------------------------------------------------------------------------
(* The inductive invariant.                                                *)

\* Nobody has a session before the account exists.
SessionsHaveAccounts ==
  \A s \in Sessions : session[s].account # None => Exists(session[s].account)

\* What a request q knows of the row it read: it was the current one if nothing
\* was written since, and an older one shows by an earlier passwordChangedAt.
KnowsItsAge(q) ==
  LET c == credential[q.account]
  IN  /\ q.hash <= c.hash /\ q.changedAt <= c.changedAt
      /\ q.hash < c.hash => q.changedAt < c.changedAt

\* A request acts on an account, on a session, and on a row read with it.
Sound(q) ==
  /\ q.now <= now
  /\ q.stage \in {"snapshot", "login", "reset", "disable", "enable"} => q.account \in Accounts
  /\ q.stage = "login" /\ q.guess = "right" => q.hash > 0
  /\ q.stage \in {"find", "read", "touch", "admitted", "change"}
       => q.session \in Sessions /\ session[q.session].account # None
  /\ q.stage \in {"read", "touch", "admitted", "change"}
       => q.account = session[q.session].account
  /\ q.stage = "touch" /\ Live(q.session, now)
       => q.password = credential[q.account].password
  /\ q.stage = "admitted" /\ q.purpose = "work" /\ session[q.session].expiresAt > now
       => session[q.session].password = "own"
  /\ q.stage \in {"touch", "admitted", "change"} => KnowsItsAge(q)

RequestsAreSound == \A r \in Requests : Sound(request[r])

IInv == /\ TypeOK /\ LiveSessionsAreCurrent /\ LockFollowsFailures
        /\ SessionsHaveAccounts /\ RequestsAreSound

-----------------------------------------------------------------------------
(* Lemmas.                                                                 *)

\* A slot that has returned is a slot like any other.
LEMMA IdleIsSound ==
  ASSUME TypeOK
  PROVE  Idle \in Request /\ Sound(Idle)
BY StaffAssumption DEF Idle, Request, Stage, Password, Sound, TypeOK

\* A password is always written at a later instant than the one before it.
LEMMA PasswordsAreNewer ==
  ASSUME NEW c \in Credential, NEW t \in Nat, NEW password \in {"temporary", "own"}
  PROVE  LET d == WithPassword(c, password, t)
         IN  /\ d \in Credential
             /\ d.hash = c.hash + 1 /\ d.changedAt > c.changedAt
             /\ d.password = password /\ d.failed = 0 /\ d.lockedUntil = 0
BY StaffAssumption DEF WithPassword, NextPasswordChangedAt, Credential, Password

\* Clearing the count and the lock leaves them in step.
LEMMA ClearedCount ==
  ASSUME NEW c \in Credential
  PROVE  LET d == [c EXCEPT !.failed = 0, !.lockedUntil = 0]
         IN  /\ d \in Credential
             /\ d.hash = c.hash /\ d.password = c.password /\ d.changedAt = c.changedAt
             /\ d.failed = MaxFailures <=> d.lockedUntil # 0
<1>1. 0 \in 0..MaxFailures /\ 0 # MaxFailures
  BY StaffAssumption
<1> QED
  BY <1>1 DEF Credential

\* A failure that counts leaves the lock and the count in step, if they were.
LEMMA FailureCounts ==
  ASSUME NEW c \in Credential, NEW t \in Nat, ~Locked(c, t),
         c.failed = MaxFailures <=> c.lockedUntil # 0
  PROVE  LET d == AfterFailure(c, t)
         IN  /\ d \in Credential
             /\ d.hash = c.hash /\ d.password = c.password /\ d.changedAt = c.changedAt
             /\ d.failed = MaxFailures <=> d.lockedUntil # 0
<1> DEFINE over == c.lockedUntil # 0 /\ c.lockedUntil <= t
           failed == IF over THEN 1 ELSE c.failed + 1
           d == AfterFailure(c, t)
<1>1. failed \in 1..MaxFailures
  BY StaffAssumption DEF Credential, Locked
<1>2. MaxFailures \in Nat /\ MaxFailures > 0 /\ LockTicks \in Nat /\ LockTicks > 0
  BY StaffAssumption
<1>3. CASE failed = MaxFailures
  <2>1. d = [c EXCEPT !.failed = MaxFailures, !.lockedUntil = t + LockTicks]
    BY <1>3, <1>2 DEF AfterFailure
  <2>2. MaxFailures \in 0..MaxFailures /\ t + LockTicks \in Nat /\ t + LockTicks # 0
    BY <1>2
  <2> DEFINE e == [c EXCEPT !.failed = MaxFailures, !.lockedUntil = t + LockTicks]
  <2>3. /\ e \in Credential
        /\ e.hash = c.hash /\ e.password = c.password /\ e.changedAt = c.changedAt
        /\ e.failed = MaxFailures /\ e.lockedUntil = t + LockTicks
    BY <1>2, <2>2 DEF Credential
  <2> HIDE DEF e
  <2>4. d = e
    BY <2>1 DEF e
  <2> QED
    BY <2>2, <2>3, <2>4
<1>4. CASE failed < MaxFailures
  <2>1. d = [c EXCEPT !.failed = failed, !.lockedUntil = IF over THEN 0 ELSE @]
    BY <1>1, <1>2, <1>4 DEF AfterFailure
  <2>2. (IF over THEN 0 ELSE c.lockedUntil) = 0
    BY DEF Credential, Locked
  <2>3. d = [c EXCEPT !.failed = failed, !.lockedUntil = 0]
    BY <2>1, <2>2
  <2> HIDE DEF failed
  <2>4. failed \in 0..MaxFailures /\ failed # MaxFailures /\ 0 \in Nat
    BY <1>1, <1>2, <1>4
  <2> DEFINE e == [c EXCEPT !.failed = failed, !.lockedUntil = 0]
  <2>5. /\ e \in Credential
        /\ e.hash = c.hash /\ e.password = c.password /\ e.changedAt = c.changedAt
        /\ e.failed = failed /\ e.lockedUntil = 0
    BY <1>2, <2>4 DEF Credential
  <2> HIDE DEF e
  <2>6. d = e
    BY <2>3 DEF e
  <2> QED
    BY <2>4, <2>5, <2>6
<1> QED
  BY <1>1, <1>2, <1>3, <1>4

\* What every step does to the rows a request may know about: sessions keep what
\* they were opened with, and a row that changes under a session that goes on
\* living keeps its password.
WorldMovesOn ==
  /\ now <= now'
  /\ revoked \subseteq revoked'
  /\ \A s \in Sessions : session[s].account # None =>
       /\ session'[s] = session[s]
       /\ LET c == credential[session[s].account]
              d == credential'[session[s].account]
          IN  /\ c.hash <= d.hash /\ c.changedAt <= d.changedAt
              /\ c.hash < d.hash => c.changedAt < d.changedAt
              /\ s \notin revoked' /\ session[s].expiresAt > now' => d.password = c.password

LEMMA SoundStaysSound ==
  ASSUME TypeOK, TypeOK', WorldMovesOn, NEW q \in Request, Sound(q)
  PROVE  Sound(q)'
<1> DEFINE s == q.session
           a == q.account
           ofSession == q.stage \in {"find", "read", "touch", "admitted", "change"}
           ofAccount == q.stage \in {"read", "touch", "admitted", "change"}
<1>1. q.now <= now'
  BY DEF Sound, WorldMovesOn, TypeOK, Request
<1>2. ofSession => s \in Sessions /\ session[s].account # None /\ session'[s] = session[s]
  BY DEF Sound, WorldMovesOn
<1>3. ofAccount => a = session[s].account /\ a \in Accounts
  BY <1>2 DEF Sound, TypeOK, Session
<1>4. ASSUME q.stage = "touch", Live(s, now)'
      PROVE  q.password = credential'[a].password
  <2>1. s \notin revoked' /\ s \notin revoked /\ session[s].expiresAt > now'
    BY <1>2, <1>4 DEF Live, WorldMovesOn
  <2>2. Live(s, now)
    BY <1>2, <1>4, <2>1 DEF Live, WorldMovesOn, TypeOK, Session
  <2> QED
    BY <1>2, <1>3, <1>4, <2>1, <2>2 DEF Sound, WorldMovesOn
<1>5. ASSUME q.stage = "admitted", q.purpose = "work", session'[s].expiresAt > now'
      PROVE  session'[s].password = "own"
  BY <1>2, <1>5 DEF Sound, WorldMovesOn, TypeOK, Session
<1>6. ASSUME q.stage \in {"touch", "admitted", "change"}
      PROVE  KnowsItsAge(q)'
  <2> DEFINE c == credential[a]
             d == credential'[a]
  <2>1. c \in Credential /\ d \in Credential
    BY <1>3, <1>6 DEF TypeOK
  <2>2. /\ c.hash <= d.hash /\ c.changedAt <= d.changedAt
        /\ c.hash < d.hash => c.changedAt < d.changedAt
    BY <1>2, <1>3, <1>6 DEF WorldMovesOn
  <2>3. /\ q.hash <= c.hash /\ q.changedAt <= c.changedAt
        /\ q.hash < c.hash => q.changedAt < c.changedAt
    BY <1>6 DEF Sound, KnowsItsAge
  <2>4. /\ q.hash <= d.hash /\ q.changedAt <= d.changedAt
        /\ q.hash < d.hash => q.changedAt < d.changedAt
    BY <2>1, <2>2, <2>3 DEF Credential, Request
  <2> QED
    BY <2>4 DEF KnowsItsAge
<1> QED
  BY <1>1, <1>2, <1>3, <1>4, <1>5, <1>6 DEF Sound

\* A step of slot r that only reads.
LEMMA ReadingKeepsIInv ==
  ASSUME IInv, NEW r \in Requests, NEW q \in Request, Sound(q), Slot(r, q),
         UNCHANGED <<accountVars, sessionVars, now>>
  PROVE  IInv'
<1> USE DEF accountVars, sessionVars
<1>1. TypeOK'
  BY DEF IInv, TypeOK, Slot
<1>2. \A i \in Requests : Sound(request'[i])
  BY DEF IInv, TypeOK, Slot, RequestsAreSound
<1>3. RequestsAreSound'
  BY <1>2 DEF RequestsAreSound, Sound, KnowsItsAge, Live
<1>4. LiveSessionsAreCurrent' /\ LockFollowsFailures' /\ SessionsHaveAccounts'
  BY DEF IInv, LiveSessionsAreCurrent, LockFollowsFailures, SessionsHaveAccounts, Live, Exists
<1> QED
  BY <1>1, <1>3, <1>4 DEF IInv

\* A slot that returns without a change.
LEMMA ReturningKeepsIInv ==
  ASSUME IInv, NEW r \in Requests, Done(r), UNCHANGED <<accountVars, sessionVars, now>>
  PROVE  IInv'
BY IdleIsSound, ReadingKeepsIInv DEF IInv, Done

\* A step of slot r that writes and returns.
LEMMA WritingKeepsRequests ==
  ASSUME IInv, TypeOK', WorldMovesOn, NEW r \in Requests, Done(r)
  PROVE  RequestsAreSound'
<1>1. Idle \in Request /\ Sound(Idle)
  BY IdleIsSound DEF IInv
<1>2. \A i \in Requests : request'[i] \in Request /\ Sound(request'[i])
  BY <1>1 DEF IInv, TypeOK, RequestsAreSound, Done, Slot
<1>3. \A q \in Request : Sound(q) => Sound(q)'
  BY SoundStaysSound DEF IInv
<1> QED
  BY <1>2, <1>3 DEF RequestsAreSound, Sound, KnowsItsAge, Live

-----------------------------------------------------------------------------
(* Steps that only read.                                                   *)

LEMMA ArrivingKeepsIInv ==
  ASSUME IInv, NEW r \in Requests, Arrive(r)
  PROVE  IInv'
<1> USE DEF IInv
<1>1. now \in 0..MaxTime /\ 0 \in 0..MaxAttempts
  BY StaffAssumption DEF TypeOK
<1>2. ASSUME NEW a \in Accounts, NEW stage \in {"snapshot", "reset", "disable", "enable"},
             Begin(r, stage, a), UNCHANGED <<accountVars, sessionVars, now>>
      PROVE  IInv'
  <2> DEFINE q == [Idle EXCEPT !.stage = stage, !.account = a, !.now = now]
  <2>1. q \in Request
    BY <1>1 DEF Idle, Request, Stage, Password
  <2>2. Sound(q)
    BY <1>1 DEF Idle, Sound
  <2>3. Slot(r, q)
    BY <1>2 DEF Begin
  <2> QED
    BY <1>2, <2>1, <2>2, <2>3, ReadingKeepsIInv
<1>3. ASSUME NEW s \in Sessions, NEW purpose \in {"work", "change"},
             Authenticate(r, s, purpose)
      PROVE  IInv'
  <2> DEFINE q == [Idle EXCEPT !.stage = "find", !.session = s, !.purpose = purpose,
                               !.now = now]
  <2>1. q \in Request
    BY <1>1 DEF Idle, Request, Stage, Password
  <2>2. Sound(q)
    BY <1>1, <1>3 DEF Idle, Sound, Authenticate
  <2>3. Slot(r, q) /\ UNCHANGED <<accountVars, sessionVars, now>>
    BY <1>3 DEF Authenticate
  <2> QED
    BY <2>1, <2>2, <2>3, ReadingKeepsIInv
<1> QED
  BY <1>2, <1>3 DEF Arrive, Login, RequestReset, RequestDisabled

LEMMA SnapshotKeepsIInv ==
  ASSUME IInv, NEW r \in Requests, SnapshotCredential(r)
  PROVE  IInv'
<1> DEFINE p == request[r]
           c == credential[p.account]
<1>1. PICK guess \in {"right", "wrong"} :
        /\ guess = "right" => Exists(p.account)
        /\ Slot(r, [p EXCEPT !.stage = "login", !.guess = guess, !.hash = c.hash,
                             !.password = c.password, !.changedAt = c.changedAt])
  BY DEF SnapshotCredential
<1> DEFINE q == [p EXCEPT !.stage = "login", !.guess = guess, !.hash = c.hash,
                          !.password = c.password, !.changedAt = c.changedAt]
<1>2. p \in Request /\ Sound(p) /\ p.stage = "snapshot" /\ p.account \in Accounts
  BY DEF IInv, TypeOK, RequestsAreSound, SnapshotCredential, At, Sound
<1>3. c \in Credential
  BY <1>2 DEF IInv, TypeOK
<1>4. /\ q \in Request /\ q.stage = "login" /\ q.account = p.account /\ q.now = p.now
      /\ q.guess = guess /\ q.hash = c.hash
  BY <1>2, <1>3 DEF Request, Stage, Credential
<1>5. Sound(q)
  BY <1>1, <1>2, <1>4 DEF Sound, Exists
<1> QED
  BY <1>1, <1>4, <1>5, ReadingKeepsIInv DEF SnapshotCredential

LEMMA RetryKeepsIInv ==
  ASSUME IInv, NEW r \in Requests, RetryLogin(r)
  PROVE  IInv'
<1> DEFINE p == request[r]
           q == [Idle EXCEPT !.stage = "snapshot", !.account = p.account, !.now = p.now,
                             !.attempt = p.attempt + 1]
<1>1. p \in Request /\ Sound(p) /\ p.stage = "login" /\ p.account \in Accounts
  BY DEF IInv, TypeOK, RequestsAreSound, RetryLogin, At, Sound
<1>2. CASE p.attempt + 1 < MaxAttempts
  <2>1. p.attempt + 1 \in 0..MaxAttempts
    BY <1>1, <1>2, StaffAssumption DEF Request
  <2>2. q \in Request
    BY <1>1, <2>1 DEF Idle, Request, Stage, Password
  <2>3. Sound(q)
    BY <1>1 DEF Idle, Sound
  <2>4. Slot(r, q)
    BY <1>2 DEF RetryLogin, Retry
  <2> QED
    BY <2>2, <2>3, <2>4, ReadingKeepsIInv DEF RetryLogin
<1>3. CASE ~(p.attempt + 1 < MaxAttempts)
  BY <1>3, ReturningKeepsIInv DEF RetryLogin, Retry
<1> QED
  BY <1>2, <1>3

LEMMA FindSessionKeepsIInv ==
  ASSUME IInv, NEW r \in Requests, FindSession(r)
  PROVE  IInv'
<1> DEFINE p == request[r]
           a == session[p.session].account
           q == [p EXCEPT !.stage = "read", !.account = a]
<1>1. p \in Request /\ Sound(p) /\ p.stage = "find"
  BY DEF IInv, TypeOK, RequestsAreSound, FindSession, At
<1>2. p.session \in Sessions /\ a # None /\ a \in Accounts
  BY <1>1 DEF Sound, IInv, TypeOK, Session
<1>3. CASE Slot(r, q)
  <2>1. /\ q \in Request /\ q.stage = "read" /\ q.account = a /\ q.now = p.now
        /\ q.session = p.session
    BY <1>1, <1>2 DEF Request, Stage
  <2>2. Sound(q)
    BY <1>1, <1>2, <2>1 DEF Sound
  <2> QED
    BY <1>3, <2>1, <2>2, ReadingKeepsIInv DEF FindSession
<1>4. CASE Done(r)
  BY <1>4, ReturningKeepsIInv DEF FindSession
<1> QED
  BY <1>3, <1>4 DEF FindSession

LEMMA ReadCredentialKeepsIInv ==
  ASSUME IInv, NEW r \in Requests, ReadCredential(r)
  PROVE  IInv'
<1> DEFINE p == request[r]
           a == p.account
           c == credential[a]
           q == [p EXCEPT !.stage = "touch", !.hash = c.hash,
                          !.password = c.password, !.changedAt = c.changedAt]
<1>1. p \in Request /\ Sound(p) /\ p.stage = "read"
  BY DEF IInv, TypeOK, RequestsAreSound, ReadCredential, At
<1>2. p.session \in Sessions /\ session[p.session].account # None /\ a = session[p.session].account
  BY <1>1 DEF Sound
<1>3. a \in Accounts /\ c \in Credential
  BY <1>2 DEF IInv, TypeOK, Session
<1>4. CASE Slot(r, q)
  <2>1. /\ q \in Request /\ q.stage = "touch" /\ q.account = a /\ q.now = p.now
        /\ q.session = p.session /\ q.hash = c.hash /\ q.password = c.password
        /\ q.changedAt = c.changedAt
    BY <1>1, <1>3 DEF Request, Stage, Credential
  <2>2. KnowsItsAge(q)
    BY <1>3, <2>1 DEF KnowsItsAge, Credential
  <2>3. Sound(q)
    BY <1>1, <1>2, <2>1, <2>2 DEF Sound
  <2> QED
    BY <1>4, <2>1, <2>3, ReadingKeepsIInv DEF ReadCredential
<1>5. CASE Done(r)
  BY <1>5, ReturningKeepsIInv DEF ReadCredential
<1> QED
  BY <1>4, <1>5 DEF ReadCredential

\* Work is admitted for a session that was live at the touch: unless it expired
\* since, it has the password the row had, so that password is the holder's own.
LEMMA TouchSessionKeepsIInv ==
  ASSUME IInv, NEW r \in Requests, TouchSession(r)
  PROVE  IInv'
<1> DEFINE p == request[r]
           q == [p EXCEPT !.stage = "admitted"]
<1>1. p \in Request /\ Sound(p) /\ p.stage = "touch"
  BY DEF IInv, TypeOK, RequestsAreSound, TouchSession, At
<1>2. p.session \in Sessions /\ p.account = session[p.session].account
  BY <1>1 DEF Sound
<1>3. CASE Slot(r, q) /\ StillLive(p) /\ Admits(p)
  <2>1. /\ q \in Request /\ q.stage = "admitted" /\ q.account = p.account /\ q.now = p.now
        /\ q.session = p.session /\ q.hash = p.hash /\ q.changedAt = p.changedAt
        /\ q.purpose = p.purpose
    BY <1>1 DEF Request, Stage
  <2>2. ASSUME p.purpose = "work", session[p.session].expiresAt > now
        PROVE  session[p.session].password = "own"
    <3>1. Live(p.session, now) /\ p.password = "own"
      BY <1>3, <2>2 DEF StillLive, Admits, Live
    <3>2. p.password = credential[p.account].password
      BY <1>1, <3>1 DEF Sound
    <3> QED
      BY <1>2, <3>1, <3>2 DEF IInv, LiveSessionsAreCurrent
  <2>3. KnowsItsAge(p)
    BY <1>1 DEF Sound
  <2>4. KnowsItsAge(q)
    BY <2>1, <2>3 DEF KnowsItsAge
  <2>5. Sound(q)
    BY <1>1, <1>2, <2>1, <2>2, <2>4 DEF Sound
  <2> QED
    BY <1>3, <2>1, <2>5, ReadingKeepsIInv DEF TouchSession
<1>4. CASE Done(r)
  BY <1>4, ReturningKeepsIInv DEF TouchSession
<1> QED
  BY <1>3, <1>4 DEF TouchSession

LEMMA HashNewPasswordKeepsIInv ==
  ASSUME IInv, NEW r \in Requests, HashNewPassword(r)
  PROVE  IInv'
<1> DEFINE p == request[r]
           q == [p EXCEPT !.stage = "change", !.now = now]
<1>1. p \in Request /\ Sound(p) /\ p.stage = "admitted" /\ now \in 1..MaxTime
  BY DEF IInv, TypeOK, RequestsAreSound, HashNewPassword, At
<1>2. /\ q \in Request /\ q.stage = "change" /\ q.account = p.account /\ q.now <= now
      /\ q.session = p.session /\ q.hash = p.hash /\ q.changedAt = p.changedAt
  <2>1. now \in 0..MaxTime /\ now <= now
    BY <1>1, StaffAssumption
  <2> QED
    BY <1>1, <2>1 DEF Request, Stage
<1>3. KnowsItsAge(p)
  BY <1>1 DEF Sound
<1>4. KnowsItsAge(q)
  BY <1>2, <1>3 DEF KnowsItsAge
<1>5. Sound(q)
  BY <1>1, <1>2, <1>4 DEF Sound
<1> QED
  BY <1>2, <1>5, ReadingKeepsIInv DEF HashNewPassword

-----------------------------------------------------------------------------
(* Steps that write.                                                       *)

LEMMA CreateProviderKeepsIInv ==
  ASSUME IInv, NEW a \in Accounts, CreateProvider(a)
  PROVE  IInv'
<1> DEFINE c == credential[a]
           d == [c EXCEPT !.hash = 1, !.password = "temporary"]
<1>1. c \in Credential /\ c.hash = 0
  BY DEF IInv, TypeOK, CreateProvider, Exists, Credential
<1>2. /\ d \in Credential /\ d.hash = 1 /\ d.changedAt = c.changedAt
      /\ d.failed = c.failed /\ d.lockedUntil = c.lockedUntil
  BY <1>1 DEF Credential, Password
<1>3. credential' = [credential EXCEPT ![a] = d]
  BY DEF CreateProvider, IInv, TypeOK
<1> HIDE DEF d
<1>4. UNCHANGED <<disabled, session, revoked, request, now>>
  BY DEF CreateProvider, sessionVars
<1>5. TypeOK'
  BY <1>2, <1>3, <1>4 DEF IInv, TypeOK
<1>6. \A s \in Sessions : session[s].account # None
        => session[s].account # a /\ session[s].account \in Accounts
  BY <1>1 DEF IInv, TypeOK, SessionsHaveAccounts, Exists, Session
<1>7. WorldMovesOn
  BY <1>3, <1>4, <1>6 DEF WorldMovesOn, IInv, TypeOK, Credential
<1>8. RequestsAreSound'
  <2>1. \A q \in Request : Sound(q) => Sound(q)'
    BY <1>5, <1>7, SoundStaysSound DEF IInv
  <2>2. \A i \in Requests : request[i] \in Request /\ Sound(request[i])
    BY DEF IInv, TypeOK, RequestsAreSound
  <2> QED
    BY <1>4, <2>1, <2>2 DEF RequestsAreSound, Sound, KnowsItsAge, Live
<1>9. LiveSessionsAreCurrent'
  BY <1>3, <1>4, <1>6 DEF IInv, TypeOK, LiveSessionsAreCurrent, Live
<1>10. LockFollowsFailures'
  BY <1>2, <1>3 DEF IInv, TypeOK, LockFollowsFailures
<1>11. SessionsHaveAccounts'
  BY <1>3, <1>4, <1>6 DEF IInv, TypeOK, SessionsHaveAccounts, Exists
<1> QED
  BY <1>5, <1>8, <1>9, <1>10, <1>11 DEF IInv

\* A step of slot r that touches nothing but the count and the lock of a's row,
\* in step with each other, and may open a session with the current password.
LEMMA CountingKeepsIInv ==
  ASSUME IInv, NEW r \in Requests, NEW a \in Accounts, NEW d \in Credential,
         d.hash = credential[a].hash, d.password = credential[a].password,
         d.changedAt = credential[a].changedAt, d.failed = MaxFailures <=> d.lockedUntil # 0,
         credential' = [credential EXCEPT ![a] = d],
         Done(r), UNCHANGED <<disabled, revoked, now>>,
         \/ UNCHANGED session
         \/ \E s \in Sessions, t \in Nat :
              /\ OpenSession(s, a, t, d.hash, d.password)
              /\ a \notin disabled /\ Exists(a)
  PROVE  IInv'
<1>1. /\ \A b \in Accounts : /\ credential'[b].hash = credential[b].hash
                             /\ credential'[b].password = credential[b].password
                             /\ credential'[b].changedAt = credential[b].changedAt
  BY DEF IInv, TypeOK
<1>2. \A s \in Sessions : session[s].account # None
        => session'[s] = session[s] /\ session[s].account \in Accounts
  BY DEF OpenSession, NoSession, IInv, TypeOK, Session
<1>3. \A s \in Sessions :
        \/ session'[s] = session[s]
        \/ /\ session'[s].account = a /\ session'[s].hash = d.hash
           /\ session'[s].password = d.password
           /\ a \notin disabled /\ Exists(a)
  BY DEF OpenSession, IInv, TypeOK
<1>4. TypeOK'
  <2>1. session' \in [Sessions -> Session]
    <3>1. ASSUME NEW s \in Sessions, NEW t \in Nat, OpenSession(s, a, t, d.hash, d.password)
          PROVE  session' \in [Sessions -> Session]
      <4>1. t + SessionTicks \in Nat
        BY StaffAssumption
      <4> QED
        BY <3>1, <4>1 DEF OpenSession, IInv, TypeOK, Session, Credential
    <3> QED
      BY <3>1 DEF IInv, TypeOK
  <2>2. request' \in [Requests -> Request]
    BY IdleIsSound DEF IInv, TypeOK, Done, Slot
  <2> QED
    BY <2>1, <2>2 DEF IInv, TypeOK
<1>5. WorldMovesOn
  BY <1>1, <1>2 DEF WorldMovesOn, IInv, TypeOK, Credential
<1>6. RequestsAreSound'
  BY <1>4, <1>5, WritingKeepsRequests
<1>7. LiveSessionsAreCurrent'
  BY <1>1, <1>2, <1>3 DEF IInv, LiveSessionsAreCurrent, Live, TypeOK, Session
<1>8. LockFollowsFailures'
  BY DEF IInv, TypeOK, LockFollowsFailures
<1>9. SessionsHaveAccounts'
  BY <1>1, <1>2, <1>3 DEF IInv, SessionsHaveAccounts, Exists
<1> QED
  BY <1>4, <1>6, <1>7, <1>8, <1>9 DEF IInv

LEMMA FailLoginKeepsIInv ==
  ASSUME IInv, NEW r \in Requests, FailLogin(r)
  PROVE  IInv'
<1> DEFINE q == request[r]
           a == q.account
           c == credential[a]
           d == AfterFailure(c, q.now)
<1>1. q \in Request /\ a \in Accounts /\ c \in Credential
  BY DEF IInv, TypeOK, RequestsAreSound, FailLogin, At, Sound
<1>2. CASE credential' = credential
  BY <1>2, ReturningKeepsIInv DEF FailLogin, accountVars
<1>3. CASE ~Refused(a, q) /\ credential' = [credential EXCEPT ![a] = d]
  <2>1. ~Locked(c, q.now) /\ q.now \in Nat
    BY <1>1, <1>3, StaffAssumption DEF Refused, Request
  <2>2. c.failed = MaxFailures <=> c.lockedUntil # 0
    BY <1>1 DEF IInv, LockFollowsFailures
  <2>3. /\ d \in Credential
        /\ d.hash = c.hash /\ d.password = c.password /\ d.changedAt = c.changedAt
        /\ d.failed = MaxFailures <=> d.lockedUntil # 0
    BY <1>1, <2>1, <2>2, FailureCounts
  <2>4. Done(r) /\ UNCHANGED <<disabled, session, revoked, now>>
    BY DEF FailLogin, sessionVars
  <2> HIDE DEF d
  <2> QED
    BY <1>1, <1>3, <2>3, <2>4, CountingKeepsIInv
<1> QED
  BY <1>2, <1>3 DEF FailLogin, IInv, TypeOK

LEMMA CompleteLoginKeepsIInv ==
  ASSUME IInv, NEW r \in Requests, NEW s \in Sessions, CompleteLogin(r, s)
  PROVE  IInv'
<1> DEFINE q == request[r]
           a == q.account
           c == credential[a]
           d == [c EXCEPT !.failed = 0, !.lockedUntil = 0]
<1>1. q \in Request /\ a \in Accounts /\ c \in Credential /\ q.hash > 0
  BY DEF IInv, TypeOK, RequestsAreSound, CompleteLogin, At, Sound
<1>2. /\ d \in Credential
      /\ d.hash = c.hash /\ d.password = c.password /\ d.changedAt = c.changedAt
      /\ d.failed = MaxFailures <=> d.lockedUntil # 0
  BY <1>1, ClearedCount
<1>3. credential' = [credential EXCEPT ![a] = d]
  BY <1>1 DEF CompleteLogin, IInv, TypeOK
<1> HIDE DEF d
<1>4. /\ q.hash = c.hash /\ q.password = c.password
      /\ a \notin disabled /\ Exists(a) /\ q.now \in Nat
  BY <1>1, StaffAssumption DEF CompleteLogin, SameCredentialVersion, Refused, Exists, Request
<1>5. OpenSession(s, a, q.now, d.hash, d.password)
  BY <1>2, <1>4 DEF CompleteLogin
<1>6. Done(r) /\ UNCHANGED <<disabled, revoked, now>>
  BY DEF CompleteLogin
<1>7. \E x \in Sessions, t \in Nat :
        /\ OpenSession(x, a, t, d.hash, d.password)
        /\ a \notin disabled /\ Exists(a)
  BY <1>4, <1>5
<1> QED
  BY <1>1, <1>2, <1>3, <1>6, <1>7, CountingKeepsIInv

\* A step of slot r that writes a's row, whose sessions it revokes, with a clock
\* value t it read before.
LEMMA RevokingKeepsIInv ==
  ASSUME IInv, NEW r \in Requests, NEW a \in Accounts, NEW d \in Credential,
         NEW t \in Nat, t <= now,
         credential[a].hash <= d.hash, credential[a].changedAt <= d.changedAt,
         credential[a].hash < d.hash => credential[a].changedAt < d.changedAt,
         d.failed = MaxFailures <=> d.lockedUntil # 0,
         credential' = [credential EXCEPT ![a] = d],
         revoked' = Revoke(a, t),
         disabled' \subseteq Accounts,
         \A b \in Accounts : b # a => (b \in disabled' <=> b \in disabled),
         Done(r), now' = now,
         \/ UNCHANGED session
         \/ \E s \in Sessions :
              OpenSession(s, a, t, d.hash, d.password) /\ a \notin disabled' /\ d.hash > 0
  PROVE  IInv'
<1>1. \A b \in Accounts : /\ b # a => credential'[b] = credential[b]
                          /\ b = a => credential'[b] = d
  BY DEF IInv, TypeOK
<1>2. \A s \in Sessions : session[s].account # None
        => session'[s] = session[s] /\ session[s].account \in Accounts
  BY DEF OpenSession, NoSession, IInv, TypeOK, Session
<1>3. \A s \in Sessions :
        \/ session'[s] = session[s]
        \/ /\ session'[s].account = a /\ session'[s].hash = d.hash
           /\ session'[s].password = d.password
           /\ a \notin disabled' /\ d.hash > 0
  BY DEF OpenSession, IInv, TypeOK
<1>4. revoked' \subseteq Sessions /\ revoked \subseteq revoked'
  BY DEF Revoke, LiveSessionsOf, IInv, TypeOK
<1>5.   \* No session a had before goes on living.
      \A s \in Sessions :
        session[s].account = a => s \in revoked' \/ ~(session[s].expiresAt > now)
  <2>1. ASSUME NEW s \in Sessions, session[s].account = a, session[s].expiresAt > now
        PROVE  s \in revoked'
    <3>1. session[s].account # None /\ session[s].expiresAt > t
      BY <2>1, StaffAssumption DEF IInv, TypeOK, Session
    <3> QED
      BY <2>1, <3>1 DEF Revoke, LiveSessionsOf, Live
  <2> QED
    BY <2>1
<1>6. TypeOK'
  <2>1. session' \in [Sessions -> Session]
    <3>1. ASSUME NEW s \in Sessions, OpenSession(s, a, t, d.hash, d.password)
          PROVE  session' \in [Sessions -> Session]
      <4>1. t + SessionTicks \in Nat
        BY StaffAssumption
      <4> QED
        BY <3>1, <4>1 DEF OpenSession, IInv, TypeOK, Session, Credential
    <3> QED
      BY <3>1 DEF IInv, TypeOK
  <2>2. request' \in [Requests -> Request]
    BY IdleIsSound DEF IInv, TypeOK, Done, Slot
  <2> QED
    BY <1>4, <2>1, <2>2 DEF IInv, TypeOK
<1>7. WorldMovesOn
  <2>1. ASSUME NEW s \in Sessions, session[s].account # None
        PROVE  LET c == credential[session[s].account]
                   e == credential'[session[s].account]
               IN  /\ c.hash <= e.hash /\ c.changedAt <= e.changedAt
                   /\ c.hash < e.hash => c.changedAt < e.changedAt
                   /\ s \notin revoked' /\ session[s].expiresAt > now'
                        => e.password = c.password
    <3>1. CASE session[s].account = a
      BY <1>1, <1>5, <3>1
    <3>2. CASE session[s].account # a
      BY <1>1, <1>2, <2>1, <3>2 DEF IInv, TypeOK, Credential
    <3> QED
      BY <3>1, <3>2
  <2>2. now <= now'
    BY DEF IInv, TypeOK
  <2> QED
    BY <1>2, <1>4, <2>1, <2>2 DEF WorldMovesOn
<1>8. RequestsAreSound'
  BY <1>6, <1>7, WritingKeepsRequests
<1>9. LiveSessionsAreCurrent'
  <2>1. ASSUME NEW s \in Sessions, Live(s, now)'
        PROVE  /\ session'[s].account \notin disabled'
               /\ session'[s].hash = credential'[session'[s].account].hash
               /\ session'[s].password = credential'[session'[s].account].password
    <3>1. CASE session'[s] = session[s]
      <4>1. Live(s, now) /\ session[s].account # a
        BY <1>4, <1>5, <2>1, <3>1 DEF Live
      <4>2. session[s].account \in Accounts
        BY <1>2, <4>1 DEF Live
      <4> QED
        BY <1>1, <3>1, <4>1, <4>2 DEF IInv, LiveSessionsAreCurrent
    <3>2. CASE session'[s] # session[s]
      BY <1>1, <1>3, <3>2
    <3> QED
      BY <3>1, <3>2
  <2> QED
    BY <2>1 DEF LiveSessionsAreCurrent, Live
<1>10. LockFollowsFailures'
  BY <1>1 DEF IInv, LockFollowsFailures
<1>11. SessionsHaveAccounts'
  <2>1. ASSUME NEW s \in Sessions, session'[s].account # None
        PROVE  credential'[session'[s].account].hash > 0
    <3>1. CASE session'[s] = session[s]
      <4>1. session[s].account \in Accounts /\ credential[session[s].account].hash > 0
        BY <1>2, <2>1, <3>1 DEF IInv, SessionsHaveAccounts, Exists
      <4> QED
        BY <1>1, <3>1, <4>1 DEF IInv, TypeOK, Credential
    <3>2. CASE session'[s] # session[s]
      BY <1>1, <1>3, <3>2
    <3> QED
      BY <3>1, <3>2
  <2> QED
    BY <2>1 DEF SessionsHaveAccounts, Exists
<1> QED
  BY <1>6, <1>8, <1>9, <1>10, <1>11 DEF IInv

LEMMA ChangePasswordKeepsIInv ==
  ASSUME IInv, NEW r \in Requests, NEW s \in Sessions, ChangePassword(r, s)
  PROVE  IInv'
<1> DEFINE q == request[r]
           a == q.account
           c == credential[a]
           d == WithPassword(c, "own", q.now)
<1>1. q \in Request /\ q.now <= now /\ q.now \in Nat
  BY StaffAssumption
     DEF IInv, TypeOK, RequestsAreSound, Sound, ChangePassword, At, Request
<1>2. a \in Accounts /\ c \in Credential
  BY <1>1 DEF IInv, TypeOK, RequestsAreSound, Sound, ChangePassword, At, Session
<1>3. /\ d \in Credential /\ d.hash = c.hash + 1 /\ d.changedAt > c.changedAt
      /\ d.failed = 0 /\ d.lockedUntil = 0
  BY <1>1, <1>2, PasswordsAreNewer
<1>4. /\ credential' = [credential EXCEPT ![a] = d] /\ revoked' = Revoke(a, q.now)
      /\ OpenSession(s, a, q.now, d.hash, d.password)
      /\ a \notin disabled /\ Done(r) /\ UNCHANGED <<disabled, now>>
  BY DEF ChangePassword, MayChange
<1> HIDE DEF d
<1>5. /\ c.hash <= d.hash /\ c.changedAt <= d.changedAt /\ d.hash > 0
      /\ c.changedAt < d.changedAt /\ (d.failed = MaxFailures <=> d.lockedUntil # 0)
  BY <1>2, <1>3, StaffAssumption DEF Credential
<1>6. disabled' \subseteq Accounts /\ \A b \in Accounts : b \in disabled' <=> b \in disabled
  BY <1>4 DEF IInv, TypeOK
<1> QED
  BY <1>1, <1>2, <1>3, <1>4, <1>5, <1>6, RevokingKeepsIInv

LEMMA ResetPasswordKeepsIInv ==
  ASSUME IInv, NEW r \in Requests, ResetPassword(r)
  PROVE  IInv'
<1> DEFINE q == request[r]
           a == q.account
           c == credential[a]
           d == WithPassword(c, "temporary", q.now)
<1>1. q \in Request /\ q.now <= now /\ q.now \in Nat
  BY StaffAssumption
     DEF IInv, TypeOK, RequestsAreSound, Sound, ResetPassword, At, Request
<1>2. a \in Accounts /\ c \in Credential
  BY <1>1 DEF IInv, TypeOK, RequestsAreSound, Sound, ResetPassword, At
<1>3. /\ d \in Credential /\ d.hash = c.hash + 1 /\ d.changedAt > c.changedAt
      /\ d.failed = 0 /\ d.lockedUntil = 0
  BY <1>1, <1>2, PasswordsAreNewer
<1>4. /\ credential' = [credential EXCEPT ![a] = d] /\ revoked' = Revoke(a, q.now)
      /\ Done(r) /\ UNCHANGED <<disabled, session, now>>
  BY DEF ResetPassword
<1> HIDE DEF d
<1>5. /\ c.hash <= d.hash /\ c.changedAt <= d.changedAt
      /\ c.changedAt < d.changedAt /\ (d.failed = MaxFailures <=> d.lockedUntil # 0)
  BY <1>2, <1>3, StaffAssumption DEF Credential
<1>6. disabled' \subseteq Accounts /\ \A b \in Accounts : b \in disabled' <=> b \in disabled
  BY <1>4 DEF IInv, TypeOK
<1> QED
  BY <1>1, <1>2, <1>3, <1>4, <1>5, <1>6, RevokingKeepsIInv

LEMMA SetDisabledKeepsIInv ==
  ASSUME IInv, NEW r \in Requests, SetDisabled(r)
  PROVE  IInv'
<1> DEFINE q == request[r]
           a == q.account
           c == credential[a]
           d == [c EXCEPT !.failed = 0, !.lockedUntil = 0]
<1>1. q \in Request /\ q.now <= now /\ q.now \in Nat
  BY StaffAssumption DEF IInv, TypeOK, RequestsAreSound, Sound, Request
<1>2. a \in Accounts /\ c \in Credential
  BY <1>1 DEF IInv, TypeOK, RequestsAreSound, Sound, SetDisabled
<1>3. /\ d \in Credential
      /\ d.hash = c.hash /\ d.password = c.password /\ d.changedAt = c.changedAt
      /\ d.failed = MaxFailures <=> d.lockedUntil # 0
  BY <1>2, ClearedCount
<1>4. credential' = [credential EXCEPT ![a] = d]
  BY <1>2 DEF SetDisabled, IInv, TypeOK
<1> HIDE DEF d
<1>5. revoked' = Revoke(a, q.now) /\ Done(r) /\ UNCHANGED <<session, now>>
  BY DEF SetDisabled
<1>6. /\ c.hash <= d.hash /\ c.changedAt <= d.changedAt
      /\ c.hash < d.hash => c.changedAt < d.changedAt
  BY <1>2, <1>3 DEF Credential
<1>7. /\ disabled' \subseteq Accounts
      /\ \A b \in Accounts : b # a => (b \in disabled' <=> b \in disabled)
  BY <1>2 DEF SetDisabled, IInv, TypeOK
<1> QED
  BY <1>1, <1>2, <1>3, <1>4, <1>5, <1>6, <1>7, RevokingKeepsIInv

\* A logout, and the clock: no slot moves.
LEMMA LogoutAndTickKeepIInv ==
  ASSUME IInv,
         \/ \E s \in Sessions : Logout(s)
         \/ Tick
  PROVE  IInv'
<1>1. /\ UNCHANGED <<credential, disabled, session, request>>
      /\ revoked \subseteq revoked' /\ revoked' \subseteq Sessions
      /\ now <= now' /\ now' \in 1..MaxTime
  BY StaffAssumption DEF Logout, Tick, accountVars, sessionVars, IInv, TypeOK
<1>2. TypeOK'
  BY <1>1 DEF IInv, TypeOK
<1>3. \A s \in Sessions : session[s] \in Session
  BY DEF IInv, TypeOK
<1>4. \A s \in Sessions : session[s].account # None => session[s].account \in Accounts
  BY <1>3 DEF Session
<1>5. WorldMovesOn
  BY <1>1, <1>4 DEF WorldMovesOn, IInv, TypeOK, Credential
<1>6. RequestsAreSound'
  <2>1. \A q \in Request : Sound(q) => Sound(q)'
    BY <1>2, <1>5, SoundStaysSound DEF IInv
  <2>2. \A i \in Requests : request[i] \in Request /\ Sound(request[i])
    BY DEF IInv, TypeOK, RequestsAreSound
  <2> QED
    BY <1>1, <2>1, <2>2 DEF RequestsAreSound, Sound, KnowsItsAge, Live
<1>7. \A s \in Sessions : Live(s, now)' => Live(s, now)
  BY <1>1, <1>3 DEF Live, Session, IInv, TypeOK
<1>8. LiveSessionsAreCurrent'
  BY <1>1, <1>7 DEF IInv, LiveSessionsAreCurrent, Live
<1>9. LockFollowsFailures' /\ SessionsHaveAccounts'
  BY <1>1 DEF IInv, LockFollowsFailures, SessionsHaveAccounts, Exists
<1> QED
  BY <1>2, <1>6, <1>8, <1>9 DEF IInv

-----------------------------------------------------------------------------
(* The theorems.                                                           *)

LEMMA InitEstablishesIInv == Init => IInv
<1> SUFFICES ASSUME Init PROVE IInv
  OBVIOUS
<1> USE DEF Init
<1>1. TypeOK
  <2>1. 0 \in 0..MaxFailures /\ 1 \in 1..MaxTime /\ 0 \in 0..MaxTime /\ 0 \in 0..MaxAttempts
    BY StaffAssumption
  <2>2. NoCredential \in Credential /\ NoSession \in Session /\ Idle \in Request
    BY <2>1 DEF NoCredential, Credential, NoSession, Session, Idle, Request, Stage, Password
  <2> QED
    BY <2>1, <2>2 DEF TypeOK
<1>2. LiveSessionsAreCurrent /\ SessionsHaveAccounts
  BY DEF LiveSessionsAreCurrent, SessionsHaveAccounts, Live, NoSession
<1>3. LockFollowsFailures
  BY StaffAssumption DEF LockFollowsFailures, NoCredential
<1>4. RequestsAreSound
  BY <1>1, IdleIsSound DEF RequestsAreSound
<1> QED
  BY <1>1, <1>2, <1>3, <1>4 DEF IInv

LEMMA NextKeepsIInv == IInv /\ [Next]_vars => IInv'
<1> SUFFICES ASSUME IInv, [Next]_vars PROVE IInv'
  OBVIOUS
<1>1. ASSUME NEW a \in Accounts, CreateProvider(a)
      PROVE  IInv'
  BY <1>1, CreateProviderKeepsIInv
<1>2. ASSUME NEW r \in Requests, Proceed(r)
      PROVE  IInv'
  <2>1. CASE SnapshotCredential(r)
    BY <2>1, SnapshotKeepsIInv
  <2>2. CASE RetryLogin(r)
    BY <2>2, RetryKeepsIInv
  <2>3. CASE FailLogin(r)
    BY <2>3, FailLoginKeepsIInv
  <2>4. CASE FindSession(r)
    BY <2>4, FindSessionKeepsIInv
  <2>5. CASE ReadCredential(r)
    BY <2>5, ReadCredentialKeepsIInv
  <2>6. CASE TouchSession(r)
    BY <2>6, TouchSessionKeepsIInv
  <2>7. CASE Work(r) \/ RefuseChange(r)
    BY <2>7, ReturningKeepsIInv DEF Work, RefuseChange
  <2>8. CASE HashNewPassword(r)
    BY <2>8, HashNewPasswordKeepsIInv
  <2>9. CASE ResetPassword(r)
    BY <2>9, ResetPasswordKeepsIInv
  <2>10. CASE SetDisabled(r)
    BY <2>10, SetDisabledKeepsIInv
  <2>11. ASSUME NEW s \in Sessions, CompleteLogin(r, s)
         PROVE  IInv'
    BY <2>11, CompleteLoginKeepsIInv
  <2>12. ASSUME NEW s \in Sessions, ChangePassword(r, s)
         PROVE  IInv'
    BY <2>12, ChangePasswordKeepsIInv
  <2> QED
    BY <1>2, <2>1, <2>2, <2>3, <2>4, <2>5, <2>6, <2>7, <2>8, <2>9, <2>10, <2>11, <2>12
       DEF Proceed
<1>3. ASSUME NEW r \in Requests, Arrive(r)
      PROVE  IInv'
  BY <1>3, ArrivingKeepsIInv
<1>4. ASSUME NEW r \in Requests, Abandon(r)
      PROVE  IInv'
  BY <1>4, ReturningKeepsIInv DEF Abandon
<1>5. CASE (\E s \in Sessions : Logout(s)) \/ Tick
  BY <1>5, LogoutAndTickKeepIInv
<1>6. CASE UNCHANGED vars
  <2> USE <1>6 DEF vars, accountVars, sessionVars
  <2>1. TypeOK'
    BY DEF IInv, TypeOK
  <2>2. LiveSessionsAreCurrent' /\ LockFollowsFailures' /\ SessionsHaveAccounts'
    BY DEF IInv, LiveSessionsAreCurrent, LockFollowsFailures, SessionsHaveAccounts, Live, Exists
  <2>3. RequestsAreSound'
    BY DEF IInv, RequestsAreSound, Sound, KnowsItsAge, Live
  <2> QED
    BY <2>1, <2>2, <2>3 DEF IInv
<1> QED
  BY <1>1, <1>2, <1>3, <1>4, <1>5, <1>6 DEF Next

LEMMA IInvHolds == Spec => []IInv
BY InitEstablishesIInv, NextKeepsIInv, PTL DEF Spec

\* Every variable keeps its type.
THEOREM TypeCorrect == Spec => []TypeOK
<1>1. IInv => TypeOK
  BY DEF IInv
<1> QED
  BY <1>1, IInvHolds, PTL

\* A session that still works was opened with the password the account has now,
\* and its account is not disabled.
THEOREM SessionsStayCurrent == Spec => []LiveSessionsAreCurrent
<1>1. IInv => LiveSessionsAreCurrent
  BY DEF IInv
<1> QED
  BY <1>1, IInvHolds, PTL

\* Work is admitted only for somebody who chose the password.
THEOREM TemporaryPasswordsDoNotWork == Spec => []WorkNeedsOwnPassword
<1>1. IInv => WorkNeedsOwnPassword
  BY DEF IInv, RequestsAreSound, Sound, WorkNeedsOwnPassword
<1> QED
  BY <1>1, IInvHolds, PTL

\* A password change that goes through replaces the password its request knew.
THEOREM StaleChangesAreRefused == Spec => []ChangesBuildOnCurrent
<1>1. ASSUME IInv, NEW r \in Requests, request[r].stage = "change", MayChange(request[r])
      PROVE  request[r].hash = credential[request[r].account].hash
  <2> DEFINE q == request[r]
  <2>1. q \in Request /\ Sound(q)
    BY <1>1 DEF IInv, TypeOK, RequestsAreSound
  <2>2. KnowsItsAge(q) /\ q.session \in Sessions /\ session[q.session].account # None
        /\ q.account = session[q.session].account
    BY <1>1, <2>1 DEF Sound
  <2>3. credential[q.account] \in Credential
    BY <1>1, <2>2 DEF IInv, TypeOK, Session
  <2> QED
    BY <1>1, <2>1, <2>2, <2>3 DEF KnowsItsAge, MayChange, Credential, Request
<1>2. IInv => ChangesBuildOnCurrent
  BY <1>1 DEF ChangesBuildOnCurrent
<1> QED
  BY <1>2, IInvHolds, PTL

\* An account is locked exactly when it has used up its failures.
THEOREM LocksAreEarned == Spec => []LockFollowsFailures
<1>1. IInv => LockFollowsFailures
  BY DEF IInv
<1> QED
  BY <1>1, IInvHolds, PTL

=============================================================================
