---------------------------- MODULE StaffAccess ----------------------------
(***************************************************************************)
(* Staff accounts and their sessions: the handlers of                      *)
(* StaffCredentialService and the use PilotSessionService makes of the     *)
(* sessions they open.                                                     *)
(*                                                                         *)
(* A request runs in a slot.  A Serializable transaction is one step: it   *)
(* takes effect as a whole or fails on a conflict.  Hashing and verifying  *)
(* a password take long, so a login and a password change work with a row  *)
(* and a clock value they read before.                                     *)
(*                                                                         *)
(* An administrator's account behaves like a provider's that nobody        *)
(* resets, disables or enables, and is not told apart from it.             *)
(*                                                                         *)
(* Instants are ticks from 1 on; 0 stands for null.  A definition X_Slip   *)
(* is X with a plausible slip, with which the properties are tested.       *)
(***************************************************************************)
EXTENDS Integers

CONSTANTS Accounts,      \* user names
          Sessions,      \* session ids (tokens)
          Requests,      \* slots for requests the API is serving
          None,          \* no account, no session
          MaxFailures,   \* MAXIMUM_FAILURES (5 in the code)
          LockTicks,     \* LOCK_DURATION_MILLISECONDS in ticks
          SessionTicks,  \* sessionDays in ticks
          MaxAttempts,   \* attempts of a login's transaction (3 in the code)
          MaxTime,       \* bound: the clock stops here
          MaxHashes      \* bound: passwords written per account

ASSUME StaffAssumption ==
  /\ None \notin Accounts /\ None \notin Sessions
  /\ MaxFailures \in Nat \ {0} /\ LockTicks \in Nat \ {0} /\ SessionTicks \in Nat \ {0}
  /\ MaxAttempts \in Nat \ {0} /\ MaxTime \in Nat \ {0}
  /\ MaxHashes \in Nat

VARIABLES credential,  \* the StaffCredential rows, by user name
          disabled,    \* accounts with disabledAt set
          session,     \* the PilotSession rows
          revoked,     \* sessions with revokedAt set
          request,     \* what each slot is doing
          now

accountVars == <<credential, disabled>>
sessionVars == <<session, revoked>>
vars == <<accountVars, sessionVars, request, now>>

-----------------------------------------------------------------------------
\* Every hash is salted anew, so the number of passwords written identifies it;
\* 0 before the account exists.  mustChangePassword marks a password that is
\* "temporary", set by somebody else than its holder.
Password == {"none", "temporary", "own"}

Credential == [hash : Nat, password : Password, changedAt : Nat,
               failed : 0..MaxFailures, lockedUntil : Nat]

NoCredential == [hash |-> 0, password |-> "none", changedAt |-> 0,
                 failed |-> 0, lockedUntil |-> 0]

\* hash and password are the ones the session was opened with: what the login
\* verified, or what the change wrote.
Session == [account : Accounts \cup {None}, expiresAt : Nat,
            hash : Nat, password : Password]

NoSession == [account |-> None, expiresAt |-> 0, hash |-> 0, password |-> "none"]

Stage == {"idle", "snapshot", "login", "find", "read", "touch", "admitted",
          "change", "reset", "disable", "enable"}

Request == [stage : Stage, account : Accounts \cup {None}, session : Sessions \cup {None},
            purpose : {"none", "work", "change"},
            now : 0..MaxTime,               \* the handler's clock value
            hash : Nat, password : Password, changedAt : Nat,  \* the row it read
            guess : {"none", "right", "wrong"},
            attempt : 0..MaxAttempts]

Idle == [stage |-> "idle", account |-> None, session |-> None, purpose |-> "none", now |-> 0,
         hash |-> 0, password |-> "none", changedAt |-> 0, guess |-> "none", attempt |-> 0]

TypeOK ==
  /\ credential \in [Accounts -> Credential]
  /\ disabled \subseteq Accounts
  /\ session \in [Sessions -> Session]
  /\ revoked \subseteq Sessions
  /\ request \in [Requests -> Request]
  /\ now \in 1..MaxTime

Init ==
  /\ credential = [a \in Accounts |-> NoCredential]
  /\ disabled = {}
  /\ session = [s \in Sessions |-> NoSession]
  /\ revoked = {}
  /\ request = [r \in Requests |-> Idle]
  /\ now = 1

-----------------------------------------------------------------------------
Exists(a) == credential[a].hash > 0

\* revokedAt null and expiresAt after t.
Live(s, t) == session[s].account # None /\ s \notin revoked /\ session[s].expiresAt > t

Slot(r, q) == request' = [request EXCEPT ![r] = q]
Done(r) == Slot(r, Idle)
At(r, stage) == request[r].stage = stage

Begin(r, stage, a) ==
  /\ At(r, "idle")
  /\ Slot(r, [Idle EXCEPT !.stage = stage, !.account = a, !.now = now])

\* updateMany over the live sessions of a, with the handler's clock value t.
LiveSessionsOf(a, t) == {s \in Sessions : session[s].account = a /\ Live(s, t)}
Revoke(a, t) == revoked \cup LiveSessionsOf(a, t)

\* createSessionForUserInTransaction at the instant t.
OpenSession(s, a, t, hash, password) ==
  /\ session[s] = NoSession
  /\ session' = [session EXCEPT ![s] = [account |-> a, expiresAt |-> t + SessionTicks,
                                        hash |-> hash, password |-> password]]

\* Strictly later than before, whatever the clock says.
NextPasswordChangedAt_Slip(previous, t) == t
NextPasswordChangedAt(previous, t) == IF previous >= t THEN previous + 1 ELSE t

\* What a new password does to the account's row: it also ends a lock.
WithPassword(c, password, t) ==
  [hash |-> c.hash + 1, password |-> password,
   changedAt |-> NextPasswordChangedAt(c.changedAt, t), failed |-> 0, lockedUntil |-> 0]

MayWritePassword(a) == credential[a].hash < MaxHashes

-----------------------------------------------------------------------------
(* createProvider; a user name that is taken leaves everything as it is.   *)

CreateProvider(a) ==
  /\ ~Exists(a) /\ MayWritePassword(a)
  /\ credential' = [credential EXCEPT ![a].hash = 1, ![a].password = "temporary"]
  /\ UNCHANGED <<disabled, sessionVars, request, now>>

-----------------------------------------------------------------------------
(* StaffCredentialService.login.  The limiter in memory may turn it away   *)
(* before the snapshot and after the verification: see Abandon.            *)

Login(r, a) ==
  /\ Begin(r, "snapshot", a)
  /\ UNCHANGED <<accountVars, sessionVars, now>>

\* Read the row and verify the password against its hash; without a row a dummy
\* hash is verified, which no password matches.
SnapshotCredential(r) ==
  /\ At(r, "snapshot")
  /\ LET q == request[r]
         c == credential[q.account]
     IN  \E guess \in {"right", "wrong"} :
           /\ guess = "right" => Exists(q.account)
           /\ Slot(r, [q EXCEPT !.stage = "login", !.guess = guess, !.hash = c.hash,
                                !.password = c.password, !.changedAt = c.changedAt])
  /\ UNCHANGED <<accountVars, sessionVars, now>>

SameCredentialVersion_Slip(q, c) == q.hash > 0 <=> c.hash > 0
SameCredentialVersion(q, c) ==
  q.hash = c.hash /\ q.password = c.password /\ q.changedAt = c.changedAt

\* The lock in force at the login's own clock value.
Locked(c, t) == c.lockedUntil > t

\* recordCredentialFailure: a lock that is over starts a new count.
AfterFailure_Slip(c, t) ==
  LET failed == c.failed + 1
  IN  [c EXCEPT !.failed = failed,
                !.lockedUntil = IF failed >= MaxFailures THEN t + LockTicks ELSE @]
AfterFailure(c, t) ==
  LET over == c.lockedUntil # 0 /\ c.lockedUntil <= t
      failed == IF over THEN 1 ELSE c.failed + 1
  IN  IF failed >= MaxFailures
      THEN [c EXCEPT !.failed = MaxFailures, !.lockedUntil = t + LockTicks]
      ELSE [c EXCEPT !.failed = failed, !.lockedUntil = IF over THEN 0 ELSE @]

\* Once more from the snapshot, or give up.
Retry(r) ==
  LET q == request[r]
  IN  IF q.attempt + 1 < MaxAttempts
      THEN Slot(r, [Idle EXCEPT !.stage = "snapshot", !.account = q.account, !.now = q.now,
                                !.attempt = q.attempt + 1])
      ELSE Done(r)

\* The row changed since the snapshot, or the transaction met a conflict.
RetryLogin(r) ==
  /\ At(r, "login")
  /\ Retry(r)
  /\ UNCHANGED <<accountVars, sessionVars, now>>

Refused(a, q) == a \in disabled \/ Locked(credential[a], q.now)

FailLogin(r) ==
  /\ At(r, "login")
  /\ LET q == request[r]
         a == q.account
         counts == Exists(a) /\ ~Refused(a, q) /\ q.guess = "wrong"
     IN  /\ SameCredentialVersion(q, credential[a])
         /\ q.guess = "wrong" \/ Refused(a, q)
         /\ credential' = IF counts
                          THEN [credential EXCEPT ![a] = AfterFailure(@, q.now)]
                          ELSE credential
  /\ Done(r)
  /\ UNCHANGED <<disabled, sessionVars, now>>

CompleteLogin(r, s) ==
  /\ At(r, "login")
  /\ LET q == request[r]
         a == q.account
     IN  /\ SameCredentialVersion(q, credential[a])
         /\ q.guess = "right"
         /\ ~Refused(a, q)
         /\ credential' = [credential EXCEPT ![a].failed = 0, ![a].lockedUntil = 0]
         /\ OpenSession(s, a, q.now, q.hash, q.password)
  /\ Done(r)
  /\ UNCHANGED <<disabled, revoked, now>>

-----------------------------------------------------------------------------
(* PilotSessionService.authenticate, and what it admits: work              *)
(* (authenticateStaffAction) or a change of the password.                  *)

Authenticate(r, s, purpose) ==
  /\ session[s].account # None
  /\ At(r, "idle")
  /\ Slot(r, [Idle EXCEPT !.stage = "find", !.session = s, !.purpose = purpose, !.now = now])
  /\ UNCHANGED <<accountVars, sessionVars, now>>

\* The query for the session and, the include being a query of its own, the one
\* for the account's row.
FindSession(r) ==
  /\ At(r, "find")
  /\ LET q == request[r]
     IN  IF Live(q.session, q.now)
         THEN Slot(r, [q EXCEPT !.stage = "read", !.account = session[q.session].account])
         ELSE Done(r)
  /\ UNCHANGED <<accountVars, sessionVars, now>>

ReadCredential(r) ==
  /\ At(r, "read")
  /\ LET q == request[r]
         c == credential[q.account]
     IN  IF q.account \in disabled
         THEN Done(r)
         ELSE Slot(r, [q EXCEPT !.stage = "touch", !.hash = c.hash,
                                !.password = c.password, !.changedAt = c.changedAt])
  /\ UNCHANGED <<accountVars, sessionVars, now>>

\* The update of lastSeenAt has to find the session live still.
StillLive_Slip(q) == TRUE
StillLive(q) == Live(q.session, q.now)

\* authenticateStaffAction lets nobody work with a temporary password.
Admits(q) == q.purpose = "change" \/ q.password = "own"

TouchSession(r) ==
  /\ At(r, "touch")
  /\ LET q == request[r]
     IN  IF StillLive(q) /\ Admits(q)
         THEN Slot(r, [q EXCEPT !.stage = "admitted"])
         ELSE Done(r)
  /\ UNCHANGED <<accountVars, sessionVars, now>>

\* The work itself belongs to the other components.
Work(r) ==
  /\ At(r, "admitted") /\ request[r].purpose = "work"
  /\ Done(r)
  /\ UNCHANGED <<accountVars, sessionVars, now>>

Logout(s) ==
  /\ Live(s, now)
  /\ revoked' = revoked \cup {s}
  /\ UNCHANGED <<accountVars, session, request, now>>

-----------------------------------------------------------------------------
(* StaffCredentialService.changePassword.                                  *)

HashNewPassword(r) ==
  /\ At(r, "admitted") /\ request[r].purpose = "change"
  /\ Slot(r, [request[r] EXCEPT !.stage = "change", !.now = now])
  /\ UNCHANGED <<accountVars, sessionVars, now>>

MayChange(q) ==
  /\ Exists(q.account) /\ q.account \notin disabled
  /\ credential[q.account].changedAt = q.changedAt

ChangePassword(r, s) ==
  /\ At(r, "change")
  /\ LET q == request[r]
         a == q.account
         c == WithPassword(credential[a], "own", q.now)
     IN  /\ MayChange(q) /\ MayWritePassword(a)
         /\ credential' = [credential EXCEPT ![a] = c]
         /\ revoked' = Revoke(a, q.now)
         /\ OpenSession(s, a, q.now, c.hash, c.password)
  /\ Done(r)
  /\ UNCHANGED <<disabled, now>>

RefuseChange(r) ==
  /\ At(r, "change") /\ ~MayChange(request[r])
  /\ Done(r)
  /\ UNCHANGED <<accountVars, sessionVars, now>>

-----------------------------------------------------------------------------
(* An administrator's resetPassword and setDisabled; an account that does  *)
(* not exist is refused without effect.                                    *)

RequestReset(r, a) ==
  /\ Exists(a)
  /\ Begin(r, "reset", a)
  /\ UNCHANGED <<accountVars, sessionVars, now>>

ResetPassword(r) ==
  /\ At(r, "reset")
  /\ LET q == request[r]
         a == q.account
     IN  /\ MayWritePassword(a)
         /\ credential' = [credential EXCEPT ![a] = WithPassword(@, "temporary", q.now)]
         /\ revoked' = Revoke(a, q.now)
  /\ Done(r)
  /\ UNCHANGED <<disabled, session, now>>

RequestDisabled(r, a, disable) ==
  /\ Exists(a)
  /\ Begin(r, IF disable THEN "disable" ELSE "enable", a)
  /\ UNCHANGED <<accountVars, sessionVars, now>>

SetDisabled(r) ==
  /\ request[r].stage \in {"disable", "enable"}
  /\ LET q == request[r]
         a == q.account
     IN  /\ disabled' = IF q.stage = "disable" THEN disabled \cup {a} ELSE disabled \ {a}
         /\ credential' = [credential EXCEPT ![a].failed = 0, ![a].lockedUntil = 0]
         /\ revoked' = Revoke(a, q.now)
  /\ Done(r)
  /\ UNCHANGED <<session, now>>

-----------------------------------------------------------------------------
\* A request ends early: the limiter or a conflict turns it away, or it dies.
Abandon(r) ==
  /\ ~At(r, "idle")
  /\ Done(r)
  /\ UNCHANGED <<accountVars, sessionVars, now>>

Tick ==
  /\ now < MaxTime
  /\ now' = now + 1
  /\ UNCHANGED <<accountVars, sessionVars, request>>

Proceed(r) ==
  \/ SnapshotCredential(r) \/ RetryLogin(r) \/ FailLogin(r)
  \/ FindSession(r) \/ ReadCredential(r) \/ TouchSession(r) \/ Work(r)
  \/ HashNewPassword(r) \/ RefuseChange(r) \/ ResetPassword(r) \/ SetDisabled(r)
  \/ \E s \in Sessions : CompleteLogin(r, s) \/ ChangePassword(r, s)

Arrive(r) ==
  \/ \E a \in Accounts :
       \/ Login(r, a) \/ RequestReset(r, a)
       \/ \E disable \in BOOLEAN : RequestDisabled(r, a, disable)
  \/ \E s \in Sessions, purpose \in {"work", "change"} : Authenticate(r, s, purpose)

Next ==
  \/ \E a \in Accounts : CreateProvider(a)
  \/ \E r \in Requests : Proceed(r) \/ Arrive(r) \/ Abandon(r)
  \/ \E s \in Sessions : Logout(s)
  \/ Tick

Spec == Init /\ [][Next]_vars

-----------------------------------------------------------------------------
(* Properties.                                                             *)

\* A session that still works belongs to an account that is not disabled, and was
\* opened with the password the account has now: a login that verified an older
\* hash, and a reset, change or disabling that ran meanwhile, leave none behind.
LiveSessionsAreCurrent ==
  \A s \in Sessions : Live(s, now) =>
    LET a == session[s].account
    IN  /\ a \notin disabled
        /\ session[s].hash = credential[a].hash
        /\ session[s].password = credential[a].password

\* Work is admitted only for somebody who chose the password: a session opened
\* with a temporary password is not let through because its account's password
\* is changed, by another request, while it is being checked.
WorkNeedsOwnPassword ==
  \A r \in Requests :
    LET q == request[r]
    IN  q.stage = "admitted" /\ q.purpose = "work" /\ session[q.session].expiresAt > now
          => session[q.session].password = "own"

\* A change that the comparison of passwordChangedAt lets through replaces the
\* password that was current when its request was authenticated, even if several
\* passwords were written at one instant.
ChangesBuildOnCurrent ==
  \A r \in Requests :
    LET q == request[r]
    IN  q.stage = "change" /\ MayChange(q) => q.hash = credential[q.account].hash

\* An account has a lock exactly when it has used up its failures; the count
\* never runs past the limit, and restarts when a lock is over.
LockFollowsFailures ==
  \A a \in Accounts :
    credential[a].failed = MaxFailures <=> credential[a].lockedUntil # 0

=============================================================================
