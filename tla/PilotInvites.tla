---------------------------- MODULE PilotInvites ----------------------------
(***************************************************************************)
(* How people get in without a password: the setup commands that make the  *)
(* first administrator (bootstrap.ts with an invitation, create-staff.ts   *)
(* and bootstrap-local-production-admin.ts with a password), the one-time  *)
(* codes administrators give out, and POST /pilot/sessions, which redeems  *)
(* a code behind the FailedLoginLimiter.                                   *)
(*                                                                         *)
(* The commands and redeem run serializable transactions: each works on    *)
(* the snapshot of its first statement, and the database (external) lets   *)
(* two that each read what the other wrote not both commit; it may reject  *)
(* others too.  For bootstrapInitialAdmin the first statement is the one   *)
(* that waits for the advisory lock, so its snapshot is older than its     *)
(* lock.  The limiter lives in one API process, and a client is an address.*)
(*                                                                         *)
(* createLocalSession, which only development builds have, is left out.    *)
(*                                                                         *)
(* A definition X_Slip, written before X, is X with a plausible slip: the  *)
(* properties are tested by putting it in the place of X.                  *)
(***************************************************************************)
EXTENDS Integers, FiniteSets, FiniteSetsExt

CONSTANTS Commands,         \* runs of a setup command
          Names, AdminName, \* usernames; the one of the local production
          Codes, Wrong,     \* codes of invitations; a guess
          Clients, Attempts,
          NoOne,
          MaximumFailures, GuessWindow,
          MaxTracked,       \* MAX_TRACKED_CLIENTS
          InviteTicks,      \* inviteHours
          MaxTries,         \* attempts of bootstrapInitialAdmin
          LastTime, MaxErrors  \* bounds: of the time; transactions that break

ASSUME InvitesAssumption ==
  /\ AdminName \in Names /\ Wrong \notin Codes
  /\ NoOne \notin Commands \cup Names \cup Attempts
  /\ {MaximumFailures, GuessWindow, MaxTracked, InviteTicks, MaxTries} \subseteq Nat \ {0}
  /\ {LastTime, MaxErrors} \subseteq Nat

VARIABLES time,
          admins,      \* commands whose User with the role ADMIN is there
          command, lock,
          invite,      \* the PilotInvite of a code
          opened,      \* how many sessions a code opened
          attempt,
          queueTail,   \* clientQueues: the attempt that came last, of a client
          failures, resetsAt,  \* clients: the failures counted, 0 for no entry
          tested,      \* how many codes of a client failed, at each time
          errors

setupVars == <<admins, command, lock>>
codeVars == <<invite, opened>>
limitVars == <<queueTail, failures, resetsAt, tested>>
inviteVars == <<time, setupVars, codeVars, attempt, limitVars, errors>>

NoInvite == [made |-> FALSE, target |-> NoOne, until |-> 0, used |-> FALSE]
Invitation == [made : BOOLEAN, target : Commands \cup {NoOne}, until : Nat, used : BOOLEAN]
\* name is NoOne for bootstrapAdminInvite; sees is the snapshot.
Command == [stage : {"new", "waiting", "working", "ended"}, name : Names \cup {NoOne},
            sees : SUBSET Commands, tries : 0..MaxTries]
Attempt == [stage : {"free", "queued", "asked", "found"}, client : Clients \cup {NoOne},
            code : Codes \cup {Wrong}, behind : Attempts \cup {NoOne}, at : Nat]
Vacant == [stage |-> "free", client |-> NoOne, code |-> Wrong, behind |-> NoOne, at |-> 0]

InviteTypeOK ==
  /\ time \in 0..LastTime /\ errors \in 0..MaxErrors
  /\ admins \subseteq Commands
  /\ command \in [Commands -> Command] /\ lock \in Commands \cup {NoOne}
  /\ invite \in [Codes -> Invitation] /\ opened \in [Codes -> Nat]
  /\ attempt \in [Attempts -> Attempt]
  /\ queueTail \in [Clients -> Attempts \cup {NoOne}]
  /\ failures \in [Clients -> Nat] /\ resetsAt \in [Clients -> Nat]
  /\ tested \in [Clients -> [0..LastTime -> Nat]]

InviteInit ==
  /\ time = 0 /\ errors = 0
  /\ admins = {} /\ lock = NoOne
  /\ command = [k \in Commands |->
                  [stage |-> "new", name |-> NoOne, sees |-> {}, tries |-> 0]]
  /\ invite = [i \in Codes |-> NoInvite] /\ opened = [i \in Codes |-> 0]
  /\ attempt = [a \in Attempts |-> Vacant]
  /\ queueTail = [c \in Clients |-> NoOne]
  /\ failures = [c \in Clients |-> 0] /\ resetsAt = [c \in Clients |-> 0]
  /\ tested = [c \in Clients |-> [t \in 0..LastTime |-> 0]]

-----------------------------------------------------------------------------
(* The setup commands.                                                     *)

\* A transaction takes its snapshot with its first statement.
Snapshot(k, stage, name) ==
  command' = [command EXCEPT ![k].stage = stage, ![k].name = name, ![k].sees = admins,
                             ![k].tries = @ + 1]
EndCommand(k) == command' = [command EXCEPT ![k].stage = "ended"]
Unlock(k) == lock' = IF lock = k THEN NoOne ELSE lock

RunBootstrap(k) ==
  /\ command[k].stage = "new"
  /\ Snapshot(k, "working", NoOne)
  /\ UNCHANGED <<time, admins, lock, codeVars, attempt, limitVars, errors>>

BootstrapAdmin(k, name) ==
  /\ command[k].stage = "new"
  /\ Snapshot(k, "waiting", name)
  /\ UNCHANGED <<time, admins, lock, codeVars, attempt, limitVars, errors>>
RunCreateStaff(k, name) == BootstrapAdmin(k, name)
RunLocalProduction(k) == BootstrapAdmin(k, AdminName)

\* pg_advisory_xact_lock returns.
TakeLock(k) ==
  /\ command[k].stage = "waiting" /\ lock = NoOne
  /\ lock' = k
  /\ command' = [command EXCEPT ![k].stage = "working"]
  /\ UNCHANGED <<time, admins, codeVars, attempt, limitVars, errors>>

\* Another transaction that also found no administrator has made one since.
Conflicts_Slip(k) == FALSE
Conflicts(k) == admins # command[k].sees

NewInvite(i, target) ==
  /\ ~invite[i].made
  /\ invite' = [invite EXCEPT ![i] =
       [made |-> TRUE, target |-> target, until |-> time + InviteTicks, used |-> FALSE]]

\* bootstrapAdminInvite: for the first administrator there is, or a new one.
CommitInvitation(k, i) ==
  /\ command[k].stage = "working" /\ command[k].name = NoOne
  /\ \/ /\ \E first \in command[k].sees : NewInvite(i, first)
        /\ UNCHANGED admins
     \/ /\ command[k].sees = {} /\ ~Conflicts(k)
        /\ admins' = admins \cup {k}
        /\ NewInvite(i, k)
  /\ EndCommand(k)
  /\ UNCHANGED <<time, lock, opened, attempt, limitVars, errors>>

\* bootstrapInitialAdmin: the administrator of that name, a refusal, or a new one.
CommitAdmin(k) ==
  /\ command[k].stage = "working" /\ command[k].name # NoOne
  /\ \/ command[k].sees # {} /\ UNCHANGED admins
     \/ command[k].sees = {} /\ ~Conflicts(k) /\ admins' = admins \cup {k}
  /\ EndCommand(k) /\ Unlock(k)
  /\ UNCHANGED <<time, codeVars, attempt, limitVars, errors>>

\* P2034, because of Conflicts or for nothing: only bootstrapInitialAdmin retries.
RejectCommand(k) ==
  /\ command[k].stage = "working" /\ admins # command[k].sees
  /\ IF command[k].name # NoOne /\ command[k].tries < MaxTries
     THEN Snapshot(k, "waiting", command[k].name) ELSE EndCommand(k)
  /\ Unlock(k)
  /\ UNCHANGED <<time, admins, codeVars, attempt, limitVars, errors>>

\* The command is stopped, or its connection is lost: nothing is committed.
BreakCommand(k) ==
  /\ errors < MaxErrors /\ errors' = errors + 1
  /\ command[k].stage \in {"waiting", "working"}
  /\ EndCommand(k) /\ Unlock(k)
  /\ UNCHANGED <<time, admins, codeVars, attempt, limitVars>>

-----------------------------------------------------------------------------
(* Invitations of an administrator, who came in with a code or a password. *)

CreateInvite(i) ==
  /\ \E k \in admins : \/ command[k].name # NoOne
                       \/ \E j \in Codes : opened[j] > 0 /\ invite[j].target = k
  /\ NewInvite(i, NoOne)
  /\ UNCHANGED <<time, setupVars, opened, attempt, limitVars, errors>>

-----------------------------------------------------------------------------
(* POST /pilot/sessions: attempts of one client go one after another.      *)

Redeem_Slip(a, c, code) ==
  /\ attempt[a].stage = "free"
  /\ attempt' = [attempt EXCEPT ![a] = [Vacant EXCEPT !.stage = "queued", !.client = c,
                                                    !.code = code]]
  /\ queueTail' = [queueTail EXCEPT ![c] = a]
  /\ UNCHANGED <<time, setupVars, codeVars, failures, resetsAt, tested, errors>>
Redeem(a, c, code) ==
  /\ attempt[a].stage = "free"
  /\ attempt' = [attempt EXCEPT ![a] = [Vacant EXCEPT !.stage = "queued", !.client = c,
                                                    !.code = code, !.behind = queueTail[c]]]
  /\ queueTail' = [queueTail EXCEPT ![c] = a]
  /\ UNCHANGED <<time, setupVars, codeVars, failures, resetsAt, tested, errors>>

\* The attempt ends: the one behind it goes on, and the last leaves no queue.
Leave(a) ==
  /\ attempt' = [b \in Attempts |->
       IF b = a THEN Vacant
       ELSE IF attempt[b].behind = a THEN [attempt[b] EXCEPT !.behind = NoOne]
       ELSE attempt[b]]
  /\ queueTail' = [c \in Clients |-> IF queueTail[c] = a THEN NoOne ELSE queueTail[c]]

Over(c) == failures[c] > 0 /\ resetsAt[c] <= time

\* assertAllowed forgets a window that is over; redeem then reads the time.
TakeTurn(a) ==
  /\ attempt[a].stage = "queued" /\ attempt[a].behind = NoOne
  /\ LET c == attempt[a].client
     IN  /\ failures' = [failures EXCEPT ![c] = IF Over(c) THEN 0 ELSE @]
         /\ IF failures'[c] >= MaximumFailures
            THEN Leave(a)
            ELSE /\ attempt' = [attempt EXCEPT ![a].stage = "asked", ![a].at = time]
                 /\ UNCHANGED queueTail
  /\ UNCHANGED <<time, setupVars, codeVars, resetsAt, tested, errors>>

Redeemable(code, t) ==
  code # Wrong /\ invite[code].made /\ ~invite[code].used /\ invite[code].until > t

\* recordFailure: in the window there is, or in a new one, for which the client
\* that was entered first may have to go.
RecordFailure(c) ==
  LET tracked == {d \in Clients \ {c} : failures[d] > 0}
      oldest == {d \in tracked : \A e \in tracked : resetsAt[d] <= resetsAt[e]}
  IN  /\ tested' = [tested EXCEPT ![c][time] = @ + 1]
      /\ IF failures[c] > 0 /\ ~Over(c)
         THEN failures' = [failures EXCEPT ![c] = @ + 1] /\ UNCHANGED resetsAt
         ELSE /\ resetsAt' = [resetsAt EXCEPT ![c] = time + GuessWindow]
              /\ \E d \in IF Cardinality(tracked) >= MaxTracked THEN oldest ELSE {c} :
                   failures' = [failures EXCEPT ![d] = 0, ![c] = 1]
Refuse(a) == RecordFailure(attempt[a].client) /\ Leave(a)

Find(a) ==
  /\ attempt[a].stage = "asked"
  /\ IF Redeemable(attempt[a].code, attempt[a].at)
     THEN /\ attempt' = [attempt EXCEPT ![a].stage = "found"]
          /\ UNCHANGED limitVars
     ELSE Refuse(a)
  /\ UNCHANGED <<time, setupVars, codeVars, errors>>

\* The row was changed since the snapshot: the update is rejected.
Changed(code) == invite[code].used

Consume(a) ==
  /\ attempt[a].stage = "found" /\ ~Changed(attempt[a].code)
  /\ invite' = [invite EXCEPT ![attempt[a].code].used = TRUE]
  /\ opened' = [opened EXCEPT ![attempt[a].code] = @ + 1]
  /\ Leave(a)
  /\ UNCHANGED <<time, setupVars, failures, resetsAt, tested, errors>>

\* P2034 is answered, and counted, as INVITE_INVALID.
RejectConsumption(a) ==
  /\ attempt[a].stage = "found"
  /\ Refuse(a)
  /\ UNCHANGED <<time, setupVars, codeVars, errors>>

\* Any other error ends the attempt without being counted.
BreakAttempt(a) ==
  /\ errors < MaxErrors /\ errors' = errors + 1
  /\ attempt[a].stage \in {"asked", "found"}
  /\ Leave(a)
  /\ UNCHANGED <<time, setupVars, codeVars, failures, resetsAt, tested>>

PassTime ==
  /\ time < LastTime
  /\ time' = time + 1
  /\ UNCHANGED <<setupVars, codeVars, attempt, limitVars, errors>>

-----------------------------------------------------------------------------
InviteNext ==
  \/ \E k \in Commands : RunBootstrap(k) \/ RunLocalProduction(k) \/ TakeLock(k)
  \/ \E k \in Commands, name \in Names : RunCreateStaff(k, name)
  \/ \E k \in Commands, i \in Codes : CommitInvitation(k, i)
  \/ \E k \in Commands : CommitAdmin(k) \/ RejectCommand(k) \/ BreakCommand(k)
  \/ \E i \in Codes : CreateInvite(i)
  \/ \E a \in Attempts, c \in Clients, code \in Codes \cup {Wrong} : Redeem(a, c, code)
  \/ \E a \in Attempts : TakeTurn(a) \/ Find(a) \/ Consume(a)
  \/ \E a \in Attempts : RejectConsumption(a) \/ BreakAttempt(a)
  \/ PassTime

InviteSpec == InviteInit /\ [][InviteNext]_inviteVars

-----------------------------------------------------------------------------
(* Properties.                                                             *)

\* Setup commands that overlap make one administrator, and a code that several
\* redeem at once lets in one.
EachIsMadeOnce ==
  /\ Cardinality(admins) <= 1
  /\ \A i \in Codes : opened[i] <= 1

\* Whatever a client sends at once: in any stretch as long as a window, it
\* tests fewer wrong codes than two windows allow, while no client has to go.
GuessesStayBounded ==
  Cardinality(Clients) <= MaxTracked =>
    \A c \in Clients, from \in 0..LastTime :
      LET stretch == {t \in 0..LastTime : from <= t /\ t < from + GuessWindow}
      IN  MapThenSumSet(LAMBDA t : tested[c][t], stretch) < 2 * MaximumFailures

=============================================================================
