---------------------------- MODULE PilotStorage ----------------------------
(***************************************************************************)
(* LocalPilotObjectStorage: evidence files in one directory, with their    *)
(* reservations and metadata beside them, changed by one mutation at a     *)
(* time.  A mutation takes the lease on the directory (a file with the     *)
(* instant it was asked for), checks the manifest, sweeps what crashes     *)
(* left, and then reserves a key or stores an upload by two renames.       *)
(* FulfillmentService.attachEvidence reads the files without the lease.    *)
(*                                                                         *)
(* A process has one lane: its mutations wait for one another in           *)
(* ROOT_MUTATION_TAILS, in the order they came, which is any order here.   *)
(* Other processes are kept out by the lease.  A lane does one operation   *)
(* of the file system, or one loop of them, per step; a crash may cut a    *)
(* write short, and an operation may fail.  What was written stays.        *)
(*                                                                         *)
(* A definition X_Slip, written before X, is X with a plausible slip: the  *)
(* properties are tested by putting it in the place of X.                  *)
(***************************************************************************)
EXTENDS Integers, FiniteSets, FiniteSetsExt

CONSTANTS Processes,    \* API processes that share the directory
          Keys,         \* object keys: a random one for every upload issued
          None,         \* no key
          OrderOf,      \* the order a key belongs to
          MaxPerOrder,  \* quotas.maxObjectsPerOrder
          MaxTotal,     \* quotas.maxTotalObjects
          StaleAge,     \* ticks until a lease without heartbeat is stale
          WaitLimit,    \* ticks a mutation waits for the lease
          MaxCrashes,   \* bound: processes that die
          MaxFaults     \* bound: operations of the file system that fail

ASSUME StorageAssumption ==
  /\ None \notin Keys
  /\ MaxPerOrder \in Nat \ {0} /\ MaxTotal \in Nat /\ MaxPerOrder <= MaxTotal
  /\ StaleAge \in Nat \ {0} /\ WaitLimit \in Nat
  /\ StaleAge < WaitLimit              \* ROOT_LEASE_STALE_MS < ROOT_LEASE_WAIT_MS
  /\ MaxCrashes \in Nat /\ MaxFaults \in Nat

VARIABLES process,   \* "down", "starting" or "up"
          lane,      \* the mutation a process is in
          disk,      \* the files of a key
          manifest,  \* the manifest file: "none", "torn" or "whole"
          leases,    \* the lease files
          minted,    \* keys that were given out
          expired,   \* ... and whose capability has expired
          tokens,    \* ... and whose capability reached the client
          answers,   \* how often the upload of a key was confirmed
          reader,    \* the attachEvidence a process is in
          attached,  \* keys with a MediaEvidence row
          crashes, faults

clientVars == <<minted, expired, tokens, answers>>
evidenceVars == <<reader, attached>>
vars == <<process, lane, disk, manifest, leases, clientVars, evidenceVars, crashes, faults>>

Files == {"reservation", "torn reservation", "object", "metadata",
          "temporary object", "temporary metadata"}
Pair == {"object", "metadata"}
Temporary == {"temporary object", "temporary metadata"}
Stage == {"idle", "contend", "wait", "manifest", "sweep", "reservations", "pairs", "reserve",
          "check", "temporaries", "object", "metadata", "drop", "release"}
\* What is sent with a capability matches its type, size and digest or not.
Bytes == {"right", "wrong"}
Lane == [stage : Stage, op : {"start", "issue", "accept"}, key : Keys \cup {None},
         bytes : Bytes, asked : Nat, waited : 0..WaitLimit,
         polled : {"yes", "no"}, names : [Keys -> SUBSET Files], counted : SUBSET Keys,
         outcome : {"done", "failed"}]
Nothing == [k \in Keys |-> {}]
Idle == [stage |-> "idle", op |-> "start", key |-> None, bytes |-> "right", asked |-> 0,
         waited |-> 0, polled |-> "no", names |-> Nothing, counted |-> {}, outcome |-> "failed"]
\* A heartbeat keeps a lease at age 0 until its process dies or leaves it behind.
Lease == [asked : Nat, state : {"beating", "left", "torn"}, age : 0..StaleAge]
Reader == [stage : {"idle", "metadata", "content", "verified"}, key : Keys \cup {None}]
NotReading == [stage |-> "idle", key |-> None]

TypeOK ==
  /\ process \in [Processes -> {"down", "starting", "up"}]
  /\ lane \in [Processes -> Lane]
  /\ disk \in [Keys -> SUBSET Files]
  /\ manifest \in {"none", "torn", "whole"}
  /\ leases \subseteq Lease
  /\ minted \subseteq Keys /\ expired \subseteq minted /\ tokens \subseteq minted
  /\ answers \in [Keys -> Nat]
  /\ reader \in [Processes -> Reader] /\ attached \subseteq Keys
  /\ crashes \in 0..MaxCrashes /\ faults \in 0..MaxFaults

\* An empty directory, and no process yet.
Init ==
  /\ process = [p \in Processes |-> "down"]
  /\ lane = [p \in Processes |-> Idle]
  /\ disk = Nothing /\ manifest = "none" /\ leases = {}
  /\ minted = {} /\ expired = {} /\ tokens = {}
  /\ answers = [k \in Keys |-> 0]
  /\ reader = [p \in Processes |-> NotReading] /\ attached = {}
  /\ crashes = 0 /\ faults = 0

-----------------------------------------------------------------------------
At(p, stage) == lane[p].stage = stage
Go(p, stage) == lane' = [lane EXCEPT ![p].stage = stage]
GiveUp(p) == lane' = [lane EXCEPT ![p].stage = "release", ![p].outcome = "failed"]
Succeed(p) == lane' = [lane EXCEPT ![p].stage = "release", ![p].outcome = "done"]

Add(k, files) == disk' = [disk EXCEPT ![k] = @ \cup files]
Remove(k, files) == disk' = [disk EXCEPT ![k] = @ \ files]
Move(k, from, to) == disk' = [disk EXCEPT ![k] = (@ \ {from}) \cup {to}]

\* The later of two leases was asked for later; only their order matters.
NextInstant ==
  1 + Max({0} \cup {l.asked : l \in leases} \cup {lane[p].asked : p \in Processes})
MyLease(p) == [asked |-> lane[p].asked, state |-> "beating", age |-> 0]

-----------------------------------------------------------------------------
(* Requests.  withMutation samples Date.now() before it writes the lease.  *)

Begin(p, op, k, bytes) ==
  /\ At(p, "idle")
  /\ lane' = [lane EXCEPT ![p] = [Idle EXCEPT !.stage = "contend", !.op = op, !.key = k,
                                              !.bytes = bytes, !.asked = NextInstant]]

\* The composition awaits initialize() before it serves anything.
Start(p) ==
  /\ process[p] = "down"
  /\ process' = [process EXCEPT ![p] = "starting"]
  /\ Begin(p, "start", None, "right")
  /\ UNCHANGED <<disk, manifest, leases, clientVars, evidenceVars, crashes, faults>>

\* The key of an upload is new: it ends in a random UUID.
Mint(k) == k \notin minted /\ minted' = minted \cup {k}

IssueUpload(p, k) ==
  /\ process[p] = "up"
  /\ Mint(k)
  /\ Begin(p, "issue", k, "right")
  /\ UNCHANGED <<process, disk, manifest, leases, expired, tokens, answers, evidenceVars,
                 crashes, faults>>

\* The token is signed and bound to its content: what can be wrong is its age,
\* and the bytes that are sent with it.
Presents(k) == k \in tokens \ expired

AcceptUpload(p, k, bytes) ==
  /\ process[p] = "up" /\ Presents(k)
  /\ Begin(p, "accept", k, bytes)
  /\ UNCHANGED <<process, disk, manifest, leases, clientVars, evidenceVars, crashes, faults>>

-----------------------------------------------------------------------------
(* acquireRootLease: write a lease, then poll until it is the first.       *)

WriteLease(p) ==
  /\ At(p, "contend")
  /\ leases' = leases \cup {MyLease(p)}
  /\ Go(p, "wait")
  /\ UNCHANGED <<process, disk, manifest, clientVars, evidenceVars, crashes, faults>>

Stale_Slip == {l \in leases : l.age = StaleAge /\ l.state = "torn"}
Stale == {l \in leases : l.age = StaleAge}

\* Nothing to quarantine or to wait for, and no lease was asked for before.
Owns(p) ==
  /\ Stale = {}
  /\ \A l \in leases : l.state # "torn" /\ lane[p].asked <= l.asked

Acquire(p) ==
  /\ At(p, "wait")
  /\ Owns(p)
  /\ Go(p, "manifest")
  /\ UNCHANGED <<process, disk, manifest, leases, clientVars, evidenceVars, crashes, faults>>

\* A lease is taken away by a rename of which only one process sees the success.
Quarantine(ls) == leases' = leases \ ls

\* A pass over the directory quarantines what is stale and looks at the deadline.
Poll(p) ==
  /\ At(p, "wait")
  /\ ~Owns(p)
  /\ Quarantine(Stale)
  /\ IF lane[p].waited < WaitLimit
     THEN lane' = [lane EXCEPT ![p].polled = "yes"]
     ELSE GiveUp(p)
  /\ UNCHANGED <<process, disk, manifest, clientVars, evidenceVars, crashes, faults>>

\* Time passes for leases without heartbeat and for those who wait; they poll
\* (every 10 ms) far more often than time is counted here.
Tick ==
  /\ \A p \in Processes :
       At(p, "wait") => lane[p].polled = "yes" /\ lane[p].waited < WaitLimit
  /\ leases' = {[l EXCEPT !.age = IF l.state = "beating" THEN 0 ELSE Min({l.age + 1, StaleAge})] :
                  l \in leases}
  /\ lane' = [p \in Processes |->
                IF At(p, "wait")
                THEN [lane[p] EXCEPT !.waited = @ + 1, !.polled = "no"]
                ELSE lane[p]]
  /\ UNCHANGED <<process, disk, manifest, clientVars, evidenceVars, crashes, faults>>

-----------------------------------------------------------------------------
(* ensureRootManifest and scavengeUnlocked, at the start of every mutation *)
(* (initialize does nothing else).                                         *)

ManifestIsGenuine == manifest = "whole"

EnsureManifest(p) ==
  /\ At(p, "manifest")
  /\ IF ManifestIsGenuine \/ (manifest = "none" /\ disk = Nothing)
     THEN manifest' = "whole" /\ Go(p, "sweep")
     ELSE UNCHANGED manifest /\ GiveUp(p)
  /\ UNCHANGED <<process, disk, leases, clientVars, evidenceVars, crashes, faults>>

\* Temporary files go whatever they hold; then the names are listed.
Sweep(p) ==
  /\ At(p, "sweep")
  /\ disk' = [k \in Keys |-> disk[k] \ Temporary]
  /\ lane' = [lane EXCEPT ![p].stage = "reservations", ![p].names = disk']
  /\ UNCHANGED <<process, manifest, leases, clientVars, evidenceVars, crashes, faults>>

\* The file is there and can be read as what its name says.
Readable(k, file) == file \in disk[k]

\* A listed reservation counts while it can be read, has not expired and has no
\* upload beside it.
Reserved(p, k) ==
  /\ "reservation" \in lane[p].names[k] /\ Readable(k, "reservation")
  /\ k \notin expired
  /\ ~(Pair \subseteq lane[p].names[k])

\* The files a pass over the reservations removes.
Outdated_Slip(p, k) == IF Reserved(p, k) THEN {} ELSE lane[p].names[k]
Outdated(p, k) ==
  IF Reserved(p, k) THEN {} ELSE lane[p].names[k] \cap {"reservation", "torn reservation"}

PruneReservations(p) ==
  /\ At(p, "reservations")
  /\ disk' = [k \in Keys |-> disk[k] \ Outdated(p, k)]
  /\ lane' = [lane EXCEPT ![p].stage = "pairs",
                          ![p].counted = {k \in Keys : Reserved(p, k)}]
  /\ UNCHANGED <<process, manifest, leases, clientVars, evidenceVars, crashes, faults>>

\* An object counts if it was listed with its metadata and both can be read.
Stored(p, k) == Pair \subseteq lane[p].names[k] /\ \A file \in Pair : Readable(k, file)

PrunePairs(p) ==
  /\ At(p, "pairs")
  /\ disk' = [k \in Keys |->
                IF Stored(p, k) THEN disk[k] ELSE disk[k] \ (lane[p].names[k] \cap Pair)]
  /\ lane' = [lane EXCEPT
       ![p].stage = CASE lane[p].op = "start" -> "release"
                      [] lane[p].op = "issue" -> "reserve"
                      [] OTHER -> "check",
       ![p].outcome = IF lane[p].op = "start" THEN "done" ELSE "failed",
       ![p].names = Nothing,
       ![p].counted = @ \cup {k \in Keys : Stored(p, k)}]
  /\ UNCHANGED <<process, manifest, leases, clientVars, evidenceVars, crashes, faults>>

-----------------------------------------------------------------------------
(* issueUpload: a reservation, within the quotas.                          *)

WithinQuota_Slip(entries, k) ==
  /\ Cardinality(entries) < MaxTotal
  /\ Cardinality({j \in entries : OrderOf[j] = OrderOf[k]}) <= MaxPerOrder
WithinQuota(entries, k) ==
  /\ Cardinality(entries) < MaxTotal
  /\ Cardinality({j \in entries : OrderOf[j] = OrderOf[k]}) < MaxPerOrder

Reserve(p) ==
  /\ At(p, "reserve")
  /\ LET k == lane[p].key
         accepted == disk[k] = {} /\ WithinQuota(lane[p].counted, k)
     IN  \/ accepted /\ Add(k, {"reservation"}) /\ Succeed(p)
         \/ ~accepted /\ GiveUp(p) /\ UNCHANGED disk
  /\ UNCHANGED <<process, manifest, leases, clientVars, evidenceVars, crashes, faults>>

-----------------------------------------------------------------------------
(* acceptUpload: against the reservation, by way of temporary files.       *)

CheckUpload(p) ==
  /\ At(p, "check")
  /\ LET k == lane[p].key
         reserved == Readable(k, "reservation") /\ disk[k] \cap Pair = {}
     IN  \/ reserved /\ lane[p].bytes = "right" /\ Go(p, "temporaries") /\ UNCHANGED disk
         \/ reserved /\ lane[p].bytes = "wrong" /\ GiveUp(p) /\ Remove(k, {"reservation"})
         \/ ~reserved /\ GiveUp(p) /\ UNCHANGED disk
  /\ UNCHANGED <<process, manifest, leases, clientVars, evidenceVars, crashes, faults>>

WriteTemporaries(p) ==
  /\ At(p, "temporaries")
  /\ Add(lane[p].key, Temporary)
  /\ Go(p, "object")
  /\ UNCHANGED <<process, manifest, leases, clientVars, evidenceVars, crashes, faults>>

\* A rename finds no file only if another process swept it.
RenameObject(p) ==
  /\ At(p, "object")
  /\ LET k == lane[p].key
     IN  IF "temporary object" \in disk[k]
         THEN Move(k, "temporary object", "object") /\ Go(p, "metadata")
         ELSE Remove(k, Temporary) /\ GiveUp(p)
  /\ UNCHANGED <<process, manifest, leases, clientVars, evidenceVars, crashes, faults>>

RenameMetadata(p) ==
  /\ At(p, "metadata")
  /\ LET k == lane[p].key
     IN  IF "temporary metadata" \in disk[k]
         THEN Move(k, "temporary metadata", "metadata") /\ Go(p, "drop")
         ELSE Remove(k, {"object"} \cup Temporary) /\ GiveUp(p)
  /\ UNCHANGED <<process, manifest, leases, clientVars, evidenceVars, crashes, faults>>

DropReservation(p) ==
  /\ At(p, "drop")
  /\ Remove(lane[p].key, {"reservation"})
  /\ Succeed(p)
  /\ UNCHANGED <<process, manifest, leases, clientVars, evidenceVars, crashes, faults>>

-----------------------------------------------------------------------------
(* releaseRootLease, and the answer.                                       *)

\* A failed initialize() ends the process; a failed upload confirms nothing.
Answer(p, outcome) ==
  LET k == lane[p].key
      op == lane[p].op
  IN  /\ process' = [process EXCEPT ![p] = IF op = "start" /\ outcome = "failed"
                                           THEN "down" ELSE "up"]
      /\ tokens' = IF op = "issue" /\ outcome = "done" THEN tokens \cup {k} ELSE tokens
      /\ answers' = IF op = "accept" /\ outcome = "done"
                    THEN [answers EXCEPT ![k] = @ + 1] ELSE answers
      /\ lane' = [lane EXCEPT ![p] = Idle]
      /\ UNCHANGED <<minted, expired>>

Release(p) ==
  /\ At(p, "release")
  /\ Quarantine({MyLease(p)})
  /\ Answer(p, lane[p].outcome)
  /\ UNCHANGED <<disk, manifest, evidenceVars, crashes, faults>>

-----------------------------------------------------------------------------
(* Failures.                                                               *)

\* What an interrupted or failed write of the stage may leave in the directory.
\* Reservation and manifest are written in place, an upload beside its place.
Leftovers(p) ==
  LET With(files) == [disk EXCEPT ![lane[p].key] = @ \cup files]
  IN  CASE At(p, "reserve") -> {disk, With({"torn reservation"})}
        [] At(p, "temporaries") -> {disk, With({"temporary object"}), With(Temporary)}
        [] OTHER -> {disk}
ManifestLeftovers(p) ==
  IF At(p, "manifest") /\ manifest = "none" THEN {"none", "torn"} ELSE {manifest}
LeaseLeftovers(p) ==
  IF At(p, "contend")
  THEN {leases, leases \cup {[MyLease(p) EXCEPT !.state = "torn"]}}
  ELSE {leases}

\* The catch of acceptUpload, whose second rename also takes the object back.
Undone(p, files) ==
  CASE lane[p].stage \in {"temporaries", "object"} ->
         [files EXCEPT ![lane[p].key] = @ \ Temporary]
    [] At(p, "metadata") ->
         [files EXCEPT ![lane[p].key] = @ \ ({"object"} \cup Temporary)]
    [] OTHER -> files

\* An operation of the file system fails.
FailWorking(p) ==
  /\ faults < MaxFaults /\ faults' = faults + 1
  /\ lane[p].stage \notin {"idle", "release"}
  /\ \E files \in Leftovers(p) : disk' = Undone(p, files)
  /\ manifest' \in ManifestLeftovers(p)
  /\ leases' \in LeaseLeftovers(p)
  /\ GiveUp(p)
  /\ UNCHANGED <<process, clientVars, evidenceVars, crashes>>

\* The lease cannot be removed (which is ignored), or its heartbeat has failed
\* (which makes a success a failure).
FailRelease(p) ==
  /\ faults < MaxFaults /\ faults' = faults + 1
  /\ At(p, "release")
  /\ \/ /\ leases' = (leases \ {MyLease(p)}) \cup {[MyLease(p) EXCEPT !.state = "left"]}
        /\ Answer(p, lane[p].outcome)
     \/ /\ Quarantine({MyLease(p)})
        /\ Answer(p, "failed")
  /\ UNCHANGED <<disk, manifest, evidenceVars, crashes>>

\* The process dies: what it was writing may be cut short, its lease stays.
Crash(p) ==
  /\ crashes < MaxCrashes /\ crashes' = crashes + 1
  /\ process[p] # "down"
  /\ process' = [process EXCEPT ![p] = "down"]
  /\ disk' \in Leftovers(p)
  /\ manifest' \in ManifestLeftovers(p)
  /\ IF MyLease(p) \in leases
     THEN leases' = (leases \ {MyLease(p)}) \cup {[MyLease(p) EXCEPT !.state = "left"]}
     ELSE leases' \in LeaseLeftovers(p)
  /\ lane' = [lane EXCEPT ![p] = Idle]
  /\ reader' = [reader EXCEPT ![p] = NotReading]
  /\ UNCHANGED <<clientVars, attached, faults>>

\* expiresInSeconds pass.
Expire(k) ==
  /\ k \in minted \ expired
  /\ expired' = expired \cup {k}
  /\ UNCHANGED <<process, lane, disk, manifest, leases, minted, tokens, answers, evidenceVars,
                 crashes, faults>>

-----------------------------------------------------------------------------
(* FulfillmentService.attachEvidence: verifyUpload reads the metadata and  *)
(* the object without the lease, the row is written afterwards.            *)

Look(p, stage) == reader' = [reader EXCEPT ![p].stage = stage]

RequestAttach(p, k) ==
  /\ process[p] = "up" /\ reader[p] = NotReading
  /\ k \in tokens \ attached
  /\ reader' = [reader EXCEPT ![p] = [stage |-> "metadata", key |-> k]]
  /\ UNCHANGED <<process, lane, disk, manifest, leases, clientVars, attached, crashes, faults>>

ReadMetadata_Slip(p) ==
  /\ reader[p].stage = "metadata"
  /\ IF \E file \in {"metadata", "reservation"} : Readable(reader[p].key, file)
     THEN Look(p, "content") ELSE reader' = [reader EXCEPT ![p] = NotReading]
  /\ UNCHANGED <<process, lane, disk, manifest, leases, clientVars, attached, crashes, faults>>
ReadMetadata(p) ==
  /\ reader[p].stage = "metadata"
  /\ IF Readable(reader[p].key, "metadata")
     THEN Look(p, "content") ELSE reader' = [reader EXCEPT ![p] = NotReading]
  /\ UNCHANGED <<process, lane, disk, manifest, leases, clientVars, attached, crashes, faults>>

ReadContent(p) ==
  /\ reader[p].stage = "content"
  /\ IF Readable(reader[p].key, "object")
     THEN Look(p, "verified") ELSE reader' = [reader EXCEPT ![p] = NotReading]
  /\ UNCHANGED <<process, lane, disk, manifest, leases, clientVars, attached, crashes, faults>>

\* objectKey is unique: a second row would be answered with the first.
CreateEvidence(p) ==
  /\ reader[p].stage = "verified"
  /\ attached' = attached \cup {reader[p].key}
  /\ reader' = [reader EXCEPT ![p] = NotReading]
  /\ UNCHANGED <<process, lane, disk, manifest, leases, clientVars, crashes, faults>>

-----------------------------------------------------------------------------
Proceed(p) ==
  \/ WriteLease(p) \/ Acquire(p) \/ Poll(p)
  \/ EnsureManifest(p) \/ Sweep(p) \/ PruneReservations(p) \/ PrunePairs(p)
  \/ Reserve(p)
  \/ CheckUpload(p) \/ WriteTemporaries(p)
  \/ RenameObject(p) \/ RenameMetadata(p) \/ DropReservation(p)
  \/ Release(p)

Verify(p) == ReadMetadata(p) \/ ReadContent(p) \/ CreateEvidence(p)

Next ==
  \/ \E p \in Processes : Start(p) \/ Proceed(p) \/ Verify(p)
  \/ \E p \in Processes : FailWorking(p) \/ FailRelease(p) \/ Crash(p)
  \/ \E p \in Processes, k \in Keys : IssueUpload(p, k) \/ RequestAttach(p, k)
  \/ \E p \in Processes, k \in Keys, bytes \in Bytes : AcceptUpload(p, k, bytes)
  \/ \E k \in Keys : Expire(k)
  \/ Tick

Spec == Init /\ [][Next]_vars

\* A process is started again, a mutation goes on, and time passes.
StorageFairness ==
  /\ \A p \in Processes : WF_vars(Start(p)) /\ WF_vars(Proceed(p))
  /\ WF_vars(Tick)
FairSpec == Spec /\ StorageFairness

-----------------------------------------------------------------------------
(* Properties of one process that dies and is started again.               *)

\* A reservation holds a place until it expires, or for the upload under way
\* that was checked against it; a complete pair keeps it.
Uploading(k) ==
  \E p \in Processes :
    /\ lane[p].op = "accept" /\ lane[p].key = k
    /\ lane[p].stage \in {"pairs", "check", "temporaries", "object", "metadata"}
Place ==
  [k \in Keys |->
     CASE Pair \subseteq disk[k] -> "kept"
       [] /\ ~(Pair \subseteq disk[k])
          /\ "reservation" \in disk[k] /\ (k \in expired => Uploading(k)) -> "held"
       [] OTHER -> "free"]

\* The directory keeps the promise of EvidenceVault: quotas, one confirmation of
\* an upload, and complete files for ever, across every crash and failure.
Vault == INSTANCE EvidenceVault WITH place <- Place
KeepsItsPromise == Vault!Spec

\* issueReadUrl and readObject serve a key whose two files can be read.
Servable(k) == \A file \in Pair : Readable(k, file)

\* A row of evidence never points to a file that is gone or incomplete.
EvidenceIsBacked == \A k \in attached : Servable(k)

\* Once the manifest is written, a process that dies comes back: whatever it
\* left behind, stale leases and torn files included, does not stop the next.
ServiceResumes ==
  \A p \in Processes : manifest = "whole" ~> process[p] = "up"

=============================================================================
