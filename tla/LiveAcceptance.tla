--------------------------- MODULE LiveAcceptance ---------------------------
(***************************************************************************)
(* scripts/run-pilot-live-acceptance.mjs: a runner boots a database in a   *)
(* container, starts the pilot server against it, lets the browser tests   *)
(* run (which may have the server restarted), and removes what it made,    *)
(* also when it fails or gets a signal.  One marker file per machine keeps *)
(* a second runner out, and tells the next one what to remove when a       *)
(* runner was killed.                                                      *)
(*                                                                         *)
(* A runner has three lanes that interleave at every await: the script,    *)
(* the restart that the tests asked for, and the cleanup.  Named           *)
(* assumptions: docker has settled a start attempt before anybody looks    *)
(* for the container, and takes longer to answer than a file to be         *)
(* written; no signal comes between taking the marker and the start of     *)
(* docker; and, if ReclaimsAlone, no other runner reads or takes the       *)
(* marker while one deals with a marker it has found.  inspectProcess is   *)
(* the one of Windows, for which the acceptance is documented.  What is in *)
(* the database, the ports and the other children of a runner are left out.*)
(*                                                                         *)
(* A definition X_Slip, written before X, is X with a plausible slip: the  *)
(* properties are tested by putting it in the place of X.                  *)
(***************************************************************************)
EXTENDS Integers

CONSTANTS Runners,        \* runs of the script; a slot is used again
          NoRunner,
          ReclaimsAlone,
          MaxStarts,      \* bound: starts of the server by one runner
          MaxMishaps      \* bound: runners killed, and steps that fail

ASSUME AcceptanceAssumption ==
  /\ NoRunner \notin Runners \cup (0..MaxStarts) /\ ReclaimsAlone \in BOOLEAN
  /\ MaxStarts \in Nat \ {0} /\ MaxMishaps \in Nat

VARIABLES script, restart, cleanup,  \* where the lanes of a runner are
          handlingSignal,
          marker,    \* the state file: a run, and the API process it names
          seen,      \* the marker a runner read
          pending,   \* the temporary file of a runner, renamed to the marker
          acquired,  \* runners whose temporary directory a marker named
          starts,    \* how often a runner started the server
          servers,   \* API processes: a runner and which start it was
          box,       \* the container of a runner
          dirs,      \* temporary directories
          mishaps

laneVars == <<script, restart, cleanup, handlingSignal>>
memoryVars == <<seen, starts>>
fileVars == <<marker, pending, dirs, acquired>>
processVars == <<servers, box>>
acceptanceVars == <<laneVars, memoryVars, fileVars, processVars, mishaps>>

Reclaiming == {"stop", "unbox", "empty", "drop"}
Starting == {"look", "inspect", "temp", "acquire"} \cup Reclaiming
Running == {"boot", "booting", "prepare", "start", "save", "rename", "ready", "serve", "finish"}
Scripts == {"ended"} \cup Starting \cup Running
Restarts == {"none", "stop", "forget", "rename", "start", "save", "renamed", "ready"}
Cleanups ==
  {"none", "close", "stop", "forget", "rename", "unbox", "empty", "drop", "done", "failed"}
Marker == [run : Runners \cup {NoRunner}, api : 0..MaxStarts]
NoMarker == [run |-> NoRunner, api |-> 0]

AcceptanceTypeOK ==
  /\ script \in [Runners -> Scripts] /\ restart \in [Runners -> Restarts]
  /\ cleanup \in [Runners -> Cleanups] /\ handlingSignal \subseteq Runners
  /\ marker \in Marker /\ seen \in [Runners -> Marker]
  /\ pending \in [Runners -> {NoRunner} \cup 0..MaxStarts]
  /\ acquired \subseteq Runners /\ dirs \subseteq Runners
  /\ starts \in [Runners -> 0..MaxStarts] /\ servers \subseteq Runners \X (1..MaxStarts)
  /\ box \in [Runners -> {"none", "asked", "up"}]
  /\ mishaps \in 0..MaxMishaps

AcceptanceInit ==
  /\ script = [r \in Runners |-> "ended"] /\ restart = [r \in Runners |-> "none"]
  /\ cleanup = [r \in Runners |-> "none"] /\ handlingSignal = {}
  /\ marker = NoMarker /\ seen = [r \in Runners |-> NoMarker]
  /\ pending = [r \in Runners |-> NoRunner]
  /\ acquired = {} /\ dirs = {}
  /\ starts = [r \in Runners |-> 0] /\ servers = {}
  /\ box = [r \in Runners |-> "none"]
  /\ mishaps = 0

-----------------------------------------------------------------------------
ScriptGoes(r, stage) ==
  script' = [script EXCEPT ![r] = stage] /\ UNCHANGED <<restart, cleanup, handlingSignal>>
RestartGoes(r, stage) ==
  restart' = [restart EXCEPT ![r] = stage] /\ UNCHANGED <<script, cleanup, handlingSignal>>
CleanupGoes(r, stage) ==
  cleanup' = [cleanup EXCEPT ![r] = stage] /\ UNCHANGED <<script, restart, handlingSignal>>

\* The process ends, with what it had in memory.
Exit(r) ==
  /\ script' = [script EXCEPT ![r] = "ended"] /\ restart' = [restart EXCEPT ![r] = "none"]
  /\ cleanup' = [cleanup EXCEPT ![r] = "none"] /\ handlingSignal' = handlingSignal \ {r}
  /\ seen' = [seen EXCEPT ![r] = NoMarker] /\ starts' = [starts EXCEPT ![r] = 0]

Alive(r) == script[r] # "ended"
ServersOf(r) == {s \in servers : s[1] = r}

\* What a run made that a marker has named.
HasLeft(r) == ServersOf(r) # {} \/ box[r] # "none" \/ r \in dirs \cap acquired

-----------------------------------------------------------------------------
(* reclaimStaleRun, and the marker of an own run.                          *)

StartRunner(r) ==
  /\ ~Alive(r) /\ ~HasLeft(r) /\ marker.run # r
  /\ ScriptGoes(r, "look")
  /\ pending' = [pending EXCEPT ![r] = NoRunner]
  /\ dirs' = dirs \ {r} /\ acquired' = acquired \ {r}
  /\ UNCHANGED <<memoryVars, marker, processVars, mishaps>>

\* Nobody deals with a marker it has found.
Undisturbed ==
  ReclaimsAlone => \A q \in Runners : script[q] \notin {"inspect"} \cup Reclaiming

ReadState(r) ==
  /\ script[r] = "look"
  /\ Undisturbed
  /\ seen' = [seen EXCEPT ![r] = marker]
  /\ ScriptGoes(r, IF marker.run = NoRunner THEN "temp" ELSE "inspect")
  /\ UNCHANGED <<starts, fileVars, processVars, mishaps>>

\* The marker's runner is there: live acceptance is already active.
Active_Slip(q) == TRUE
Active(q) == Alive(q)

InspectRunner(r) ==
  /\ script[r] = "inspect"
  /\ \/ Active(seen[r].run) /\ Exit(r)
     \/ ~Active(seen[r].run) /\ ScriptGoes(r, "stop") /\ UNCHANGED memoryVars
  /\ UNCHANGED <<fileVars, processVars, mishaps>>

\* The process the marker names, or one that is found by its run.
StopStaleServer(r) ==
  /\ script[r] = "stop"
  /\ LET q == seen[r].run
         named == {s \in ServersOf(q) : s[2] = seen[r].api}
     IN  IF ServersOf(q) = {} THEN UNCHANGED servers
         ELSE \E s \in (IF named # {} THEN named ELSE ServersOf(q)) : servers' = servers \ {s}
  /\ ScriptGoes(r, "unbox")
  /\ UNCHANGED <<memoryVars, fileVars, box, mishaps>>

\* docker rm, of a container that docker is not still starting; it takes longer
\* than a write of the marker that is under way.
Saving(q) == script[q] \in {"save", "rename"}
RemoveBox(q) ==
  /\ box[q] # "asked" /\ ~Saving(q)
  /\ box' = [box EXCEPT ![q] = "none"]

RemoveStaleBox(r) ==
  /\ script[r] = "unbox"
  /\ RemoveBox(seen[r].run)
  /\ ScriptGoes(r, "empty")
  /\ UNCHANGED <<memoryVars, fileVars, servers, mishaps>>

RemoveStaleTemp(r) ==
  /\ script[r] = "empty"
  /\ dirs' = dirs \ {seen[r].run}
  /\ ScriptGoes(r, "drop")
  /\ UNCHANGED <<memoryVars, marker, pending, acquired, processVars, mishaps>>

\* unlink takes whatever marker is there now, and fails if there is none.
DropStaleMarker(r) ==
  /\ script[r] = "drop"
  /\ marker' = NoMarker
  /\ IF marker.run = NoRunner THEN Exit(r)
     ELSE ScriptGoes(r, "temp") /\ seen' = [seen EXCEPT ![r] = NoMarker] /\ UNCHANGED starts
  /\ UNCHANGED <<pending, dirs, acquired, processVars, mishaps>>

MakeTemp(r) ==
  /\ script[r] = "temp"
  /\ dirs' = dirs \cup {r}
  /\ ScriptGoes(r, "acquire")
  /\ UNCHANGED <<memoryVars, marker, pending, acquired, processVars, mishaps>>

\* acquireAcceptanceState creates the marker or fails.
AcquireState(r) ==
  /\ script[r] = "acquire" /\ Undisturbed
  /\ IF marker.run = NoRunner
     THEN /\ marker' = [run |-> r, api |-> 0] /\ acquired' = acquired \cup {r}
          /\ ScriptGoes(r, "boot") /\ UNCHANGED <<memoryVars, dirs>>
     ELSE dirs' = dirs \ {r} /\ Exit(r) /\ UNCHANGED <<marker, acquired>>
  /\ UNCHANGED <<pending, processVars, mishaps>>

-----------------------------------------------------------------------------
(* writeAcceptanceState: a temporary file, which must not be there, and a  *)
(* rename.                                                                 *)

WritePending(r, api) ==
  /\ pending[r] = NoRunner
  /\ pending' = [pending EXCEPT ![r] = api]
  /\ UNCHANGED <<marker, dirs, acquired>>
RenamePending(r) ==
  /\ marker' = [run |-> r, api |-> pending[r]]
  /\ pending' = [pending EXCEPT ![r] = NoRunner]
  /\ UNCHANGED <<dirs, acquired>>
Clash(r) == pending[r] # NoRunner /\ UNCHANGED fileVars

\* startPilot spawns unless the cleanup has begun.
MayStart_Slip(r) == TRUE
MayStart(r) == cleanup[r] = "none"
Spawn(r) ==
  /\ MayStart(r) /\ starts[r] < MaxStarts
  /\ starts' = [starts EXCEPT ![r] = @ + 1]
  /\ servers' = servers \cup {<<r, starts'[r]>>}
Serves(r) == <<r, starts[r]>> \in servers

-----------------------------------------------------------------------------
(* The script after the marker is taken; an error leads to its finally.    *)

BootDatabase(r) ==
  /\ script[r] = "boot"
  /\ box' = [box EXCEPT ![r] = "asked"]
  /\ ScriptGoes(r, "booting")
  /\ UNCHANGED <<memoryVars, fileVars, servers, mishaps>>

\* The daemon starts the container or not, whoever still waits for it.
DockerSettles(r) ==
  /\ box[r] = "asked"
  /\ \E outcome \in {"up", "none"} : box' = [box EXCEPT ![r] = outcome]
  /\ UNCHANGED <<laneVars, memoryVars, fileVars, servers, mishaps>>

DatabaseReady(r) ==
  /\ script[r] = "booting" /\ box[r] # "asked"
  /\ ScriptGoes(r, IF box[r] = "up" THEN "prepare" ELSE "finish")
  /\ UNCHANGED <<memoryVars, fileVars, processVars, mishaps>>

\* Migrations, the administrator and the build, of which not all are children.
Prepare(r) ==
  /\ script[r] = "prepare"
  /\ ScriptGoes(r, "start")
  /\ UNCHANGED <<memoryVars, fileVars, processVars, mishaps>>

StartPilot(r) ==
  /\ script[r] = "start"
  /\ \/ Spawn(r) /\ ScriptGoes(r, "save")
     \/ ~MayStart(r) /\ ScriptGoes(r, "finish") /\ UNCHANGED <<starts, servers>>
  /\ UNCHANGED <<seen, fileVars, box, mishaps>>
SaveStart(r) ==
  /\ script[r] = "save"
  /\ \/ WritePending(r, starts[r]) /\ ScriptGoes(r, "rename")
     \/ Clash(r) /\ ScriptGoes(r, "finish")
  /\ UNCHANGED <<memoryVars, processVars, mishaps>>
RenameStart(r) ==
  /\ script[r] = "rename"
  /\ RenamePending(r) /\ ScriptGoes(r, "ready")
  /\ UNCHANGED <<memoryVars, processVars, mishaps>>
PilotReady(r) ==
  /\ script[r] = "ready"
  /\ ScriptGoes(r, IF Serves(r) THEN "serve" ELSE "finish")
  /\ UNCHANGED <<memoryVars, fileVars, processVars, mishaps>>
TestsEnd(r) ==
  /\ script[r] = "serve"
  /\ ScriptGoes(r, "finish")
  /\ UNCHANGED <<memoryVars, fileVars, processVars, mishaps>>

-----------------------------------------------------------------------------
(* restartPilot, for one request of the tests at a time.                   *)

RequestRestart(r) ==
  /\ script[r] = "serve" /\ restart[r] = "none" /\ cleanup[r] = "none"
  /\ starts[r] < MaxStarts
  /\ RestartGoes(r, "stop")
  /\ UNCHANGED <<memoryVars, fileVars, processVars, mishaps>>
StopPilot(r) ==
  /\ restart[r] = "stop"
  /\ servers' = servers \ ServersOf(r)
  /\ RestartGoes(r, "forget")
  /\ UNCHANGED <<memoryVars, fileVars, box, mishaps>>
ForgetPilot(r) ==
  /\ restart[r] = "forget"
  /\ \/ WritePending(r, 0) /\ RestartGoes(r, "rename")
     \/ Clash(r) /\ RestartGoes(r, "none")
  /\ UNCHANGED <<memoryVars, processVars, mishaps>>
RenameForgotten(r) ==
  /\ restart[r] = "rename"
  /\ RenamePending(r) /\ RestartGoes(r, "start")
  /\ UNCHANGED <<memoryVars, processVars, mishaps>>
RestartPilot(r) ==
  /\ restart[r] = "start"
  /\ \/ Spawn(r) /\ RestartGoes(r, "save")
     \/ ~MayStart(r) /\ RestartGoes(r, "none") /\ UNCHANGED <<starts, servers>>
  /\ UNCHANGED <<seen, fileVars, box, mishaps>>
SaveRestart(r) ==
  /\ restart[r] = "save"
  /\ \/ WritePending(r, starts[r]) /\ RestartGoes(r, "renamed")
     \/ Clash(r) /\ RestartGoes(r, "none")
  /\ UNCHANGED <<memoryVars, processVars, mishaps>>
RenameRestart(r) ==
  /\ restart[r] = "renamed"
  /\ RenamePending(r) /\ RestartGoes(r, "ready")
  /\ UNCHANGED <<memoryVars, processVars, mishaps>>
AnswerRestart(r) ==
  /\ restart[r] = "ready"
  /\ RestartGoes(r, "none")
  /\ UNCHANGED <<memoryVars, fileVars, processVars, mishaps>>

-----------------------------------------------------------------------------
(* cleanup, which the finally of the script and a signal begin, once.      *)

BeginCleanup(r) == cleanup' = [cleanup EXCEPT ![r] = IF @ = "none" THEN "close" ELSE @]

Finish(r) ==
  /\ script[r] = "finish" /\ cleanup[r] = "none"
  /\ BeginCleanup(r)
  /\ UNCHANGED <<script, restart, handlingSignal, memoryVars, fileVars, processVars, mishaps>>

\* SIGINT or SIGTERM; before the marker is taken it kills.
Signal(r) ==
  /\ Alive(r) /\ script[r] \in Running \ {"boot"} /\ r \notin handlingSignal
  /\ handlingSignal' = handlingSignal \cup {r}
  /\ BeginCleanup(r)
  /\ UNCHANGED <<script, restart, memoryVars, fileVars, processVars, mishaps>>

\* The control server closes when its request is answered: the test that asked
\* for the restart waits for the answer.  In the code a client that disconnects
\* lets it close earlier, which is left out.
CloseControl(r) ==
  /\ cleanup[r] = "close" /\ restart[r] = "none"
  /\ CleanupGoes(r, "stop")
  /\ UNCHANGED <<memoryVars, fileVars, processVars, mishaps>>
StopAll(r) ==
  /\ cleanup[r] = "stop"
  /\ servers' = servers \ ServersOf(r)
  /\ CleanupGoes(r, "forget")
  /\ UNCHANGED <<memoryVars, fileVars, box, mishaps>>
PersistNone(r) ==
  /\ cleanup[r] = "forget"
  /\ \/ WritePending(r, 0) /\ CleanupGoes(r, "rename")
     \/ Clash(r) /\ CleanupGoes(r, "failed")
  /\ UNCHANGED <<memoryVars, processVars, mishaps>>
RenameNone(r) ==
  /\ cleanup[r] = "rename"
  /\ RenamePending(r) /\ CleanupGoes(r, "unbox")
  /\ UNCHANGED <<memoryVars, processVars, mishaps>>
RemoveOwnBox(r) ==
  /\ cleanup[r] = "unbox"
  /\ RemoveBox(r) /\ CleanupGoes(r, "empty")
  /\ UNCHANGED <<memoryVars, fileVars, servers, mishaps>>
RemoveOwnTemp(r) ==
  /\ cleanup[r] = "empty"
  /\ dirs' = dirs \ {r} /\ CleanupGoes(r, "drop")
  /\ UNCHANGED <<memoryVars, marker, pending, acquired, processVars, mishaps>>
DropMarker(r) ==
  /\ cleanup[r] = "drop"
  /\ marker' = NoMarker
  /\ CleanupGoes(r, IF marker.run = NoRunner THEN "failed" ELSE "done")
  /\ UNCHANGED <<memoryVars, pending, dirs, acquired, processVars, mishaps>>

\* The script's end, or process.exit of the handler wherever the script is.
End(r) ==
  /\ Alive(r) /\ cleanup[r] \in {"done", "failed"}
  /\ script[r] = "finish" \/ r \in handlingSignal
  /\ Exit(r)
  /\ UNCHANGED <<fileVars, processVars, mishaps>>

-----------------------------------------------------------------------------
(* Failures.                                                               *)

\* A step of the script fails, as it may once its children are stopped.
ScriptFails(r) ==
  /\ script[r] \in {"booting", "prepare", "ready", "serve"}
  /\ IF cleanup[r] = "none" THEN mishaps < MaxMishaps /\ mishaps' = mishaps + 1
     ELSE UNCHANGED mishaps
  /\ ScriptGoes(r, "finish")
  /\ UNCHANGED <<memoryVars, fileVars, processVars>>

\* The server ends by itself.
ServerEnds(s) ==
  /\ mishaps < MaxMishaps /\ mishaps' = mishaps + 1
  /\ s \in servers /\ servers' = servers \ {s}
  /\ UNCHANGED <<laneVars, memoryVars, fileVars, box>>

\* A process does not stop, or a command of docker fails.
CleanupFails(r) ==
  /\ mishaps < MaxMishaps /\ mishaps' = mishaps + 1
  /\ cleanup[r] \in {"stop", "unbox", "empty"}
  /\ CleanupGoes(r, "failed")
  /\ UNCHANGED <<memoryVars, fileVars, processVars>>
ReclaimFails(r) ==
  /\ mishaps < MaxMishaps /\ mishaps' = mishaps + 1
  /\ script[r] \in Reclaiming
  /\ Exit(r)
  /\ UNCHANGED <<fileVars, processVars>>

\* SIGKILL: what the runner made stays, its server goes on.
Kill(r) ==
  /\ mishaps < MaxMishaps /\ mishaps' = mishaps + 1
  /\ Alive(r) /\ Exit(r)
  /\ UNCHANGED <<fileVars, processVars>>

-----------------------------------------------------------------------------
Reclaim(r) ==
  ReadState(r) \/ InspectRunner(r) \/ StopStaleServer(r) \/ RemoveStaleBox(r)
    \/ RemoveStaleTemp(r) \/ DropStaleMarker(r)
Run(r) ==
  MakeTemp(r) \/ AcquireState(r) \/ BootDatabase(r) \/ DatabaseReady(r) \/ Prepare(r)
    \/ StartPilot(r) \/ SaveStart(r) \/ RenameStart(r) \/ PilotReady(r) \/ TestsEnd(r)
    \/ Finish(r) \/ End(r)
Again(r) ==
  StopPilot(r) \/ ForgetPilot(r) \/ RenameForgotten(r) \/ RestartPilot(r) \/ SaveRestart(r)
    \/ RenameRestart(r) \/ AnswerRestart(r)
CleanUp(r) ==
  CloseControl(r) \/ StopAll(r) \/ PersistNone(r) \/ RenameNone(r) \/ RemoveOwnBox(r)
    \/ RemoveOwnTemp(r) \/ DropMarker(r)

GoOn(r) == Reclaim(r) \/ Run(r) \/ Again(r) \/ CleanUp(r)

AcceptanceNext ==
  \/ \E r \in Runners : StartRunner(r) \/ GoOn(r) \/ DockerSettles(r)
  \/ \E r \in Runners : RequestRestart(r) \/ Signal(r)
  \/ \E r \in Runners : ScriptFails(r) \/ CleanupFails(r) \/ ReclaimFails(r) \/ Kill(r)
  \/ \E s \in servers : ServerEnds(s)

\* The acceptance is run again, a runner goes on, and docker settles.
AcceptanceFairness ==
  /\ WF_acceptanceVars(\E r \in Runners : StartRunner(r))
  /\ \A r \in Runners : WF_acceptanceVars(GoOn(r))
  /\ WF_acceptanceVars(\E r \in Runners : DockerSettles(r))

AcceptanceSpec == AcceptanceInit /\ [][AcceptanceNext]_acceptanceVars

-----------------------------------------------------------------------------
(* Properties.                                                             *)

\* Every server, container and temporary directory of a run is named by the
\* marker, whenever a runner is killed: the next one finds it, and never
\* does a second run have its own beside it.
WhatExistsIsNamed == \A r \in Runners : HasLeft(r) => marker.run = r

\* A runner that has the marker keeps it until its own cleanup: those that come
\* while it runs fail.
FirstRunnerIsKept ==
  \A r \in Runners :
    script[r] \in Running /\ cleanup[r] = "none" => marker.run = r

\* What a killed runner left is removed by those that come after it.
Leftover == marker.run # NoRunner /\ ~Alive(marker.run)
LeftoversAreReclaimed == Leftover ~> ~Leftover

=============================================================================
