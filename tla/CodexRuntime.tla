----------------------------- MODULE CodexRuntime -----------------------------
(***************************************************************************)
(* codex_runtime.py: detached supervisors, one per session, each with its  *)
(* application, and the commands launch, status (snapshot and report read  *)
(* the same way) and stop. They share no lock, only files: active.json of  *)
(* the runtime root, and manifest.json and stop.request of each session.   *)
(***************************************************************************)
EXTENDS Naturals, FiniteSets

CONSTANTS
  MaxSessions,         \* bound on the launches that start a supervisor
  MaxCommands          \* bound on the commands

Sessions == 1 .. MaxSessions
Shells == {"shell", "agent"}   \* who types commands

(* "hasty": a command may start before an earlier one or a supervisor's    *)
(* start or end has finished, and an application may end while one runs.   *)
(* "crash": a supervisor may be killed.                                    *)
Hazards == {"hasty", "crash"}

VARIABLES
  hazards,
  activeFile,          \* active.json
  manifest,            \* state in the manifest.json of each session
  stopFile,            \* sessions with a stop.request
  supervisor,          \* where the supervisor of each session is
  stopSent,            \* stop_sent of each supervisor
  app,                 \* each application: none, running, zombie (not yet polled) or gone
  command,             \* of each shell: what it does, where it is, what it read
  commands             \* how many were started

filesOf == <<activeFile, manifest, stopFile>>
processes == <<supervisor, stopSent, app>>
runtimeVars == <<hazards, filesOf, processes, command, commands>>

NoManifest == [of |-> 0, state |-> "none"]
Final == {"exited", "failed", "not_started"}
Idle == [does |-> "nothing", at |-> "idle", sees |-> NoManifest]

Init ==
  /\ hazards \in SUBSET Hazards
  /\ activeFile = NoManifest /\ manifest = [s \in Sessions |-> "none"] /\ stopFile = {}
  /\ supervisor = [s \in Sessions |-> "none"] /\ stopSent = [s \in Sessions |-> FALSE]
  /\ app = [s \in Sessions |-> "none"]
  /\ command = [c \in Shells |-> Idle] /\ commands = 0

(* kill(pid, 0) also succeeds for a child its parent has not polled.       *)
Alive(s) == app[s] \in {"running", "zombie"}

-----------------------------------------------------------------------------
(* _supervise. Each write of a file is a step.                             *)

Supervise(s, from, to) == supervisor[s] = from /\ supervisor' = [supervisor EXCEPT ![s] = to]
WriteManifest(s, state) == manifest' = [manifest EXCEPT ![s] = state] /\ UNCHANGED <<activeFile, stopFile>>
WriteActive(s, state) == activeFile' = [of |-> s, state |-> state] /\ UNCHANGED <<manifest, stopFile>>

(* preflight_failed or launch_failed *)
StartFails(s) ==
  \/ Supervise(s, "starting", "refused") /\ WriteManifest(s, "not_started") /\ UNCHANGED <<stopSent, app>>
  \/ Supervise(s, "refused", "ended") /\ WriteActive(s, "not_started") /\ UNCHANGED <<stopSent, app>>

Spawn(s) ==
  /\ Supervise(s, "starting", "spawned")
  /\ app' = [app EXCEPT ![s] = "running"]
  /\ UNCHANGED <<filesOf, stopSent>>

Announce(s) ==
  \/ Supervise(s, "spawned", "announcing") /\ WriteManifest(s, "running") /\ UNCHANGED <<stopSent, app>>
  \/ Supervise(s, "announcing", "loop") /\ WriteActive(s, "running") /\ UNCHANGED <<stopSent, app>>

(* An application may end on SIGTERM; it may also ask about unsaved work.  *)
SendStop(s) ==
  /\ supervisor[s] = "loop" /\ s \in stopFile /\ ~stopSent[s]
  /\ stopSent' = [stopSent EXCEPT ![s] = TRUE]
  /\ UNCHANGED <<filesOf, supervisor, app>>

(* poll() returns the code and reaps the process. *)
Poll(s) ==
  /\ Supervise(s, "loop", "finishing") /\ app[s] = "zombie"
  /\ app' = [app EXCEPT ![s] = "gone"]
  /\ UNCHANGED <<filesOf, stopSent>>

Finish(s) ==
  \/ Supervise(s, "finishing", "finished") /\ WriteManifest(s, "exited") /\ UNCHANGED <<stopSent, app>>
  \/ Supervise(s, "finished", "ended") /\ WriteActive(s, "exited") /\ UNCHANGED <<stopSent, app>>

Supervisor(s) ==
  /\ StartFails(s) \/ Spawn(s) \/ Announce(s) \/ SendStop(s) \/ Poll(s) \/ Finish(s)
  /\ UNCHANGED <<hazards, command, commands>>

(* No command is looking at files or processes.                            *)
Undisturbed == \A c \in Shells : command[c].at \in {"idle", "await"}

AppEnds(s) ==
  /\ app[s] = "running" /\ ("hasty" \in hazards \/ Undisturbed)
  /\ app' = [app EXCEPT ![s] = IF supervisor[s] = "dead" THEN "gone" ELSE "zombie"]
  /\ UNCHANGED <<hazards, filesOf, supervisor, stopSent, command, commands>>

(* A supervisor is killed; its application is adopted and reaped by init.  *)
Crash(s) ==
  /\ "crash" \in hazards /\ supervisor[s] \notin {"none", "ended", "dead"}
  /\ "hasty" \in hazards \/ supervisor[s] = "loop"
  /\ supervisor' = [supervisor EXCEPT ![s] = "dead"]
  /\ app' = [app EXCEPT ![s] = IF @ = "zombie" THEN "gone" ELSE @]
  /\ UNCHANGED <<hazards, filesOf, stopSent, command, commands>>

-----------------------------------------------------------------------------
(* The commands *)

At(c, place) == command' = [command EXCEPT ![c].at = place]
Settled ==
  /\ \A c \in Shells : command[c] = Idle
  /\ \A s \in Sessions : supervisor[s] \in {"none", "loop", "ended", "dead"} /\ app[s] # "zombie"

Type(c) ==
  /\ command[c] = Idle /\ commands < MaxCommands /\ ("hasty" \in hazards \/ Settled)
  /\ \E what \in {"launch", "status", "stop"} :
       command' = [command EXCEPT ![c] = [does |-> what, at |-> "read", sees |-> NoManifest]]
  /\ commands' = commands + 1
  /\ UNCHANGED <<filesOf, processes>>

ReadActive(c) ==
  /\ command[c].at = "read"
  /\ command' = [command EXCEPT ![c].sees = activeFile,
                                ![c].at = IF activeFile.state = "running" THEN "check" ELSE "decide"]
  /\ UNCHANGED <<filesOf, processes, commands>>

(* Mutant: the supervisor stands for its application. *)
ReconcileBySupervisor(c) ==
  LET s == command[c].sees.of
  IN \/ /\ command[c].at = "check"
        /\ At(c, IF supervisor[s] \notin {"dead", "ended"} THEN "decide" ELSE "fail_session")
        /\ UNCHANGED filesOf
     \/ command[c].at = "fail_session" /\ WriteManifest(s, "failed") /\ At(c, "fail_active")
     \/ /\ command[c].at = "fail_active" /\ WriteActive(s, "failed")
        /\ command' = [command EXCEPT ![c].at = "decide", ![c].sees.state = "failed"]

(* _reconcile_stale_manifest *)
Reconcile(c) ==
  LET s == command[c].sees.of
  IN \/ /\ command[c].at = "check"
        /\ At(c, IF Alive(s) THEN "decide" ELSE "fail_session")
        /\ UNCHANGED filesOf
     \/ command[c].at = "fail_session" /\ WriteManifest(s, "failed") /\ At(c, "fail_active")
     \/ /\ command[c].at = "fail_active" /\ WriteActive(s, "failed")
        /\ command' = [command EXCEPT ![c].at = "decide", ![c].sees.state = "failed"]

Done(c) == command' = [command EXCEPT ![c] = Idle]
Sees(c) == command[c].sees
Deciding(c, what) == command[c].does = what /\ command[c].at = "decide"

Status(c) == Deciding(c, "status") /\ Done(c) /\ UNCHANGED <<filesOf, processes>>

Stop(c) ==
  /\ Deciding(c, "stop") /\ Done(c)
  /\ stopFile' = stopFile \cup (IF Sees(c).state = "running" THEN {Sees(c).of} ELSE {})
  /\ UNCHANGED <<activeFile, manifest, processes>>

(* "await" waits for the manifest, the end of the supervisor, or 5 s.      *)
Launch(c) ==
  /\ Deciding(c, "launch")
  /\ \/ Sees(c).state = "running" /\ Alive(Sees(c).of) /\ Done(c) /\ UNCHANGED processes
     \/ /\ ~ (Sees(c).state = "running" /\ Alive(Sees(c).of))
        /\ \E s \in Sessions :
             /\ supervisor[s] = "none" /\ \A t \in Sessions : t < s => supervisor[t] # "none"
             /\ supervisor' = [supervisor EXCEPT ![s] = "starting"]
             /\ command' = [command EXCEPT ![c] = [does |-> "launch", at |-> "await", sees |-> [of |-> s, state |-> "none"]]]
        /\ UNCHANGED <<stopSent, app>>
  /\ UNCHANGED filesOf

Awaited(c) ==
  /\ command[c].at = "await"
  /\ "hasty" \in hazards \/ manifest[Sees(c).of] # "none" \/ supervisor[Sees(c).of] = "dead"
  /\ Done(c)
  /\ UNCHANGED <<filesOf, processes>>

Command(c) ==
  /\ \/ Type(c) \/ ReadActive(c)
     \/ (Reconcile(c) /\ UNCHANGED <<processes, commands>>)
     \/ ((Status(c) \/ Stop(c) \/ Launch(c) \/ Awaited(c)) /\ UNCHANGED commands)
  /\ UNCHANGED hazards

-----------------------------------------------------------------------------
Next ==
  \/ \E s \in Sessions : Supervisor(s) \/ AppEnds(s) \/ Crash(s)
  \/ \E c \in Shells : Command(c)

Spec == Init /\ [][Next]_runtimeVars

-----------------------------------------------------------------------------
(* Properties *)

TypeOK ==
  /\ hazards \subseteq Hazards /\ stopFile \subseteq Sessions /\ commands \in 0 .. MaxCommands
  /\ activeFile \in [of : Sessions, state : Final \cup {"running"}] \cup {NoManifest}
  /\ manifest \in [Sessions -> Final \cup {"none", "running"}]
  /\ supervisor \in [Sessions -> {"none", "starting", "refused", "spawned", "announcing", "loop",
                                  "finishing", "finished", "ended", "dead"}]
  /\ stopSent \in [Sessions -> BOOLEAN] /\ app \in [Sessions -> {"none", "running", "zombie", "gone"}]
  /\ \A c \in Shells : command[c].at \in {"idle", "read", "check", "fail_session", "fail_active", "decide", "await"}

(* Two applications are never supervised at a time, even if supervisors    *)
(* are killed and leave theirs behind, as long as commands keep out of the *)
(* way of one another and of a supervisor that is starting or finishing:   *)
(* there is no lock between the check of active.json and the launch.       *)
OneApplication == "hasty" \notin hazards => Cardinality({s \in Sessions : app[s] = "running"}) <= 1

(* However commands, supervisors and crashes interleave, a manifest calls  *)
(* a session over only when its application has ended: a reader that gives *)
(* up on a session never abandons a running application.                   *)
FinalIsOver == \A s \in Sessions : manifest[s] \in Final => app[s] \in {"none", "gone"}

(* A stop request reaches the application, unless it ends by itself or the *)
(* supervisor dies.                                                        *)
StopIsSent ==
  \A s \in Sessions : s \in stopFile ~> stopSent[s] \/ app[s] # "running" \/ supervisor[s] = "dead"
StopFairness == \A s \in Sessions : WF_runtimeVars(Supervisor(s))
FairSpec == Spec /\ StopFairness
=============================================================================
