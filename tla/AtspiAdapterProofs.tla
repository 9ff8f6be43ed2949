-------------------------- MODULE AtspiAdapterProofs --------------------------
(***************************************************************************)
(* The AT-SPI adapter of recording/adapters/atspi.py keeps its lease while *)
(* anything native may call it, removes no listener twice, is quiet once a *)
(* stop succeeded, and is the channel RecordingSession relies on, for all  *)
(* sets of targets and buttons, every number of commands and every number  *)
(* of attempts to stop it.                                                 *)
(***************************************************************************)
EXTENDS AtspiAdapter, TLAPS

Unstarted == {"new", "monitor", "lease"}
Unstopped == Unstarted \cup {"register", "active", "failing", "cleaning", "f_monitor", "f_worker"}
Drained == {"s_drain", "s_worker", "s_join", "s_release"}
StopPhases ==
  {"s_monitor", "s_unregister", "stopped", "stop_failed"} \cup Drained
Ended == {"stopped", "stop_failed", "start_failed"}

(* Where the gate may be open and where the worker may accept. *)
Admission ==
  /\ gate => pc \in Unstopped /\ accepting
  /\ pc \in {"cleaning", "f_monitor", "f_worker"} => ~ gate
  /\ accepting => pc \notin Ended \cup {"s_join", "s_release", "f_join", "f_release"}
  /\ accepting => stops \in {0, 1}
  /\ pc \in StopPhases => stops > 0
  /\ monitor => pc \notin (Ended \cup Drained \cup {"s_unregister", "f_worker", "f_join", "f_release"})
  /\ pc \in Unstopped \cup {"f_join", "f_release", "start_failed"} => stops = 0

(* What is registered is what the adapter has listed, once it has started. *)
Listed ==
  /\ pc \in {"active"} \cup StopPhases => attached = listeners
  /\ pc \in Unstarted => attached = {} /\ ~ lease
  /\ pc = "monitor" => atspi \/ listeners = {}
  /\ pc = "register" => lease
  /\ main # "idle" => pc \in StopPhases /\ todo = listeners
  /\ main = "idle" => todo = {}
  /\ main = "current" => pc = "s_unregister"

(* What a phase of stop left behind unless it failed. *)
Evidence ==
  /\ pc \in Drained /\ "unregister" \notin failed => attached = {}
  /\ pc \in Drained \ {"s_drain"} /\ "callbacks" \notin failed => InFlight = {}
  /\ pc = "s_release" /\ "worker" \notin failed => worker = "off"
  /\ pc = "stopped" => attached = {} /\ InFlight = {} /\ worker = "off"

(* A worker that is not running has left nothing undone. *)
WorkerDone ==
  worker # "live" => done = Len(accepted) /\ ~ accepting

IInv ==
  /\ TypeOK /\ Admission /\ Listed /\ Evidence /\ WorkerDone
  /\ LeaseOutlivesListeners

LEMMA InitIInv == Init => IInv
<1> SUFFICES ASSUME Init PROVE IInv
  OBVIOUS
<1>1. WorkTypes
  <2>1. accepted = <<>> /\ Len(accepted) = 0 /\ done = 0 /\ errors = {}
    BY DEF Init
  <2>2. QED BY <2>1 DEF Init, WorkTypes
<1>2. LifeTypes /\ CallTypes /\ NativeTypes /\ (gate => accepting)
  <2>1. Idle \in Calls
    BY DEF Calls
  <2>2. LifeTypes
    <3>1. pc = "new" /\ atspi \in BOOLEAN /\ using = FALSE /\ failed = {} /\ stops = 0
      BY DEF Init
    <3>2. pc \in Phases BY <3>1 DEF Phases
    <3>3. stops \in 0 .. MaxStops BY <3>1, BoundsAssumption
    <3>4. QED BY <3>1, <3>2, <3>3 DEF LifeTypes
  <2>5. NativeTypes /\ (gate => accepting)
    BY DEF Init, NativeTypes
  <2>3. CallTypes
    BY <2>1 DEF Init, CallTypes
  <2>4. QED BY <2>2, <2>3, <2>5
<1>3. Admission /\ Listed /\ Evidence /\ WorkerDone
  BY DEF Init, Admission, Listed, Evidence, WorkerDone, Unstopped, Unstarted, Drained, StopPhases, Ended
<1>4. LeaseOutlivesListeners
  BY DEF Init, LeaseOutlivesListeners, CallbackThreads
<1>5. QED BY <1>1, <1>2, <1>3, <1>4 DEF IInv, TypeOK

(* What entering a callback changes. *)
LEMMA Entering ==
  ASSUME NativeTypes, PointerTransition \/ NativeEvent
  PROVE  /\ gate
         /\ \E t \in CallbackThreads, c \in Calls :
              /\ call[t] = Idle /\ call' = [call EXCEPT ![t] = c]
              /\ t = "native" => attached # {}
         /\ UNCHANGED <<lifeVars, monitor, gate, nativeVars, accepting, worker, accepted, workVars>>
<1>1. CASE PointerTransition
  <2>1. PICK kind \in {"press", "release"}, b \in Buttons : Enter("x11", kind, b)
    BY <1>1 DEF PointerTransition
  <2>2. [kind |-> kind, button |-> b] \in Calls BY DEF Calls
  <2>3. QED BY <2>1, <2>2 DEF Enter, CallbackThreads
<1>2. CASE NativeEvent
  <2>1. PICK l \in attached : \E kind \in Kinds(l) :
               \E b \in IF l = PointerListener THEN Buttons ELSE {NoButton} : Enter("native", kind, b)
    BY <1>2 DEF NativeEvent
  <2>2. PICK kind \in Kinds(l), b \in IF l = PointerListener THEN Buttons ELSE {NoButton} :
               Enter("native", kind, b)
    BY <2>1
  <2>3. [kind |-> kind, button |-> b] \in Calls
    <3>1. CASE l = PointerListener
      BY <2>2, <3>1 DEF Calls, Kinds
    <3>2. CASE l \in Listeners
      <4>1. l # PointerListener /\ kind = l /\ b = NoButton
        BY <2>2, <3>2 DEF Kinds, Listeners, PointerListener
      <4>2. QED BY <3>2, <4>1 DEF Calls, Listeners
    <3>3. QED BY <3>1, <3>2 DEF NativeTypes
  <2>4. QED BY <2>1, <2>2, <2>3 DEF Enter, CallbackThreads
<1>3. QED BY <1>1, <1>2

(* What is left alone by the actions other than start and stop. *)
LEMMA OthersKeepLife ==
  ASSUME NativeTypes, Listening \/ Working \/ EnterUnregister \/ Unregister
  PROVE  UNCHANGED lifeVars
BY Entering DEF Listening, Accept, MonitorDies, Working, Process, WorkerEnds, EnterUnregister, Unregister

LEMMA LifeTypesKept ==
  ASSUME TypeOK, [Next]_vars
  PROVE  LifeTypes'
<1> USE DEF TypeOK, LifeTypes, Phases
<1>1. CASE UNCHANGED lifeVars
  BY <1>1 DEF lifeVars
<1>2. CASE Start \/ StartMonitor \/ MonitorFails \/ AcquireLease \/ Register
  BY <1>2 DEF Start, StartMonitor, MonitorFails, AcquireLease, Register
<1>3. CASE CleanUp \/ CleanUpListeners \/ GiveUp
  BY <1>3 DEF CleanUp, CleanUpListeners, GiveUp
<1>4. CASE Stop
  BY <1>4, BoundsAssumption DEF Stop
<1>5. CASE StopMonitor \/ NothingToUnregister \/ UnregisterTimesOut \/ EndUnregister
  BY <1>5 DEF StopMonitor, NothingToUnregister, UnregisterTimesOut, EndUnregister
<1>6. CASE DrainCallbacks \/ CloseWorker \/ JoinWorker \/ JoinTimesOut \/ ReleaseLease
  BY <1>6 DEF DrainCallbacks, CloseWorker, JoinWorker, JoinTimesOut, ReleaseLease
<1>7. QED
  BY <1>1, <1>2, <1>3, <1>4, <1>5, <1>6, OthersKeepLife
  DEF Next, MainThread, Starting, Stopping, vars

LEMMA CallTypesKept ==
  ASSUME TypeOK, [Next]_vars
  PROVE  CallTypes'
<1> USE DEF TypeOK, CallTypes
<1>1. CASE PointerTransition \/ NativeEvent
  <2>1. PICK t \in CallbackThreads, c \in Calls : call' = [call EXCEPT ![t] = c]
    BY <1>1, Entering
  <2>2. UNCHANGED <<monitor, gate, accepting>>
    BY <1>1, Entering
  <2>3. QED BY <2>1, <2>2
<1>2. ASSUME NEW t \in CallbackThreads, Accept(t) PROVE CallTypes'
  BY <1>2 DEF Accept, Calls
<1>3. CASE UNCHANGED call /\ monitor' \in BOOLEAN /\ gate' \in BOOLEAN /\ accepting' \in BOOLEAN
  BY <1>3
<1>4. CASE MonitorDies \/ Working \/ MainThread \/ UNCHANGED vars
  BY <1>3, <1>4 DEF MonitorDies, Working, Process, WorkerEnds, MainThread,
    EnterUnregister, Unregister, EndUnregister, vars
<1>5. CASE Starting
  BY <1>3, <1>5 DEF Starting, Start, StartMonitor, MonitorFails, AcquireLease, Register,
    CleanUp, CleanUpListeners, GiveUp
<1>6. CASE Stop \/ Stopping
  BY <1>3, <1>6 DEF Stop, Stopping, StopMonitor, NothingToUnregister, UnregisterTimesOut,
    DrainCallbacks, CloseWorker, JoinWorker, JoinTimesOut, ReleaseLease
<1>7. QED BY <1>1, <1>2, <1>4, <1>5, <1>6 DEF Next, Listening

LEMMA NativeTypesKept ==
  ASSUME TypeOK, Listed, Evidence, [Next]_vars
  PROVE  NativeTypes'
<1> USE DEF TypeOK, NativeTypes
<1>1. CASE UNCHANGED nativeVars
  BY <1>1 DEF nativeVars
<1>2. CASE Listening \/ Working \/ UNCHANGED vars
  BY <1>1, <1>2, Entering DEF Listening, Accept, MonitorDies, Working, Process, WorkerEnds, vars
<1>3. CASE EnterUnregister \/ Unregister \/ EndUnregister
  BY <1>3 DEF EnterUnregister, Unregister, EndUnregister
<1>4. CASE Starting
  BY <1>4 DEF Starting, Start, StartMonitor, MonitorFails, AcquireLease, Register,
    CleanUp, CleanUpListeners, GiveUp, nativeVars, Listed, Unstarted, StopPhases, Drained
<1>5. CASE Stop \/ StopMonitor \/ NothingToUnregister \/ DrainCallbacks \/ CloseWorker \/ JoinWorker \/ JoinTimesOut
  BY <1>1, <1>5 DEF Stop, StopMonitor, NothingToUnregister, DrainCallbacks, CloseWorker, JoinWorker, JoinTimesOut
<1>6. CASE UnregisterTimesOut
  BY <1>6 DEF UnregisterTimesOut
<1>7. CASE ReleaseLease
  <2>1. CASE "unregister" \in failed
    BY <1>7, <2>1 DEF ReleaseLease
  <2>2. CASE "unregister" \notin failed
    <3>1. listeners = {}
      BY <1>7, <2>2 DEF ReleaseLease, Listed, Evidence, StopPhases, Drained
    <3>2. QED BY <1>7, <3>1 DEF ReleaseLease
  <2>3. QED BY <2>1, <2>2
<1>8. QED BY <1>2, <1>3, <1>4, <1>5, <1>6, <1>7 DEF Next, MainThread, Stopping

LEMMA AcceptedCommand ==
  ASSUME CallTypes, NEW t \in CallbackThreads, Accept(t), accepted' # accepted
  PROVE  accepting /\ \E c \in Commands : accepted' = Append(accepted, c)
<1>1. accepting
  BY DEF Accept
<1>2. PICK x \in Resolutions(call[t].kind) :
        accepted' = Append(accepted, [kind |-> call[t].kind, button |-> call[t].button, target |-> x])
  BY DEF Accept
<1>3. call[t] \in Calls /\ call[t] # Idle
  BY DEF CallTypes, Accept
<1>4. [kind |-> call[t].kind, button |-> call[t].button, target |-> x] \in Commands
  <2>1. CASE call[t] \in [kind : {"press", "release"}, button : Buttons]
    BY <2>1, <1>2 DEF Commands, Resolutions
  <2>2. CASE call[t] \in [kind : {"action", "text"}, button : {NoButton}]
    BY <2>2, <1>2 DEF Commands, Resolutions
  <2>3. QED BY <1>3, <2>1, <2>2 DEF Calls
<1>5. QED BY <1>1, <1>2, <1>4

LEMMA ProcessedTypes ==
  ASSUME WorkTypes, Process
  PROVE  WorkTypes'
<1>1. done < Len(accepted) /\ done' = done + 1 /\ UNCHANGED <<accepted, worker>>
  BY DEF Process
<1>2. Len(accepted) \in Nat /\ Command \in Commands /\ done \in Nat
  BY <1>1 DEF WorkTypes, Command
<1>3. done' \in 0 .. Len(accepted)' /\ errors' \subseteq 1 .. done'
  <2>1. errors' = errors \/ errors' = errors \cup {done + 1}
    BY DEF Process
  <2>2. errors \subseteq 1 .. done
    BY DEF WorkTypes
  <2>3. done' \in 0 .. Len(accepted)'
    BY <1>1, <1>2
  <2>4. 1 .. done \subseteq 1 .. done + 1 /\ done + 1 \in 1 .. done + 1
    BY <1>2
  <2>5. errors' \subseteq 1 .. done + 1
    BY <2>1, <2>2, <2>4
  <2>6. QED BY <1>1, <2>3, <2>5
<1>4. /\ pressed' \in [Buttons -> Targets \cup {NoTarget}]
      /\ lastTarget' \in Targets \cup {NoTarget}
  <2>1. CASE UNCHANGED <<pressed, lastTarget>>
    BY <2>1 DEF WorkTypes
  <2>2. CASE Command.kind = "press" /\ Command.target # NoTarget
    BY <2>2, <1>2 DEF Process, Remember, WorkTypes, Commands
  <2>3. CASE Command.kind = "release"
    BY <2>3, <1>2 DEF Process, Remember, WorkTypes, Commands
  <2>4. QED BY <2>1, <2>2, <2>3 DEF Process, Remember
<1>5. published' \in Seq([of : Nat, kind : {"release", "action", "text"}, target : Targets])
  <2>1. CASE UNCHANGED published
    BY <2>1 DEF WorkTypes
  <2>2. CASE /\ Subject # NoTarget
             /\ published' = Append(published, [of |-> done + 1, kind |-> Command.kind, target |-> Subject])
    <3>1. Command.kind \in {"release", "action", "text"}
      BY <2>2, <1>2 DEF Subject, Commands
    <3>2. Subject \in Targets
      BY <2>2, <1>2, <3>1, TargetsAssumption DEF Subject, Commands, WorkTypes
    <3>3. QED BY <2>2, <3>1, <3>2, <1>2 DEF WorkTypes
  <2>3. QED BY <2>1, <2>2 DEF Process
<1>6. QED BY <1>1, <1>3, <1>4, <1>5 DEF WorkTypes

LEMMA WorkTypesKept ==
  ASSUME TypeOK, [Next]_vars
  PROVE  WorkTypes'
<1> USE DEF TypeOK
<1>1. CASE UNCHANGED <<worker, accepted, workVars>>
  BY <1>1 DEF WorkTypes, workVars
<1>2. ASSUME NEW t \in CallbackThreads, Accept(t) PROVE WorkTypes'
  <2>1. UNCHANGED <<worker, workVars>>
    BY <1>2 DEF Accept
  <2>2. CASE UNCHANGED accepted
    BY <1>1, <2>1, <2>2
  <2>3. CASE accepted' # accepted
    <3>1. PICK c \in Commands : accepted' = Append(accepted, c)
      BY <1>2, <2>3, AcceptedCommand
    <3>2. accepted' \in Seq(Commands) /\ Len(accepted') = Len(accepted) + 1
      BY <3>1 DEF WorkTypes
    <3>3. done' \in 0 .. Len(accepted')
      BY <2>1, <3>2 DEF WorkTypes, workVars
    <3>4. QED BY <2>1, <3>2, <3>3 DEF WorkTypes, workVars
  <2>4. QED BY <2>2, <2>3
<1>3. CASE Process
  BY <1>3, ProcessedTypes
<1>4. CASE WorkerEnds
  BY <1>4 DEF WorkerEnds, WorkTypes
<1>5. CASE PointerTransition \/ NativeEvent \/ MonitorDies \/ MainThread \/ UNCHANGED vars
  BY <1>1, <1>5, Entering DEF MonitorDies, MainThread, EnterUnregister, Unregister, EndUnregister, vars
<1>6. CASE Start
  BY <1>6 DEF Start, WorkTypes, workVars
<1>7. CASE StartMonitor \/ MonitorFails \/ AcquireLease \/ Register \/ CleanUp \/ CleanUpListeners \/ GiveUp
  BY <1>1, <1>7 DEF StartMonitor, MonitorFails, AcquireLease, Register, CleanUp, CleanUpListeners, GiveUp
<1>8. CASE \/ Stop \/ StopMonitor \/ NothingToUnregister \/ UnregisterTimesOut
           \/ DrainCallbacks \/ CloseWorker \/ JoinTimesOut \/ ReleaseLease
  BY <1>1, <1>8 DEF Stop, StopMonitor, NothingToUnregister, UnregisterTimesOut,
    DrainCallbacks, CloseWorker, JoinTimesOut, ReleaseLease
<1>9. CASE JoinWorker
  BY <1>9 DEF JoinWorker, WorkTypes, workVars
<1>10. QED BY <1>2, <1>3, <1>4, <1>5, <1>6, <1>7, <1>8, <1>9 DEF Next, Listening, Working, Starting, Stopping

LEMMA AdmissionKept ==
  ASSUME TypeOK, Admission, Listed, [Next]_vars
  PROVE  Admission' /\ (gate' => accepting')
<1> USE DEF Admission, Unstopped, Unstarted, Ended, Drained, StopPhases
<1>1. CASE UNCHANGED <<lifeVars, monitor, gate, accepting>>
  BY <1>1 DEF lifeVars
<1>2. CASE Listening \/ Working \/ EnterUnregister \/ Unregister \/ UNCHANGED vars
  <2>1. UNCHANGED <<lifeVars, gate, accepting>> /\ (monitor' => monitor)
    BY <1>2, Entering DEF TypeOK, CallTypes, Listening, Accept, MonitorDies, Working, Process,
      WorkerEnds, EnterUnregister, Unregister, vars
  <2>2. QED BY <2>1 DEF lifeVars
<1>3a. CASE EndUnregister
  BY <1>3a DEF EndUnregister, Listed
<1>3b. CASE NothingToUnregister
  BY <1>3b DEF NothingToUnregister
<1>3c. CASE UnregisterTimesOut
  BY <1>3c DEF UnregisterTimesOut
<1>3d. CASE DrainCallbacks
  BY <1>3d DEF DrainCallbacks
<1>4. CASE Start \/ StartMonitor \/ MonitorFails \/ AcquireLease \/ Register
  BY <1>4 DEF Start, StartMonitor, MonitorFails, AcquireLease, Register
<1>5. CASE CleanUp \/ CleanUpListeners \/ GiveUp
  BY <1>5 DEF CleanUp, CleanUpListeners, GiveUp
<1>6. CASE Stop
  <2>1. stops \in Nat /\ stops' = stops + 1 /\ pc' = "s_monitor" /\ gate' = FALSE
        /\ UNCHANGED <<monitor, accepting>> /\ (pc = "active" \/ pc = "stop_failed")
    BY <1>6 DEF Stop, TypeOK, LifeTypes
  <2>2. QED BY <2>1
<1>7. CASE StopMonitor
  BY <1>7 DEF StopMonitor
<1>8a. CASE CloseWorker
  BY <1>8a DEF CloseWorker
<1>8b. CASE JoinWorker
  BY <1>8b DEF JoinWorker
<1>8c. CASE JoinTimesOut
  BY <1>8c DEF JoinTimesOut
<1>8d. CASE ReleaseLease
  BY <1>8d DEF ReleaseLease
<1>9. QED
  BY <1>2, <1>3a, <1>3b, <1>3c, <1>3d, <1>4, <1>5, <1>6, <1>7, <1>8a, <1>8b, <1>8c, <1>8d
  DEF Next, MainThread, Starting, Stopping

LEMMA ListedKept ==
  ASSUME TypeOK, Listed, Evidence, [Next]_vars
  PROVE  Listed'
<1> USE DEF Listed, Unstarted, StopPhases, Drained, lifeVars, nativeVars
<1>1. CASE UNCHANGED <<lifeVars, nativeVars>>
  BY <1>1 DEF lifeVars, nativeVars
<1>2. CASE Listening \/ Working \/ UNCHANGED vars
  BY <1>1, <1>2, Entering DEF TypeOK, Listening, Accept, MonitorDies, Working, Process, WorkerEnds, vars
<1>3. CASE EnterUnregister
  BY <1>3 DEF EnterUnregister, lifeVars
<1>4. CASE Unregister
  <2>1. PICK l \in todo : /\ attached' = attached \ {l} /\ todo' = todo \ {l}
                          /\ listeners' = listeners \ {l}
    BY <1>4 DEF Unregister
  <2>2. main # "idle" /\ UNCHANGED <<lifeVars, main, lease>>
    BY <1>4 DEF Unregister
  <2>3. QED BY <2>1, <2>2 DEF lifeVars
<1>5a. CASE EndUnregister
  BY <1>5a DEF EndUnregister
<1>5b. CASE NothingToUnregister
  BY <1>5b DEF NothingToUnregister
<1>5c. CASE UnregisterTimesOut
  BY <1>5c DEF UnregisterTimesOut
<1>6a. CASE Start
  BY <1>6a DEF Start
<1>6b. CASE StartMonitor
  BY <1>6b DEF StartMonitor
<1>6c. CASE MonitorFails
  BY <1>6c DEF MonitorFails
<1>6d. CASE AcquireLease
  BY <1>6d DEF AcquireLease
<1>7. CASE Register
  BY <1>7 DEF Register
<1>8a. CASE CleanUp
  BY <1>8a DEF CleanUp
<1>8b. CASE CleanUpListeners
  BY <1>8b DEF CleanUpListeners
<1>8c. CASE GiveUp
  BY <1>8c DEF GiveUp
<1>9a. CASE Stop
  BY <1>9a DEF Stop
<1>9b. CASE StopMonitor
  BY <1>9b DEF StopMonitor
<1>9c. CASE DrainCallbacks
  BY <1>9c DEF DrainCallbacks
<1>9d. CASE CloseWorker
  BY <1>9d DEF CloseWorker
<1>9e. CASE JoinWorker
  BY <1>9e DEF JoinWorker
<1>9f. CASE JoinTimesOut
  BY <1>9f DEF JoinTimesOut
<1>10. CASE ReleaseLease
  BY <1>10 DEF ReleaseLease, Evidence, TypeOK, NativeTypes
<1>11. QED
  BY <1>2, <1>3, <1>4, <1>5a, <1>5b, <1>5c, <1>6a, <1>6b, <1>6c, <1>6d, <1>7, <1>8a, <1>8b, <1>8c,
    <1>9a, <1>9b, <1>9c, <1>9d, <1>9e, <1>9f, <1>10
  DEF Next, MainThread, Starting, Stopping

(* Callbacks still running when the gate is closed only become fewer. *)
LEMMA ClosedGateDrains ==
  ASSUME TypeOK, [Next]_vars, ~ gate
  PROVE  /\ InFlight' \subseteq InFlight
         /\ call["native"] = Idle => call'["native"] = Idle
<1> USE DEF InFlight, CallbackThreads
<1>1. CASE UNCHANGED call
  BY <1>1
<1>2. ASSUME NEW t \in CallbackThreads, Accept(t)
      PROVE  InFlight' \subseteq InFlight /\ (call["native"] = Idle => call'["native"] = Idle)
  BY <1>2 DEF Accept, TypeOK, CallTypes
<1>3. ~ PointerTransition /\ ~ NativeEvent
  BY Entering DEF TypeOK
<1>4. CASE MonitorDies \/ Working \/ MainThread \/ UNCHANGED vars
  BY <1>1, <1>4 DEF MonitorDies, Working, Process, WorkerEnds, MainThread,
    EnterUnregister, Unregister, EndUnregister, vars
<1>5. CASE Starting
  BY <1>1, <1>5 DEF Starting, Start, StartMonitor, MonitorFails, AcquireLease, Register,
    CleanUp, CleanUpListeners, GiveUp
<1>6. CASE Stop \/ Stopping
  BY <1>1, <1>6 DEF Stop, Stopping, StopMonitor, NothingToUnregister, UnregisterTimesOut,
    DrainCallbacks, CloseWorker, JoinWorker, JoinTimesOut, ReleaseLease
<1>7. QED BY <1>2, <1>3, <1>4, <1>5, <1>6 DEF Next, Listening

LEMMA EvidenceKept ==
  ASSUME TypeOK, Admission, Listed, Evidence, [Next]_vars
  PROVE  Evidence'
<1>1. CASE pc \in Drained \cup {"s_unregister", "stopped"}
  <2>1. InFlight' \subseteq InFlight
    BY <1>1, ClosedGateDrains DEF Admission, Unstopped, Unstarted, Drained
  <2> USE <1>1, <2>1 DEF Evidence, Drained, lifeVars, nativeVars
  <2>2. CASE Listening \/ UNCHANGED vars
    BY <2>2, Entering DEF TypeOK, Listening, Accept, MonitorDies, vars
  <2>3. CASE Process
    BY <2>3 DEF Process
  <2>4. CASE WorkerEnds
    BY <2>4 DEF WorkerEnds
  <2>5. CASE EnterUnregister
    BY <2>5 DEF EnterUnregister
  <2>6. CASE Unregister
    BY <2>6 DEF Unregister
  <2>7. CASE EndUnregister
    BY <2>7 DEF EndUnregister, Listed, StopPhases
  <2>8. CASE NothingToUnregister
    BY <2>8 DEF NothingToUnregister, Listed, StopPhases
  <2>9. CASE UnregisterTimesOut
    BY <2>9 DEF UnregisterTimesOut
  <2>10. CASE DrainCallbacks
    BY <2>10 DEF DrainCallbacks
  <2>11. CASE CloseWorker
    BY <2>11 DEF CloseWorker
  <2>12. CASE JoinWorker
    BY <2>12 DEF JoinWorker
  <2>13. CASE JoinTimesOut
    BY <2>13 DEF JoinTimesOut
  <2>14. CASE ReleaseLease
    BY <2>14 DEF ReleaseLease
  <2>15. ~ Starting /\ ~ Stop /\ ~ StopMonitor
    BY DEF Starting, Start, StartMonitor, MonitorFails, AcquireLease, Register, CleanUp,
      CleanUpListeners, GiveUp, Stop, StopMonitor
  <2>16. QED
    BY <2>2, <2>3, <2>4, <2>5, <2>6, <2>7, <2>8, <2>9, <2>10, <2>11, <2>12, <2>13, <2>14, <2>15
    DEF Next, Working, MainThread, Stopping
<1>2. CASE pc \notin Drained \cup {"s_unregister", "stopped"}
  <2> USE <1>2 DEF Drained, lifeVars
  <2>1. CASE Listening \/ Working \/ EnterUnregister \/ Unregister \/ UNCHANGED vars
    <3>1. pc' = pc
      BY <2>1, OthersKeepLife DEF TypeOK, vars
    <3>2. QED BY <3>1 DEF Evidence
  <2>2. CASE EndUnregister
    BY <2>2 DEF EndUnregister, Listed, Evidence
  <2>3. CASE Starting \/ Stop \/ StopMonitor \/ CloseWorker \/ JoinWorker \/ JoinTimesOut
    <3>1. pc' \notin Drained \cup {"stopped"}
      BY <2>3 DEF Starting, Start, StartMonitor, MonitorFails, AcquireLease, Register, CleanUp,
        CleanUpListeners, GiveUp, Stop, StopMonitor, CloseWorker, JoinWorker, JoinTimesOut
    <3>2. QED BY <3>1 DEF Evidence
  <2>4. ~ NothingToUnregister /\ ~ UnregisterTimesOut /\ ~ DrainCallbacks /\ ~ ReleaseLease
    BY DEF NothingToUnregister, UnregisterTimesOut, DrainCallbacks, ReleaseLease
  <2>5. QED BY <2>1, <2>2, <2>3, <2>4 DEF Next, MainThread, Stopping
<1>3. QED BY <1>1, <1>2

LEMMA WorkerDoneKept ==
  ASSUME TypeOK, WorkerDone, [Next]_vars
  PROVE  WorkerDone'
<1> USE DEF WorkerDone, workVars
<1>1. CASE UNCHANGED <<worker, accepted, done>> /\ (accepting' => accepting)
  BY <1>1
<1>2. ASSUME NEW t \in CallbackThreads, Accept(t) PROVE WorkerDone'
  BY <1>2 DEF Accept
<1>3. CASE Process \/ WorkerEnds \/ Start \/ JoinWorker
  BY <1>3 DEF Process, WorkerEnds, Start, JoinWorker
<1>4. CASE PointerTransition \/ NativeEvent \/ MonitorDies \/ MainThread \/ UNCHANGED vars
  BY <1>1, <1>4, Entering DEF TypeOK, MonitorDies, MainThread, EnterUnregister, Unregister, EndUnregister, vars
<1>5. CASE StartMonitor \/ MonitorFails \/ AcquireLease \/ Register \/ CleanUp \/ CleanUpListeners \/ GiveUp
  BY <1>1, <1>5 DEF StartMonitor, MonitorFails, AcquireLease, Register, CleanUp, CleanUpListeners, GiveUp
<1>6. CASE \/ Stop \/ StopMonitor \/ NothingToUnregister \/ UnregisterTimesOut
           \/ DrainCallbacks \/ CloseWorker \/ JoinTimesOut \/ ReleaseLease
  BY <1>1, <1>6 DEF Stop, StopMonitor, NothingToUnregister, UnregisterTimesOut,
    DrainCallbacks, CloseWorker, JoinTimesOut, ReleaseLease
<1>7. QED BY <1>2, <1>3, <1>4, <1>5, <1>6 DEF Next, Listening, Working, Starting, Stopping

LEMMA LeaseKept ==
  ASSUME IInv, [Next]_vars
  PROVE  LeaseOutlivesListeners'
<1> USE DEF LeaseOutlivesListeners, lifeVars, nativeVars
<1>1. TypeOK /\ NativeTypes /\ Listed /\ Evidence /\ Admission /\ LeaseOutlivesListeners
  BY DEF IInv, TypeOK
<1>2. CASE UNCHANGED <<pc, lease, call>> /\ attached' \subseteq attached
  BY <1>1, <1>2
<1>3. CASE PointerTransition \/ NativeEvent
  <2>1. UNCHANGED <<pc, lease, attached>> /\ pc # "start_failed"
    BY <1>1, <1>3, Entering DEF Admission, Unstopped, Unstarted
  <2>2. PICK t \in CallbackThreads, c \in Calls :
          call' = [call EXCEPT ![t] = c] /\ (t = "native" => attached # {})
    BY <1>1, <1>3, Entering
  <2>3. QED BY <1>1, <2>1, <2>2 DEF TypeOK, CallTypes, CallbackThreads
<1>4. ASSUME NEW t \in CallbackThreads, Accept(t) PROVE LeaseOutlivesListeners'
  BY <1>1, <1>4 DEF Accept, TypeOK, CallTypes, CallbackThreads
<1>5. CASE MonitorDies \/ Working \/ EnterUnregister \/ Unregister \/ UNCHANGED vars
  BY <1>2, <1>5 DEF MonitorDies, Working, Process, WorkerEnds, EnterUnregister, Unregister, vars
<1>6. CASE EndUnregister
  BY <1>1, <1>6 DEF EndUnregister, Listed
<1>7. CASE Start \/ StartMonitor \/ MonitorFails \/ AcquireLease
  BY <1>1, <1>7 DEF Start, StartMonitor, MonitorFails, AcquireLease
<1>8. CASE Register
  BY <1>1, <1>8 DEF Register, Listed
<1>9. CASE CleanUp \/ CleanUpListeners \/ GiveUp
  BY <1>1, <1>9 DEF CleanUp, CleanUpListeners, GiveUp
<1>10. CASE Stop \/ StopMonitor \/ NothingToUnregister \/ UnregisterTimesOut
  BY <1>1, <1>10 DEF Stop, StopMonitor, NothingToUnregister, UnregisterTimesOut
<1>11. CASE DrainCallbacks \/ CloseWorker \/ JoinWorker \/ JoinTimesOut
  BY <1>1, <1>11 DEF DrainCallbacks, CloseWorker, JoinWorker, JoinTimesOut
<1>12. CASE ReleaseLease
  <2>1. CASE failed = {}
    <3>1. attached = {} /\ InFlight = {}
      BY <1>1, <1>12, <2>1 DEF ReleaseLease, Evidence, Drained
    <3>2. QED BY <1>12, <3>1 DEF ReleaseLease, InFlight, CallbackThreads
  <2>2. CASE failed # {}
    BY <1>1, <1>12, <2>2 DEF ReleaseLease
  <2>3. QED BY <2>1, <2>2
<1>13. QED
  BY <1>3, <1>4, <1>5, <1>6, <1>7, <1>8, <1>9, <1>10, <1>11, <1>12
  DEF Next, Listening, MainThread, Starting, Stopping

LEMMA NextIInv == IInv /\ [Next]_vars => IInv'
<1> SUFFICES ASSUME IInv, [Next]_vars PROVE IInv'
  OBVIOUS
<1>1. TypeOK /\ Admission /\ Listed /\ Evidence /\ WorkerDone
  BY DEF IInv
<1>2. Admission' /\ (gate' => accepting')
  BY <1>1, AdmissionKept
<1>3. TypeOK'
  BY <1>1, <1>2, LifeTypesKept, CallTypesKept, NativeTypesKept, WorkTypesKept DEF TypeOK
<1>4. Listed' /\ Evidence' /\ WorkerDone'
  BY <1>1, ListedKept, EvidenceKept, WorkerDoneKept
<1>5. LeaseOutlivesListeners'
  BY LeaseKept
<1>6. QED BY <1>2, <1>3, <1>4, <1>5 DEF IInv

LEMMA Inductive == Spec => []IInv
BY InitIInv, NextIInv, PTL DEF Spec

(* Every variable of the adapter keeps its type; callbacks are admitted    *)
(* only while the worker accepts (_begin_callback, _accept).               *)
THEOREM AdapterTypeCorrect == Spec => []TypeOK
<1>1. IInv => TypeOK
  BY DEF IInv
<1>2. QED BY Inductive, <1>1, PTL

(* stop closes the registry lease only when nothing native can call the    *)
(* adapter any more, whichever waits of whichever attempt timed out.       *)
THEOREM LeaseIsHeld == Spec => []LeaseOutlivesListeners
<1>1. IInv => LeaseOutlivesListeners
  BY DEF IInv
<1>2. QED BY Inductive, <1>1, PTL

(* unregister never deregisters a listener that is no longer registered,   *)
(* also when a retry meets the removal of an earlier attempt.              *)
THEOREM NoDoubleRemoval == Spec => []RemovedOnce
<1>1. IInv => RemovedOnce
  <2> SUFFICES ASSUME IInv PROVE todo \subseteq attached
    BY DEF RemovedOnce
  <2>1. CASE main = "idle"
    BY <2>1 DEF IInv, Listed
  <2>2. CASE main # "idle"
    BY <2>2 DEF IInv, Listed
  <2>3. QED BY <2>1, <2>2
<1>2. QED BY Inductive, <1>1, PTL

(* After a stop that raised nothing no thread of the adapter is left.      *)
THEOREM QuietWhenStopped == Spec => []StoppedIsQuiet
<1>1. IInv => StoppedIsQuiet
  <2> SUFFICES ASSUME IInv, pc = "stopped"
               PROVE  /\ InFlight = {} /\ attached = {} /\ todo = {}
                      /\ ~ gate /\ ~ monitor /\ worker = "off"
    BY DEF StoppedIsQuiet
  <2>1. attached = {} /\ InFlight = {} /\ worker = "off"
    BY DEF IInv, Evidence
  <2>2. todo = {}
    BY <2>1 DEF IInv, Listed, StopPhases
  <2>3. ~ gate /\ ~ monitor
    BY DEF IInv, Admission, Unstopped, Unstarted, Ended
  <2>4. QED BY <2>1, <2>2, <2>3
<1>2. QED BY Inductive, <1>1, PTL

-----------------------------------------------------------------------------
(* The refinement *)

LEMMA Deals ==
  ASSUME IInv, Process
  PROVE  Channel!Deliver
<1>1. done < Len(accepted) /\ done' = done + 1 /\ UNCHANGED <<accepted, pc, stops>>
  BY DEF Process, lifeVars
<1>2. pc # "stopped"
  BY DEF Process, IInv, Evidence
<1>3. QED BY <1>1, <1>2 DEF Channel!Deliver

LEMMA Sends ==
  ASSUME IInv, NEW t \in CallbackThreads, Accept(t)
  PROVE  [Channel!ChannelNext]_Channel!channel
<1>1. UNCHANGED <<pc, stops, done>>
  BY DEF Accept, lifeVars, workVars
<1>2. CASE UNCHANGED accepted
  BY <1>1, <1>2 DEF Channel!channel
<1>3. CASE accepted' # accepted
  <2>1. accepting /\ \E c \in Commands : accepted' = Append(accepted, c)
    BY <1>3, AcceptedCommand DEF IInv, TypeOK
  <2>2. pc \notin Ended /\ ~ (stops > 1)
    BY <2>1 DEF IInv, Admission
  <2>3. Channel!Send
    BY <1>1, <2>1, <2>2 DEF Channel!Send, Ended
  <2>4. QED BY <2>3 DEF Channel!ChannelNext
<1>4. QED BY <1>2, <1>3

LEMMA Closes ==
  ASSUME IInv, ReleaseLease
  PROVE  [Channel!ChannelNext]_Channel!channel
<1>1. UNCHANGED <<stops, done, accepted>> /\ pc = "s_release"
  BY DEF ReleaseLease, workVars
<1>2. CASE pc' = "stopped"
  <2>1. failed = {} /\ worker = "off"
    BY <1>1, <1>2 DEF ReleaseLease, IInv, Evidence
  <2>2. done = Len(accepted)
    BY <2>1 DEF IInv, WorkerDone
  <2>3. Channel!Close
    BY <1>1, <1>2, <2>2 DEF Channel!Close
  <2>4. QED BY <2>3 DEF Channel!ChannelNext
<1>3. CASE pc' = "stop_failed"
  <2>1. CASE stops > 1
    BY <1>1, <1>3, <2>1 DEF Channel!channel
  <2>2. CASE ~ (stops > 1)
    <3>1. Channel!Break
      BY <1>1, <1>3, <2>2 DEF Channel!Break
    <3>2. QED BY <3>1 DEF Channel!ChannelNext
  <2>3. QED BY <2>1, <2>2
<1>4. QED BY <1>2, <1>3 DEF ReleaseLease

LEMMA Breaks ==
  ASSUME IInv, GiveUp
  PROVE  Channel!Break
<1>1. pc = "f_release" /\ pc' = "start_failed" /\ UNCHANGED <<stops, done, accepted>>
  BY DEF GiveUp, workVars
<1>2. stops = 0
  BY <1>1 DEF IInv, Admission
<1>3. QED BY <1>1, <1>2 DEF Channel!Break

LEMMA Retries ==
  ASSUME IInv, Stop
  PROVE  UNCHANGED Channel!channel
<1>1. stops \in Nat /\ stops' = stops + 1 /\ pc' = "s_monitor" /\ UNCHANGED <<done, accepted>>
  BY DEF Stop, workVars, IInv, TypeOK, LifeTypes
<1>2. CASE pc = "active"
  <2>1. stops = 0
    BY <1>2 DEF IInv, Admission, Unstopped
  <2>2. QED BY <1>1, <1>2, <2>1 DEF Channel!channel
<1>3. CASE pc = "stop_failed"
  <2>1. stops > 0
    BY <1>3 DEF IInv, Admission, StopPhases
  <2>2. QED BY <1>1, <1>3, <2>1 DEF Channel!channel
<1>4. QED BY <1>2, <1>3 DEF Stop

(* The adapter is the channel RecordingSession relies on: each accepted    *)
(* command is dealt with once and in order, all of them before a stop that *)
(* raises nothing returns.                                                 *)
THEOREM AdapterIsChannel == Spec => IsChannel
<1>1. Init => Channel!ChannelInit
  BY DEF Init, Channel!ChannelInit
<1>2. IInv /\ [Next]_vars => [Channel!ChannelNext]_Channel!channel
  <2> SUFFICES ASSUME IInv, [Next]_vars
               PROVE  [Channel!ChannelNext]_Channel!channel
    OBVIOUS
  <2>1. CASE UNCHANGED <<accepted, done, pc, stops>>
    BY <2>1 DEF Channel!channel
  <2>2. CASE \/ PointerTransition \/ NativeEvent \/ MonitorDies \/ WorkerEnds
             \/ EnterUnregister \/ Unregister \/ UNCHANGED vars
    BY <2>1, <2>2, Entering
    DEF IInv, TypeOK, MonitorDies, WorkerEnds, EnterUnregister, Unregister, vars, lifeVars, workVars
  <2>3. CASE \E t \in CallbackThreads : Accept(t)
    BY <2>3, Sends
  <2>4. CASE Process
    BY <2>4, Deals DEF Channel!ChannelNext
  <2>5. CASE GiveUp
    BY <2>5, Breaks DEF Channel!ChannelNext
  <2>6. CASE ReleaseLease
    BY <2>6, Closes
  <2>7. CASE Stop
    BY <2>7, Retries
  <2>8. ASSUME UNCHANGED <<accepted, done, stops>>,
               pc \notin Ended, pc' \notin Ended
        PROVE  UNCHANGED Channel!channel
    BY <2>8 DEF Channel!channel, Ended
  <2>9. CASE Start \/ StartMonitor \/ MonitorFails \/ AcquireLease \/ Register \/ CleanUp \/ CleanUpListeners
    BY <2>8, <2>9
    DEF Ended, workVars, Start, StartMonitor, MonitorFails, AcquireLease, Register, CleanUp, CleanUpListeners
  <2>10. CASE StopMonitor \/ NothingToUnregister \/ UnregisterTimesOut \/ DrainCallbacks
    BY <2>8, <2>10
    DEF Ended, workVars, StopMonitor, NothingToUnregister, UnregisterTimesOut, DrainCallbacks
  <2>11. CASE CloseWorker \/ JoinWorker \/ JoinTimesOut
    BY <2>8, <2>11 DEF Ended, workVars, CloseWorker, JoinWorker, JoinTimesOut
  <2>12. CASE EndUnregister
    <3>1. CASE main = "current"
      BY <2>8, <2>12, <3>1 DEF EndUnregister, Ended, workVars, IInv, Listed
    <3>2. CASE main # "current"
      BY <2>1, <2>12, <3>2 DEF EndUnregister, workVars
    <3>3. QED BY <3>1, <3>2
  <2>13. QED
    BY <2>2, <2>3, <2>4, <2>5, <2>6, <2>7, <2>9, <2>10, <2>11, <2>12
    DEF Next, Listening, Working, MainThread, Starting, Stopping
<1>3. QED BY Inductive, <1>1, <1>2, PTL DEF Spec, IsChannel, Channel!ChannelSpec

-----------------------------------------------------------------------------
(***************************************************************************)
(* What the worker remembers is what the commands it has processed say:    *)
(* per button the last resolved press that nothing ended, and the last     *)
(* resolved press of any button.                                           *)
(***************************************************************************)
PressOf(j, b) == ResolvedPress(j) /\ accepted[j].button = b
EndOf(j, b) == PressOf(j, b) \/ (accepted[j].kind = "release" /\ accepted[j].button = b)

HeldAt(n, b) == {j \in 1 .. n : PressOf(j, b) /\ \A i \in j + 1 .. n : ~ EndOf(i, b)}
LatestAt(n) == {j \in 1 .. n : ResolvedPress(j) /\ \A i \in j + 1 .. n : ~ ResolvedPress(i)}

(* A memory that names a target, or none, of the commands that count. *)
Recalls(memory, commands) ==
  IF memory = NoTarget THEN commands = {}
  ELSE \E j \in commands : accepted[j].target = memory

MemoryInv ==
  /\ worker = "live" => \A b \in Buttons : Recalls(pressed[b], HeldAt(done, b))
  /\ Recalls(lastTarget, LatestAt(done))
  /\ pc = "new" => /\ worker = "off" /\ accepted = <<>> /\ done = 0
                   /\ pressed = [b \in Buttons |-> NoTarget]

PublishedInv ==
  /\ \A i, j \in DOMAIN published : i < j => published[i].of < published[j].of
  /\ \A i \in DOMAIN published :
       \E k \in 1 .. done : published[i].of = k /\ published[i].target \in Observed(k)
  /\ pc # "start_failed" => \A k \in 1 .. done :
       Observed(k) # {} /\ k \notin errors => \E i \in DOMAIN published : published[i].of = k

(* What Observed says, per kind of command. *)
LEMMA ObservedAs ==
  ASSUME NEW k
  PROVE  /\ accepted[k].kind = "press" => Observed(k) = {}
         /\ accepted[k].kind = "release" =>
              Observed(k) = {accepted[j].target : j \in HeldAt(k - 1, accepted[k].button)}
         /\ accepted[k].kind = "action" =>
              Observed(k) = {accepted[j].target : j \in LatestAt(k - 1)}
         /\ accepted[k].kind = "text" => Observed(k) = {accepted[k].target} \cap Editable
<1>1. ASSUME accepted[k].kind = "press" PROVE Observed(k) = {}
  BY <1>1 DEF Observed
<1>2. ASSUME accepted[k].kind = "release"
      PROVE  Observed(k) = {accepted[j].target : j \in HeldAt(k - 1, accepted[k].button)}
  BY <1>2 DEF Observed, LastBefore, HeldAt, PressOf, EndOf
<1>3. ASSUME accepted[k].kind = "action"
      PROVE  Observed(k) = {accepted[j].target : j \in LatestAt(k - 1)}
  BY <1>3 DEF Observed, LastBefore, LatestAt
<1>4. ASSUME accepted[k].kind = "text" PROVE Observed(k) = {accepted[k].target} \cap Editable
  BY <1>4 DEF Observed
<1>5. QED BY <1>1, <1>2, <1>3, <1>4

(* How the commands that count move on with one more command. *)
LEMMA HeldNext ==
  ASSUME NEW n \in Nat, NEW b
  PROVE  HeldAt(n + 1, b) = IF PressOf(n + 1, b) THEN {n + 1}
                            ELSE IF EndOf(n + 1, b) THEN {} ELSE HeldAt(n, b)
<1>1. CASE PressOf(n + 1, b)
  BY <1>1 DEF HeldAt, EndOf
<1>2. CASE ~ PressOf(n + 1, b) /\ EndOf(n + 1, b)
  BY <1>2 DEF HeldAt
<1>3. CASE ~ PressOf(n + 1, b) /\ ~ EndOf(n + 1, b)
  BY <1>3 DEF HeldAt
<1>4. QED BY <1>1, <1>2, <1>3

LEMMA LatestNext ==
  ASSUME NEW n \in Nat
  PROVE  LatestAt(n + 1) = IF ResolvedPress(n + 1) THEN {n + 1} ELSE LatestAt(n)
<1>1. CASE ResolvedPress(n + 1)
  BY <1>1 DEF LatestAt
<1>2. CASE ~ ResolvedPress(n + 1)
  BY <1>2 DEF LatestAt
<1>3. QED BY <1>1, <1>2

(* The past does not change: commands are only appended.                   *)
LEMMA PastKept ==
  ASSUME NEW n \in Nat,
         \A i \in 1 .. n : accepted'[i] = accepted[i] /\ accepted[i] \in Commands
  PROVE  /\ \A b \in Buttons : HeldAt(n, b)' = HeldAt(n, b)
         /\ LatestAt(n)' = LatestAt(n)
         /\ \A k \in 1 .. n : Observed(k)' = Observed(k)
<1>1. \A j \in 1 .. n : ResolvedPress(j)' <=> ResolvedPress(j)
  BY DEF ResolvedPress
<1>2. LatestAt(n)' = LatestAt(n)
  BY <1>1 DEF LatestAt
<1>3. ASSUME NEW b \in Buttons PROVE HeldAt(n, b)' = HeldAt(n, b)
  <2>1. \A j \in 1 .. n : (PressOf(j, b)' <=> PressOf(j, b)) /\ (EndOf(j, b)' <=> EndOf(j, b))
    BY <1>1 DEF PressOf, EndOf
  <2>2. QED BY <2>1 DEF HeldAt
<1>4. ASSUME NEW k \in 1 .. n PROVE Observed(k)' = Observed(k)
  <2>1. /\ accepted'[k] = accepted[k]
        /\ accepted[k].kind \in {"press", "release", "action", "text"}
        /\ accepted[k].kind = "release" => accepted[k].button \in Buttons
    BY <1>4 DEF Commands
  <2>2. /\ \A j \in 1 .. k - 1 : j \in 1 .. n /\ accepted'[j] = accepted[j]
        /\ \A j \in 1 .. k - 1 : \A i \in j + 1 .. k - 1 : i \in 1 .. k - 1
    BY <1>4
  <2>3. CASE accepted[k].kind = "release"
    <3>1. Observed(k)' = {accepted'[j].target : j \in HeldAt(k - 1, accepted[k].button)'}
      BY <2>1, <2>3 DEF Observed, LastBefore, HeldAt, PressOf, EndOf, ResolvedPress
    <3>2. HeldAt(k - 1, accepted[k].button)' = HeldAt(k - 1, accepted[k].button)
      BY <2>1, <2>2 DEF HeldAt, PressOf, EndOf, ResolvedPress
    <3>3. \A j \in HeldAt(k - 1, accepted[k].button) : accepted'[j].target = accepted[j].target
      BY <2>2 DEF HeldAt
    <3>4. QED BY <2>3, <3>1, <3>2, <3>3, ObservedAs
  <2>4. CASE accepted[k].kind = "action"
    <3>1. Observed(k)' = {accepted'[j].target : j \in LatestAt(k - 1)'}
      BY <2>1, <2>4 DEF Observed, LastBefore, LatestAt, ResolvedPress
    <3>2. LatestAt(k - 1)' = LatestAt(k - 1)
      BY <2>2 DEF LatestAt, ResolvedPress
    <3>3. \A j \in LatestAt(k - 1) : accepted'[j].target = accepted[j].target
      BY <2>2 DEF LatestAt
    <3>4. QED BY <2>4, <3>1, <3>2, <3>3, ObservedAs
  <2>5. CASE accepted[k].kind \in {"press", "text"}
    BY <2>1, <2>5 DEF Observed
  <2>6. QED BY <2>1, <2>3, <2>4, <2>5
<1>5. QED BY <1>2, <1>3, <1>4

LEMMA Appended ==
  ASSUME WorkTypes, NEW c, accepted' = Append(accepted, c)
  PROVE  Len(accepted') = Len(accepted) + 1 /\ \A i \in 1 .. Len(accepted) : accepted'[i] = accepted[i]
BY DEF WorkTypes

(* The object the worker publishes a command about is the one the history  *)
(* assigns to it, and there is none exactly if the history has none.       *)
LEMMA SubjectIsObserved ==
  ASSUME WorkTypes, MemoryInv, Process
  PROVE  IF Subject = NoTarget THEN Observed(done + 1) = {} ELSE Subject \in Observed(done + 1)
<1>1. /\ done \in Nat /\ done + 1 - 1 = done /\ Command \in Commands
      /\ Command = accepted[done + 1] /\ worker = "live"
  BY DEF Process, WorkTypes, Command
<1>2. Command.kind \in {"press", "release", "action", "text"}
  BY <1>1 DEF Commands
<1>3. CASE Command.kind = "press"
  BY <1>1, <1>3, ObservedAs DEF Subject
<1>4. CASE Command.kind = "release"
  <2>1. Command.button \in Buttons /\ Subject = pressed[Command.button]
    BY <1>1, <1>4 DEF Commands, Subject
  <2>2. Recalls(Subject, HeldAt(done, Command.button))
    BY <1>1, <2>1 DEF MemoryInv
  <2>3. Observed(done + 1) = {accepted[j].target : j \in HeldAt(done, Command.button)}
    BY <1>1, <1>4, ObservedAs
  <2>4. QED BY <2>2, <2>3 DEF Recalls
<1>5. CASE Command.kind = "action"
  <2>1. Recalls(Subject, LatestAt(done))
    BY <1>5 DEF Subject, MemoryInv
  <2>2. Observed(done + 1) = {accepted[j].target : j \in LatestAt(done)}
    BY <1>1, <1>5, ObservedAs
  <2>3. QED BY <2>1, <2>2 DEF Recalls
<1>6. CASE Command.kind = "text"
  <2>1. Observed(done + 1) = {Command.target} \cap Editable
    BY <1>1, <1>6, ObservedAs
  <2>2. Subject = IF Command.target \in Editable THEN Command.target ELSE NoTarget
    BY <1>6 DEF Subject
  <2>3. QED BY <2>1, <2>2, TargetsAssumption
<1>7. QED BY <1>2, <1>3, <1>4, <1>5, <1>6

LEMMA ProcessRemembers ==
  ASSUME WorkTypes, MemoryInv, Process
  PROVE  /\ \A b \in Buttons : Recalls(pressed[b], HeldAt(done, b))'
         /\ Recalls(lastTarget, LatestAt(done))'
<1>1. /\ done \in Nat /\ done' = done + 1 /\ accepted' = accepted /\ worker = "live"
      /\ Command \in Commands /\ Command = accepted[done + 1]
  BY DEF Process, WorkTypes, Command
<1>2. ResolvedPress(done + 1) <=> Command.kind = "press" /\ Command.target # NoTarget
  BY <1>1 DEF ResolvedPress
<1>3. /\ LatestAt(done)' = LatestAt(done + 1)
      /\ \A b \in Buttons : HeldAt(done, b)' = HeldAt(done + 1, b)
  BY <1>1 DEF LatestAt, HeldAt, ResolvedPress, PressOf, EndOf
<1>4. Recalls(lastTarget, LatestAt(done))'
  <2>1. CASE ResolvedPress(done + 1)
    <3>1. lastTarget' = Command.target /\ lastTarget' # NoTarget
      BY <1>2, <2>1 DEF Process, Remember
    <3>2. LatestAt(done)' = {done + 1} BY <1>1, <1>3, <2>1, LatestNext
    <3>3. QED BY <1>1, <3>1, <3>2 DEF Recalls
  <2>2. CASE ~ ResolvedPress(done + 1)
    <3>1. lastTarget' = lastTarget BY <1>2, <2>2 DEF Process, Remember
    <3>2. LatestAt(done)' = LatestAt(done) BY <1>1, <1>3, <2>2, LatestNext
    <3>3. QED BY <1>1, <3>1, <3>2 DEF Recalls, MemoryInv
  <2>3. QED BY <2>1, <2>2
<1>5. ASSUME NEW b \in Buttons PROVE Recalls(pressed[b], HeldAt(done, b))'
  <2>1. HeldAt(done, b)' = HeldAt(done + 1, b) /\ Recalls(pressed[b], HeldAt(done, b))
    BY <1>1, <1>3 DEF MemoryInv
  <2>2. CASE PressOf(done + 1, b)
    <3>1. pressed'[b] = Command.target /\ pressed'[b] # NoTarget
      BY <1>1, <1>2, <2>2 DEF PressOf, Process, Remember, WorkTypes
    <3>2. HeldAt(done, b)' = {done + 1} BY <1>1, <2>1, <2>2, HeldNext
    <3>3. QED BY <1>1, <3>1, <3>2 DEF Recalls
  <2>3. CASE ~ PressOf(done + 1, b) /\ EndOf(done + 1, b)
    <3>1. Command.kind = "release" /\ Command.button = b
      BY <1>1, <2>3 DEF EndOf
    <3>2. pressed'[b] = NoTarget BY <3>1 DEF Process, Remember, WorkTypes
    <3>3. HeldAt(done, b)' = {} BY <1>1, <2>1, <2>3, HeldNext
    <3>4. QED BY <3>2, <3>3 DEF Recalls
  <2>4. CASE ~ PressOf(done + 1, b) /\ ~ EndOf(done + 1, b)
    <3>1. pressed'[b] = pressed[b]
      <4>1. CASE ResolvedPress(done + 1)
        <5>1. Command.button # b BY <1>1, <2>4, <4>1 DEF PressOf
        <5>2. pressed' = [pressed EXCEPT ![Command.button] = Command.target]
          BY <1>2, <4>1 DEF Process, Remember
        <5>3. QED BY <5>1, <5>2 DEF WorkTypes
      <4>2. CASE ~ ResolvedPress(done + 1) /\ Command.kind = "release"
        <5>1. Command.button # b BY <1>1, <2>4, <4>2 DEF EndOf
        <5>2. pressed' = [pressed EXCEPT ![Command.button] = NoTarget]
          BY <1>2, <4>2 DEF Process, Remember
        <5>3. QED BY <5>1, <5>2 DEF WorkTypes
      <4>3. CASE ~ ResolvedPress(done + 1) /\ Command.kind # "release"
        BY <1>2, <4>3 DEF Process, Remember
      <4>4. QED BY <4>1, <4>2, <4>3
    <3>2. HeldAt(done, b)' = HeldAt(done, b) BY <1>1, <2>1, <2>4, HeldNext
    <3>3. QED BY <1>1, <2>1, <3>1, <3>2 DEF Recalls
  <2>5. QED BY <2>2, <2>3, <2>4
<1>6. QED BY <1>4, <1>5

(* start is left for good, and so is a start that failed.                  *)
LEMMA PhasesPast ==
  ASSUME NativeTypes, Listed, [Next]_vars
  PROVE  /\ pc' = "new" => pc = "new"
         /\ pc = "start_failed" => pc' = "start_failed"
<1>1. CASE UNCHANGED lifeVars
  BY <1>1 DEF lifeVars
<1>2. CASE Starting
  BY <1>2 DEF Starting, Start, StartMonitor, MonitorFails, AcquireLease, Register, CleanUp,
    CleanUpListeners, GiveUp
<1>3. CASE Stop \/ Stopping
  BY <1>3 DEF Stop, Stopping, StopMonitor, NothingToUnregister, UnregisterTimesOut,
    DrainCallbacks, CloseWorker, JoinWorker, JoinTimesOut, ReleaseLease
<1>4. CASE EndUnregister
  BY <1>4 DEF EndUnregister, Listed
<1>5. QED BY <1>1, <1>2, <1>3, <1>4, OthersKeepLife DEF Next, MainThread, vars

LEMMA MemoryKept ==
  ASSUME IInv, MemoryInv, [Next]_vars
  PROVE  MemoryInv'
<1> USE DEF WorkTypes, workVars
<1>1. /\ WorkTypes /\ CallTypes /\ NativeTypes /\ Listed /\ WorkerDone
      /\ done \in Nat /\ done <= Len(accepted) /\ Len(accepted) \in Nat
  BY DEF IInv, TypeOK
<1>2. pc' = "new" => pc = "new"
  BY <1>1, PhasesPast
<1>3. ASSUME UNCHANGED <<accepted, done, lastTarget>>,
             worker' = "live" => worker = "live" /\ pressed' = pressed,
             pc = "new" => pressed' = pressed /\ worker' = worker
      PROVE  MemoryInv'
  <2>1. /\ \A b \in Buttons : HeldAt(done, b)' = HeldAt(done, b)
        /\ LatestAt(done)' = LatestAt(done)
    BY <1>1, <1>3, PastKept
  <2>2. Recalls(lastTarget, LatestAt(done))'
    BY <1>3, <2>1 DEF MemoryInv, Recalls
  <2>3. ASSUME worker' = "live", NEW b \in Buttons PROVE Recalls(pressed[b], HeldAt(done, b))'
    BY <1>3, <2>1, <2>3 DEF MemoryInv, Recalls
  <2>4. QED BY <1>2, <1>3, <2>2, <2>3 DEF MemoryInv
<1>4. CASE UNCHANGED <<worker, accepted, workVars>>
  BY <1>3, <1>4 DEF MemoryInv
<1>5. ASSUME NEW t \in CallbackThreads, Accept(t) PROVE MemoryInv'
  <2>1. CASE UNCHANGED accepted
    BY <1>4, <1>5, <2>1 DEF Accept
  <2>2. CASE accepted' # accepted
    <3>1. PICK c \in Commands : accepted' = Append(accepted, c)
      BY <1>1, <1>5, <2>2, AcceptedCommand
    <3>2. accepting /\ UNCHANGED <<worker, workVars>>
      BY <1>5, <2>2 DEF Accept
    <3>3. pc # "new" BY <1>1, <3>2 DEF MemoryInv, WorkerDone
    <3>4. \A i \in 1 .. done : accepted'[i] = accepted[i] /\ accepted[i] \in Commands
      BY <1>1, <3>1, Appended
    <3>5. /\ \A b \in Buttons : HeldAt(done, b)' = HeldAt(done, b)
          /\ LatestAt(done)' = LatestAt(done)
      <4>1. PICK n \in Nat : n = done
        BY <1>1
      <4>2. n = done'
        BY <3>2, <4>1
      <4>3. /\ \A b \in Buttons : HeldAt(n, b)' = HeldAt(n, b)
            /\ LatestAt(n)' = LatestAt(n)
        BY <3>4, <4>1, PastKept
      <4>4. /\ \A b \in Buttons : HeldAt(done, b)' = HeldAt(n, b)'
            /\ LatestAt(done)' = LatestAt(n)'
        BY <4>2 DEF HeldAt, LatestAt
      <4>5. QED BY <4>1, <4>3, <4>4
    <3>6. Recalls(lastTarget, LatestAt(done))'
      BY <3>2, <3>4, <3>5 DEF MemoryInv, Recalls, LatestAt
    <3>7. ASSUME worker' = "live", NEW b \in Buttons PROVE Recalls(pressed[b], HeldAt(done, b))'
      BY <3>2, <3>4, <3>5, <3>7 DEF MemoryInv, Recalls, HeldAt
    <3>8. QED BY <1>2, <3>3, <3>6, <3>7 DEF MemoryInv
  <2>3. QED BY <2>1, <2>2
<1>6. CASE Process
  <2>1. pc' # "new" BY <1>2, <1>6 DEF Process, MemoryInv
  <2>2. QED BY <1>1, <1>6, <2>1, ProcessRemembers DEF MemoryInv
<1>7. CASE WorkerEnds
  <2>1. pc # "new" BY <1>7 DEF WorkerEnds, MemoryInv
  <2>2. QED BY <1>3, <1>7, <2>1 DEF WorkerEnds
<1>8. CASE Start
  <2>1. /\ done' = 0 /\ worker' = "live" /\ pc' # "new" /\ UNCHANGED <<accepted, done, lastTarget>>
        /\ \A b \in Buttons : pressed'[b] = NoTarget
    BY <1>8 DEF Start, MemoryInv
  <2>2. \A b \in Buttons : HeldAt(done, b)' = {}
    BY <2>1 DEF HeldAt
  <2>3. Recalls(lastTarget, LatestAt(done))'
    BY <1>1, <2>1, PastKept DEF MemoryInv, Recalls
  <2>4. QED BY <2>1, <2>2, <2>3 DEF MemoryInv, Recalls
<1>9. CASE JoinWorker
  <2>1. pc # "new" BY <1>9 DEF JoinWorker
  <2>2. QED BY <1>3, <1>9, <2>1 DEF JoinWorker
<1>10. CASE PointerTransition \/ NativeEvent \/ MonitorDies \/ MainThread \/ UNCHANGED vars
  BY <1>1, <1>4, <1>10, Entering DEF MonitorDies, MainThread, EnterUnregister, Unregister, EndUnregister, vars
<1>11. CASE StartMonitor \/ MonitorFails \/ AcquireLease \/ Register \/ CleanUp \/ CleanUpListeners \/ GiveUp
  BY <1>4, <1>11 DEF StartMonitor, MonitorFails, AcquireLease, Register, CleanUp, CleanUpListeners, GiveUp
<1>12. CASE \/ Stop \/ StopMonitor \/ NothingToUnregister \/ UnregisterTimesOut
            \/ DrainCallbacks \/ CloseWorker \/ JoinTimesOut \/ ReleaseLease
  BY <1>4, <1>12 DEF Stop, StopMonitor, NothingToUnregister, UnregisterTimesOut,
    DrainCallbacks, CloseWorker, JoinTimesOut, ReleaseLease
<1>13. QED
  BY <1>5, <1>6, <1>7, <1>8, <1>9, <1>10, <1>11, <1>12 DEF Next, Listening, Working, Starting, Stopping

(* Publishing follows the history: what has been processed is published    *)
(* about what the history says, later commands after earlier ones.         *)
LEMMA ProcessPublishes ==
  ASSUME WorkTypes, Evidence, MemoryInv, PublishedInv, Process
  PROVE  PublishedInv'
<1>1. /\ done \in Nat /\ done' = done + 1 /\ UNCHANGED <<accepted, pc>>
      /\ errors \subseteq 1 .. done
      /\ published \in Seq([of : Nat, kind : {"release", "action", "text"}, target : Targets])
      /\ Len(published) \in Nat /\ DOMAIN published = 1 .. Len(published)
      /\ done + 1 \in 1 .. Len(accepted)
      /\ \A i \in 1 .. Len(accepted) : accepted[i] \in Commands
  BY DEF Process, lifeVars, WorkTypes
<1>2. IF Subject = NoTarget THEN Observed(done + 1) = {} ELSE Subject \in Observed(done + 1)
  BY SubjectIsObserved
<1>3. \A k \in 1 .. done + 1 : Observed(k)' = Observed(k)
  BY <1>1, PastKept
<1>4. CASE published' = published /\ errors' = errors \cup {done + 1}
  <2>1. /\ \A i, j \in DOMAIN published' : i < j => published'[i].of < published'[j].of
        /\ \A i \in DOMAIN published' :
             \E k \in 1 .. done' : published'[i].of = k /\ published'[i].target \in Observed(k)'
    BY <1>1, <1>3, <1>4 DEF PublishedInv
  <2>2. ASSUME pc' # "start_failed", NEW k \in 1 .. done', Observed(k)' # {}, k \notin errors'
        PROVE  \E i \in DOMAIN published' : published'[i].of = k
    BY <1>1, <1>3, <1>4, <2>2 DEF PublishedInv
  <2>3. QED BY <2>1, <2>2 DEF PublishedInv
<1>5. CASE published' = published /\ errors' = errors /\ (Subject = NoTarget \/ ~ Emitting)
  <2>1. /\ \A i, j \in DOMAIN published' : i < j => published'[i].of < published'[j].of
        /\ \A i \in DOMAIN published' :
             \E k \in 1 .. done' : published'[i].of = k /\ published'[i].target \in Observed(k)'
    BY <1>1, <1>3, <1>5 DEF PublishedInv
  <2>2. ASSUME pc' # "start_failed", NEW k \in 1 .. done', Observed(k)' # {}, k \notin errors'
        PROVE  \E i \in DOMAIN published' : published'[i].of = k
    <3>1. Emitting
      BY <1>1, <2>2 DEF Emitting, Evidence, Process
    <3>2. k # done + 1
      BY <1>1, <1>2, <1>3, <1>5, <2>2, <3>1
    <3>3. QED BY <1>1, <1>3, <1>5, <2>2, <3>2 DEF PublishedInv
  <2>3. QED BY <2>1, <2>2 DEF PublishedInv
<1>6. CASE /\ errors' = errors /\ Subject # NoTarget
           /\ published' = Append(published, [of |-> done + 1, kind |-> Command.kind, target |-> Subject])
  <2>1. PICK p : p = [of |-> done + 1, kind |-> Command.kind, target |-> Subject]
    OBVIOUS
  <2>2. /\ DOMAIN published' = 1 .. Len(published) + 1
        /\ published'[Len(published) + 1] = p
        /\ \A i \in DOMAIN published : published'[i] = published[i]
    BY <1>1, <1>6, <2>1
  <2>3. p.of = done + 1 /\ p.target \in Observed(done + 1)
    BY <1>2, <1>6, <2>1
  <2>4. \A i \in DOMAIN published : published[i].of \in 1 .. done
    BY DEF PublishedInv
  <2>5. ASSUME NEW i \in DOMAIN published', NEW j \in DOMAIN published', i < j
        PROVE  published'[i].of < published'[j].of
    <3>1. i \in DOMAIN published /\ published'[i] = published[i]
      BY <1>1, <2>2, <2>5
    <3>2. CASE j = Len(published) + 1
      BY <1>1, <2>2, <2>3, <2>4, <3>1, <3>2
    <3>3. CASE j \in DOMAIN published
      BY <2>2, <2>5, <3>1, <3>3 DEF PublishedInv
    <3>4. QED BY <1>1, <2>2, <3>2, <3>3
  <2>6. \A i \in DOMAIN published' :
          \E k \in 1 .. done' : published'[i].of = k /\ published'[i].target \in Observed(k)'
    <3> SUFFICES ASSUME NEW i \in DOMAIN published'
                 PROVE  \E k \in 1 .. done' : published'[i].of = k /\ published'[i].target \in Observed(k)'
      OBVIOUS
    <3>1. CASE i = Len(published) + 1
      <4>1. PICK k \in 1 .. done' : k = done + 1
        BY <1>1
      <4>2. published'[i].of = k /\ published'[i].target \in Observed(k)'
        BY <1>1, <1>3, <2>2, <2>3, <3>1, <4>1
      <4>3. QED BY <4>2
    <3>2. CASE i \in DOMAIN published
      <4>1. PICK k \in 1 .. done : published[i].of = k /\ published[i].target \in Observed(k)
        BY <3>2 DEF PublishedInv
      <4>2. QED BY <1>1, <1>3, <2>2, <3>2, <4>1
    <3>3. QED BY <1>1, <2>2, <3>1, <3>2
  <2>7. ASSUME pc' # "start_failed", NEW k \in 1 .. done', Observed(k)' # {}, k \notin errors'
        PROVE  \E i \in DOMAIN published' : published'[i].of = k
    <3>1. CASE k = done + 1
      BY <1>1, <2>2, <2>3, <3>1
    <3>2. CASE k \in 1 .. done
      <4>1. PICK i \in DOMAIN published : published[i].of = k
        BY <1>1, <1>3, <1>6, <2>7, <3>2 DEF PublishedInv
      <4>2. QED BY <1>1, <2>2, <4>1
    <3>3. QED BY <1>1, <2>7, <3>1, <3>2
  <2>8. QED BY <2>5, <2>6, <2>7 DEF PublishedInv
<1>7. QED BY <1>4, <1>5, <1>6 DEF Process

LEMMA PublishedKept ==
  ASSUME IInv, MemoryInv, PublishedInv, [Next]_vars
  PROVE  PublishedInv'
<1> USE DEF workVars
<1>1. /\ WorkTypes /\ CallTypes /\ NativeTypes /\ Listed /\ Evidence
      /\ done \in Nat /\ done <= Len(accepted) /\ Len(accepted) \in Nat
  BY DEF IInv, TypeOK, WorkTypes
<1>2. pc = "start_failed" => pc' = "start_failed"
  BY <1>1, PhasesPast
<1>3. ASSUME UNCHANGED <<done, errors, published>>,
             \A i \in 1 .. done : accepted'[i] = accepted[i]
      PROVE  PublishedInv'
  <2>1. \A k \in 1 .. done : Observed(k)' = Observed(k)
    <3>1. \A i \in 1 .. done : accepted[i] \in Commands
      BY <1>1 DEF WorkTypes
    <3>2. QED BY <1>1, <1>3, <3>1, PastKept
  <2>2. \A i \in DOMAIN published : published[i].of \in 1 .. done
    BY DEF PublishedInv
  <2>3. QED BY <1>2, <1>3, <2>1, <2>2 DEF PublishedInv
<1>4. CASE UNCHANGED <<accepted, workVars>>
  BY <1>3, <1>4
<1>5. ASSUME NEW t \in CallbackThreads, Accept(t) PROVE PublishedInv'
  <2>1. CASE UNCHANGED accepted
    BY <1>4, <1>5, <2>1 DEF Accept
  <2>2. CASE accepted' # accepted
    <3>1. PICK c \in Commands : accepted' = Append(accepted, c)
      BY <1>1, <1>5, <2>2, AcceptedCommand
    <3>2. \A i \in 1 .. done : accepted'[i] = accepted[i]
      BY <1>1, <3>1, Appended
    <3>3. QED BY <1>3, <1>5, <3>2 DEF Accept
  <2>3. QED BY <2>1, <2>2
<1>6. CASE Process
  BY <1>1, <1>6, ProcessPublishes
<1>7. CASE WorkerEnds
  BY <1>3, <1>7 DEF WorkerEnds
<1>8. CASE Starting
  BY <1>4, <1>8 DEF Starting, Start, StartMonitor, MonitorFails, AcquireLease, Register,
    CleanUp, CleanUpListeners, GiveUp
<1>9. CASE PointerTransition \/ NativeEvent \/ MonitorDies \/ MainThread \/ UNCHANGED vars
  BY <1>1, <1>4, <1>9, Entering DEF MonitorDies, MainThread, EnterUnregister, Unregister, EndUnregister, vars
<1>10. CASE Stop \/ Stopping
  BY <1>4, <1>10 DEF Stop, Stopping, StopMonitor, NothingToUnregister, UnregisterTimesOut,
    DrainCallbacks, CloseWorker, JoinWorker, JoinTimesOut, ReleaseLease
<1>11. QED
  BY <1>5, <1>6, <1>7, <1>8, <1>9, <1>10 DEF Next, Listening, Working

(* Stated without the fairness of Spec, which a safety property does not   *)
(* need and a module that has this one as a part may not have.             *)
LEMMA SafelyPublishes == Init /\ [][Next]_vars => []PublishedAsAccepted
<1>1. Init => MemoryInv /\ PublishedInv
  <2> SUFFICES ASSUME Init PROVE MemoryInv /\ PublishedInv
    OBVIOUS
  <2>1. LatestAt(0) = {} BY DEF LatestAt
  <2>2. published = <<>> /\ DOMAIN published = {} /\ done = 0
    BY DEF Init
  <2>3. QED BY <2>1, <2>2 DEF Init, MemoryInv, PublishedInv, Recalls
<1>2. IInv /\ PublishedInv => PublishedAsAccepted
  <2> SUFFICES ASSUME IInv, PublishedInv PROVE PublishedAsAccepted
    OBVIOUS
  <2>1. ASSUME NEW i \in DOMAIN published
        PROVE  published[i].of <= done /\ published[i].target \in Observed(published[i].of)
    <3>1. PICK k \in 1 .. done : published[i].of = k /\ published[i].target \in Observed(k)
      BY DEF PublishedInv
    <3>2. QED BY <3>1 DEF IInv, TypeOK, WorkTypes
  <2>2. QED BY <2>1 DEF PublishedInv, PublishedAsAccepted
<1>3. IInv /\ MemoryInv /\ PublishedInv /\ [Next]_vars => MemoryInv' /\ PublishedInv'
  BY MemoryKept, PublishedKept
<1>4. QED BY InitIInv, NextIInv, <1>1, <1>2, <1>3, PTL

(* Every command the worker dealt with without an error is published about *)
(* the object its history assigns to it, in the order of acceptance.       *)
THEOREM PublishesWhatItAccepts == Spec => []PublishedAsAccepted
BY SafelyPublishes, PTL DEF Spec
=============================================================================
