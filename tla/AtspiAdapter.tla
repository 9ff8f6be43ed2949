---------------------------- MODULE AtspiAdapter ----------------------------
(***************************************************************************)
(* recording/adapters/atspi.py: an adapter is started once, listens to an  *)
(* X11 pointer monitor and to native AT-SPI events, and is stopped until a *)
(* stop succeeds. Callbacks run on the monitor's and on the registry's     *)
(* thread; they resolve their target and hand an immutable command to one  *)
(* worker, which publishes observations. Listeners are removed on the GTK  *)
(* main thread.                                                            *)
(*                                                                         *)
(* Everything native may be slow: each wait of the code that has a timeout *)
(* may time out as long as what it waits for has not happened.             *)
(***************************************************************************)
EXTENDS Integers, Sequences, FiniteSets

CONSTANTS
  Targets, NoTarget,   \* captured components
  Editable,            \* those _is_editable_text_target accepts
  Buttons,
  MaxCommands,         \* bound on accepted commands
  MaxStops             \* bound on calls of stop

ASSUME TargetsAssumption == NoTarget \notin Targets /\ Editable \subseteq Targets
ASSUME BoundsAssumption == MaxCommands \in Nat /\ MaxStops \in Nat

Listeners == {"action", "text"}
PointerListener == "pointer"
CallbackThreads == {"x11", "native"}
NoButton == "none"

Commands ==
  [kind : {"press"}, button : Buttons, target : Targets \cup {NoTarget}]
  \cup [kind : {"release"}, button : Buttons, target : {NoTarget}]
  \cup [kind : {"action"}, button : {NoButton}, target : {NoTarget}]
  \cup [kind : {"text"}, button : {NoButton}, target : Targets \cup {NoTarget}]

VARIABLES
  pc,                  \* where start or stop is
  atspi,               \* driver.available
  using,               \* _using_x11_pointer
  monitor,             \* the monitor thread reports transitions
  gate,                \* _callbacks_accepting
  call,                \* what each callback thread is executing
  listeners,           \* _listeners
  attached,            \* registered with the native registry
  lease,               \* the registry lease is open
  main,                \* whose removal of listeners the main thread runs
  todo,                \* the listeners it still has to remove
  failed,              \* what went wrong in this stop
  stops,               \* calls of stop
  accepting,           \* of the worker
  worker,              \* the worker thread
  accepted,            \* commands put into its queue so far
  done,                \* how many of them it has processed
  errors,              \* those that raised
  pressed, lastTarget, \* of the worker
  published            \* observations emitted, each with its command

lifeVars == <<pc, atspi, using, failed, stops>>
nativeVars == <<listeners, attached, lease, main, todo>>
workVars == <<done, errors, pressed, lastTarget, published>>
vars == <<lifeVars, monitor, gate, call, nativeVars, accepting, worker, accepted, workVars>>

Idle == [kind |-> "idle", button |-> NoButton]
InFlight == {t \in CallbackThreads : call[t] # Idle}

Init ==
  /\ pc = "new" /\ atspi \in BOOLEAN /\ using = FALSE
  /\ monitor = FALSE /\ gate = FALSE /\ call = [t \in CallbackThreads |-> Idle]
  /\ listeners = {} /\ attached = {} /\ lease = FALSE /\ main = "idle" /\ todo = {}
  /\ failed = {} /\ stops = 0
  /\ accepting = FALSE /\ worker = "off" /\ accepted = <<>> /\ done = 0 /\ errors = {}
  /\ pressed = [b \in Buttons |-> NoTarget] /\ lastTarget = NoTarget
  /\ published = <<>>

-----------------------------------------------------------------------------
(* _begin_callback, the handlers, _end_callback *)

Kinds(l) == IF l = PointerListener THEN {"press", "release"} ELSE {l}

Enter(t, kind, button) ==
  /\ call[t] = Idle /\ Len(accepted) + Cardinality(InFlight) < MaxCommands
  /\ gate
  /\ call' = [call EXCEPT ![t] = [kind |-> kind, button |-> button]]
  /\ UNCHANGED <<lifeVars, monitor, gate, nativeVars, accepting, worker, accepted, workVars>>

PointerTransition ==
  monitor /\ \E kind \in {"press", "release"}, b \in Buttons : Enter("x11", kind, b)

NativeEvent ==
  \E l \in attached : \E kind \in Kinds(l) :
    \E b \in IF l = PointerListener THEN Buttons ELSE {NoButton} : Enter("native", kind, b)

(* Only presses and text events resolve a target, which may fail. *)
Resolutions(kind) == IF kind \in {"press", "text"} THEN Targets \cup {NoTarget} ELSE {NoTarget}

(* Mutant: the worker's admission is not checked. *)
AcceptAlways(t) ==
  /\ call[t] # Idle
  /\ \E x \in Resolutions(call[t].kind) :
       accepted' = Append(accepted, [kind |-> call[t].kind, button |-> call[t].button, target |-> x])
  /\ call' = [call EXCEPT ![t] = Idle]
  /\ UNCHANGED <<lifeVars, monitor, gate, nativeVars, accepting, worker, workVars>>

Accept(t) ==
  /\ call[t] # Idle
  /\ \/ /\ accepting
        /\ \E x \in Resolutions(call[t].kind) :
             accepted' = Append(accepted, [kind |-> call[t].kind, button |-> call[t].button, target |-> x])
     \/ ~ accepting /\ UNCHANGED accepted
  /\ call' = [call EXCEPT ![t] = Idle]
  /\ UNCHANGED <<lifeVars, monitor, gate, nativeVars, accepting, worker, workVars>>

-----------------------------------------------------------------------------
(* _PointerRecordingWorker._run and _process *)

Command == accepted[done + 1]

(* Mutant: a stop withdraws the sink first. *)
EmittingUntilStop == pc \notin {"start_failed", "stopped"} /\ stops = 0

Emitting == pc \notin {"start_failed", "stopped"}

(* The target the command's observation carries, or none. *)
Subject ==
  CASE Command.kind = "press" -> NoTarget
    [] Command.kind = "release" -> pressed[Command.button]
    [] Command.kind = "action" -> lastTarget
    [] Command.kind = "text" -> IF Command.target \in Editable THEN Command.target ELSE NoTarget

(* Mutant: a release leaves the press behind. *)
RememberPress ==
  IF Command.kind = "press" /\ Command.target # NoTarget
  THEN pressed' = [pressed EXCEPT ![Command.button] = Command.target] /\ lastTarget' = Command.target
  ELSE UNCHANGED <<pressed, lastTarget>>

Remember ==
  \/ /\ Command.kind = "press" /\ Command.target # NoTarget
     /\ pressed' = [pressed EXCEPT ![Command.button] = Command.target]
     /\ lastTarget' = Command.target
  \/ /\ Command.kind = "release"
     /\ pressed' = [pressed EXCEPT ![Command.button] = NoTarget]
     /\ UNCHANGED lastTarget
  \/ /\ Command.kind # "release" /\ ~ (Command.kind = "press" /\ Command.target # NoTarget)
     /\ UNCHANGED <<pressed, lastTarget>>

Process ==
  /\ worker = "live" /\ done < Len(accepted)
  /\ Remember
  /\ \/ /\ errors' = errors
        /\ published' = IF Subject = NoTarget \/ ~ Emitting THEN published
                        ELSE Append(published, [of |-> done + 1, kind |-> Command.kind, target |-> Subject])
     \/ errors' = errors \cup {done + 1} /\ UNCHANGED published
  /\ done' = done + 1
  /\ UNCHANGED <<lifeVars, monitor, gate, call, nativeVars, accepting, worker, accepted>>

WorkerEnds ==
  /\ worker = "live" /\ ~ accepting /\ done = Len(accepted)
  /\ worker' = "ended" /\ pressed' = [b \in Buttons |-> NoTarget]
  /\ UNCHANGED <<lifeVars, monitor, gate, call, nativeVars, accepting, accepted,
                 done, errors, lastTarget, published>>

-----------------------------------------------------------------------------
(* start *)

Start ==
  /\ pc = "new"
  /\ pc' = "monitor"
  /\ worker' = "live" /\ accepting' = TRUE /\ gate' = TRUE
  /\ listeners' = IF atspi THEN Listeners ELSE {}
  /\ UNCHANGED <<atspi, using, failed, stops, monitor, call, attached, lease, main, todo,
                 accepted, workVars>>

StartMonitor ==
  /\ pc = "monitor"
  /\ pc' = IF atspi THEN "lease" ELSE "active"
  /\ using' = TRUE /\ monitor' = TRUE
  /\ UNCHANGED <<atspi, failed, stops, gate, call, nativeVars, accepting, worker, accepted, workVars>>

MonitorFails ==
  /\ pc = "monitor"
  /\ pc' = IF atspi THEN "lease" ELSE "failing"
  /\ listeners' = IF atspi THEN listeners \cup {PointerListener} ELSE listeners
  /\ UNCHANGED <<atspi, using, failed, stops, monitor, gate, call, attached, lease, main, todo,
                 accepting, worker, accepted, workVars>>

AcquireLease ==
  /\ pc = "lease"
  /\ \/ pc' = "register" /\ lease' = TRUE
     \/ pc' = "failing" /\ UNCHANGED lease
  /\ UNCHANGED <<atspi, using, failed, stops, monitor, gate, call, listeners, attached, main, todo,
                 accepting, worker, accepted, workVars>>

Register ==
  /\ pc = "register"
  /\ \/ \E l \in listeners \ attached : attached' = attached \cup {l} /\ UNCHANGED pc
     \/ listeners = attached /\ pc' = "active" /\ UNCHANGED attached
     \/ listeners # attached /\ pc' = "failing" /\ UNCHANGED attached
  /\ UNCHANGED <<atspi, using, failed, stops, monitor, gate, call, listeners, lease, main, todo,
                 accepting, worker, accepted, workVars>>

(* The clean-up of a start that failed: errors are ignored and nothing is  *)
(* waited for but the worker.                                              *)
CleanUp ==
  /\ pc = "failing"
  /\ pc' = "cleaning"
  /\ gate' = FALSE
  /\ UNCHANGED <<atspi, using, failed, stops, monitor, call, nativeVars, accepting, worker,
                 accepted, workVars>>

CleanUpListeners ==
  /\ pc = "cleaning"
  /\ pc' = "f_monitor"
  /\ attached' \in SUBSET attached
  /\ listeners' = {}
  /\ UNCHANGED <<atspi, using, failed, stops, monitor, gate, call, lease, main, todo,
                 accepting, worker, accepted, workVars>>

GiveUp ==
  /\ pc = "f_release"
  /\ pc' = "start_failed"
  /\ lease' = FALSE
  /\ UNCHANGED <<atspi, using, failed, stops, monitor, gate, call, listeners, attached, main, todo,
                 accepting, worker, accepted, workVars>>

-----------------------------------------------------------------------------
(* stop *)

Stop ==
  /\ pc = "active" \/ (pc = "stop_failed" /\ lease)
  /\ stops < MaxStops
  /\ stops' = stops + 1
  /\ pc' = "s_monitor"
  /\ gate' = FALSE /\ failed' = {}
  /\ UNCHANGED <<atspi, using, monitor, call, nativeVars, accepting, worker, accepted, workVars>>

(* The join of the monitor thread is bounded; a callback it is executing   *)
(* goes on.                                                                *)
StopMonitor ==
  /\ pc \in {"s_monitor", "f_monitor"}
  /\ pc' = IF pc = "s_monitor" THEN "s_unregister" ELSE "f_worker"
  /\ monitor' = FALSE /\ using' = FALSE
  /\ UNCHANGED <<atspi, failed, stops, gate, call, nativeVars, accepting, worker, accepted, workVars>>

(* _deregister_listeners_on_main_thread. The main thread runs one request  *)
(* at a time; a request that timed out before it was entered is cancelled, *)
(* one that was entered goes on.                                           *)
NothingToUnregister ==
  /\ pc = "s_unregister" /\ listeners = {} /\ main # "current"
  /\ pc' = "s_drain"
  /\ UNCHANGED <<atspi, using, failed, stops, monitor, gate, call, nativeVars, accepting, worker,
                 accepted, workVars>>

EnterUnregister ==
  /\ pc = "s_unregister" /\ listeners # {} /\ main = "idle"
  /\ main' = "current" /\ todo' = listeners
  /\ UNCHANGED <<lifeVars, monitor, gate, call, listeners, attached, lease, accepting, worker,
                 accepted, workVars>>

(* Mutant: a removed listener stays in the list until all are removed. *)
UnregisterInBulk ==
  /\ main # "idle"
  /\ \E l \in todo :
       /\ attached' = attached \ {l} /\ todo' = todo \ {l}
       /\ listeners' = IF todo = {l} THEN {} ELSE listeners
  /\ UNCHANGED <<lifeVars, monitor, gate, call, lease, main, accepting, worker, accepted, workVars>>

Unregister ==
  /\ main # "idle"
  /\ \E l \in todo :
       /\ attached' = attached \ {l} /\ todo' = todo \ {l}
       /\ listeners' = listeners \ {l}
  /\ UNCHANGED <<lifeVars, monitor, gate, call, lease, main, accepting, worker, accepted, workVars>>

(* The request ends: all removed, or a removal raised. *)
EndUnregister ==
  /\ main # "idle"
  /\ main' = "idle" /\ todo' = {}
  /\ pc' = IF main = "current" THEN "s_drain" ELSE pc
  /\ failed' = IF main = "current" /\ todo # {} THEN failed \cup {"unregister"} ELSE failed
  /\ UNCHANGED <<atspi, using, stops, monitor, gate, call, listeners, attached, lease,
                 accepting, worker, accepted, workVars>>

(* Mutant: a request that timed out counts as executed. *)
UnregisterAssumed ==
  /\ pc = "s_unregister" /\ (listeners # {} \/ main # "idle")
  /\ pc' = "s_drain"
  /\ main' = IF main = "current" THEN "orphan" ELSE main
  /\ UNCHANGED <<atspi, using, failed, stops, monitor, gate, call, listeners, attached, lease, todo,
                 accepting, worker, accepted, workVars>>

UnregisterTimesOut ==
  /\ pc = "s_unregister" /\ (listeners # {} \/ main # "idle")
  /\ pc' = "s_drain"
  /\ failed' = failed \cup {"unregister"}
  /\ main' = IF main = "current" THEN "orphan" ELSE main
  /\ UNCHANGED <<atspi, using, stops, monitor, gate, call, listeners, attached, lease, todo,
                 accepting, worker, accepted, workVars>>

(* The callback drain: until no callback is active, or the deadline. *)
DrainCallbacks ==
  /\ pc = "s_drain"
  /\ pc' = "s_worker"
  /\ failed' = IF InFlight = {} THEN failed ELSE failed \cup {"callbacks"}
  /\ UNCHANGED <<atspi, using, stops, monitor, gate, call, nativeVars, accepting, worker,
                 accepted, workVars>>

(* stop_and_drain *)
CloseWorker ==
  /\ pc \in {"s_worker", "f_worker"}
  /\ pc' = IF pc = "s_worker" THEN "s_join" ELSE "f_join"
  /\ accepting' = FALSE
  /\ UNCHANGED <<atspi, using, failed, stops, monitor, gate, call, nativeVars, worker,
                 accepted, workVars>>

JoinWorker ==
  /\ pc \in {"s_join", "f_join"} /\ worker \in {"off", "ended"}
  /\ pc' = IF pc = "s_join" THEN "s_release" ELSE "f_release"
  /\ worker' = "off"
  /\ UNCHANGED <<atspi, using, failed, stops, monitor, gate, call, nativeVars, accepting,
                 accepted, workVars>>

(* Mutant: the join has no timeout. *)
JoinUnbounded ==
  /\ pc \in {"s_join", "f_join"} /\ worker = "ended"
  /\ UNCHANGED vars

JoinTimesOut ==
  /\ pc \in {"s_join", "f_join"} /\ worker = "live"
  /\ pc' = IF pc = "s_join" THEN "s_release" ELSE "f_release"
  /\ failed' = IF pc = "s_join" THEN failed \cup {"worker"} ELSE failed
  /\ UNCHANGED <<atspi, using, stops, monitor, gate, call, nativeVars, accepting, worker,
                 accepted, workVars>>

ReleaseLease ==
  /\ pc = "s_release"
  /\ pc' = IF failed = {} THEN "stopped" ELSE "stop_failed"
  /\ lease' = IF failed = {} THEN FALSE ELSE lease
  /\ listeners' = IF "unregister" \in failed THEN listeners ELSE {}
  /\ UNCHANGED <<atspi, using, failed, stops, monitor, gate, call, attached, main, todo,
                 accepting, worker, accepted, workVars>>

-----------------------------------------------------------------------------
(* The monitor thread ends by itself when a sample raises. *)
MonitorDies ==
  /\ monitor /\ call["x11"] = Idle
  /\ monitor' = FALSE
  /\ UNCHANGED <<lifeVars, gate, call, nativeVars, accepting, worker, accepted, workVars>>

Listening == PointerTransition \/ NativeEvent \/ (\E t \in CallbackThreads : Accept(t)) \/ MonitorDies
Working == Process \/ WorkerEnds
MainThread == EnterUnregister \/ Unregister \/ EndUnregister
Starting ==
  \/ Start \/ StartMonitor \/ MonitorFails \/ AcquireLease \/ Register
  \/ CleanUp \/ CleanUpListeners \/ GiveUp
Stopping ==
  \/ StopMonitor \/ NothingToUnregister \/ UnregisterTimesOut
  \/ DrainCallbacks \/ CloseWorker \/ JoinWorker \/ JoinTimesOut \/ ReleaseLease

Next == Listening \/ Working \/ MainThread \/ Starting \/ Stop \/ Stopping

(* The thread that starts and stops runs and its waits are bounded; no     *)
(* other thread has to make progress.                                      *)
Spec == Init /\ [][Next]_vars /\ WF_vars(Starting \/ Stopping)

-----------------------------------------------------------------------------
(* Properties *)

Phases ==
  {"new", "monitor", "lease", "register", "active",
   "failing", "cleaning", "f_monitor", "f_worker", "f_join", "f_release", "start_failed",
   "s_monitor", "s_unregister", "s_drain", "s_worker", "s_join", "s_release",
   "stopped", "stop_failed"}

Calls ==
  {Idle} \cup [kind : {"press", "release"}, button : Buttons]
         \cup [kind : {"action", "text"}, button : {NoButton}]

LifeTypes ==
  /\ pc \in Phases /\ atspi \in BOOLEAN /\ using \in BOOLEAN
  /\ failed \subseteq {"unregister", "callbacks", "worker"} /\ stops \in 0 .. MaxStops

CallTypes ==
  /\ monitor \in BOOLEAN /\ gate \in BOOLEAN /\ accepting \in BOOLEAN
  /\ call \in [CallbackThreads -> Calls]

NativeTypes ==
  /\ listeners \subseteq Listeners \cup {PointerListener}
  /\ attached \subseteq Listeners \cup {PointerListener}
  /\ lease \in BOOLEAN /\ main \in {"idle", "current", "orphan"} /\ todo \subseteq listeners

WorkTypes ==
  /\ worker \in {"off", "live", "ended"}
  /\ accepted \in Seq(Commands) /\ done \in 0 .. Len(accepted) /\ errors \subseteq 1 .. done
  /\ pressed \in [Buttons -> Targets \cup {NoTarget}] /\ lastTarget \in Targets \cup {NoTarget}
  /\ published \in Seq([of : Nat, kind : {"release", "action", "text"}, target : Targets])

(* Variables keep their types, a callback names a button exactly if it is  *)
(* about the pointer, and callbacks are admitted only while the worker     *)
(* accepts, so that nothing admitted is refused for being early.           *)
TypeOK ==
  LifeTypes /\ CallTypes /\ NativeTypes /\ WorkTypes /\ (gate => accepting)

(* What command k has to be published about, from the commands before it:  *)
(* a release about the last resolved press of its button that no release   *)
(* ended, an action about the last resolved press, a text about itself.    *)
ResolvedPress(j) == accepted[j].kind = "press" /\ accepted[j].target # NoTarget
LastBefore(k, P(_), ends(_)) ==
  {j \in 1 .. k - 1 : P(j) /\ \A i \in j + 1 .. k - 1 : ~ ends(i)}

Observed(k) ==
  LET ofButton(j) == ResolvedPress(j) /\ accepted[j].button = accepted[k].button
      ends(j) == ofButton(j) \/ (accepted[j].kind = "release" /\ accepted[j].button = accepted[k].button)
  IN CASE accepted[k].kind = "press" -> {}
       [] accepted[k].kind = "release" -> {accepted[j].target : j \in LastBefore(k, ofButton, ends)}
       [] accepted[k].kind = "action" ->
            {accepted[j].target : j \in LastBefore(k, ResolvedPress, ResolvedPress)}
       [] accepted[k].kind = "text" -> {accepted[k].target} \cap Editable

(* Every processed command that did not raise is published about the       *)
(* object its history assigns to it, in the order of acceptance, whatever  *)
(* the callback threads, the worker and a stop do meanwhile.               *)
PublishedAsAccepted ==
  /\ \A i, j \in DOMAIN published : i < j => published[i].of < published[j].of
  /\ \A i \in DOMAIN published :
       published[i].of <= done /\ published[i].target \in Observed(published[i].of)
  /\ pc # "start_failed" => \A k \in 1 .. done :
       Observed(k) # {} /\ k \notin errors => \E i \in DOMAIN published : published[i].of = k

(* A stop closes the lease only when no listener is registered and no      *)
(* native callback is running, whichever of its waits timed out and        *)
(* however often it is repeated.                                           *)
LeaseOutlivesListeners ==
  pc # "start_failed" /\ ~ lease => attached = {} /\ call["native"] = Idle

(* A listener is never removed twice, also by a retry that meets a removal *)
(* the main thread had not finished.                                       *)
RemovedOnce == todo \subseteq attached

(* After a stop that succeeded nothing of the adapter runs any more.       *)
StoppedIsQuiet ==
  pc = "stopped" => /\ InFlight = {} /\ attached = {} /\ todo = {}
                    /\ ~ gate /\ ~ monitor /\ worker = "off"

(* The adapter is the channel RecordingSession relies on. *)
Channel == INSTANCE ObservationChannel WITH
  sent <- accepted, delivered <- done,
  status <- IF pc = "stopped" THEN "closed"
            ELSE IF pc \in {"stop_failed", "start_failed"} \/ stops > 1 THEN "broken" ELSE "open"

IsChannel == Channel!ChannelSpec

(* start and stop return, even if the main thread, a callback or the       *)
(* worker hangs for good.                                                  *)
Resting == pc \in {"new", "active", "stopped", "stop_failed", "start_failed"}
CallsReturn == ~ Resting ~> Resting
=============================================================================
