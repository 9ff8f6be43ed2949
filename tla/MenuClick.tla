------------------------------ MODULE MenuClick ------------------------------
(***************************************************************************)
(* JavaFxBridgeDriver.select_menu_path and the menu operations of the      *)
(* JavaFX automation agent. The agent resolves the path on the JavaFX      *)
(* thread and puts an observer on the terminal item; the driver clicks the *)
(* item's bounds and asks the agent to confirm. A click whose action was   *)
(* not observed is followed by a scheduled MenuItem.fire(), whose effect   *)
(* the driver polls for.                                                   *)
(***************************************************************************)
EXTENDS Naturals, Sequences, FiniteSets

CONSTANT MaxSelections   \* bound on the selections of a run

Selections == 1 .. MaxSelections

(* "slow": the JavaFX thread may be late for the agent's bounded waits.    *)
(* "lost": a request may fail in transport after the agent got it.         *)
Faults == {"slow", "lost"}

VARIABLES
  faults,
  selection,           \* the current selection, 0 before the first
  phase,               \* where its driver is
  outcome,             \* how each selection ended: none, ok or failed
  queue,               \* what the JavaFX thread has still to do
  pending,             \* PENDING_MENU_CLICKS, tokens being selections
  dispatches,          \* MENU_DISPATCHES
  observing,           \* tokens whose observer is on the item
  observed, finished, broken, \* flags of the tokens; broken is failure # null
  fired,               \* action events of each selection's item
  seen                 \* what menuDispatchStatus has read so far

agentVars == <<pending, dispatches, observing, observed, finished, broken, fired>>
vars == <<faults, selection, phase, outcome, queue, pending, dispatches, observing,
          observed, finished, broken, fired, seen>>

NoStatus == [observed |-> FALSE, finished |-> FALSE]
Job(name, s) == [do |-> name, of |-> s]

Init ==
  /\ faults \in SUBSET Faults
  /\ selection = 0 /\ phase = "idle" /\ outcome = [s \in Selections |-> "none"]
  /\ queue = <<>> /\ pending = {} /\ dispatches = {} /\ observing = {} /\ observed = {}
  /\ finished = {} /\ broken = {} /\ fired = [s \in Selections |-> 0] /\ seen = NoStatus

Ends(result) ==
  /\ phase' = "idle"
  /\ outcome' = [outcome EXCEPT ![selection] = result]

-----------------------------------------------------------------------------
(* select_menu_path in the driver *)

Ask ==
  /\ phase = "idle" /\ selection < MaxSelections
  /\ selection' = selection + 1
  /\ phase' = "asked" /\ seen' = NoStatus
  /\ queue' = Append(queue, Job("select", selection + 1))
  /\ UNCHANGED <<faults, outcome, agentVars>>

(* The item has no bounds yet: again until the deadline, then by fire.     *)
AskAgain ==
  /\ phase = "unrendered"
  /\ phase' = "asked"
  /\ \E operation \in {"select", "schedule"} : queue' = Append(queue, Job(operation, selection))
  /\ UNCHANGED <<faults, selection, outcome, agentVars, seen>>

(* No answer: a lost one, or the JavaFX thread needs longer than onFx      *)
(* waits. What was handed to it is not withdrawn.                          *)
NoAnswer ==
  /\ phase \in {"asked", "finishing", "status"}
  /\ "lost" \in faults \/ ("slow" \in faults /\ phase = "asked")
  /\ Ends("failed")
  /\ UNCHANGED <<faults, selection, queue, agentVars, seen>>

(* click_bounds *)
Point ==
  /\ phase = "pointing"
  /\ \/ phase' = "finishing" /\ queue' = Append(queue, Job("press", selection))
     \/ phase' = "withdrawing" /\ UNCHANGED queue
  /\ UNCHANGED <<faults, selection, outcome, agentVars, seen>>

-----------------------------------------------------------------------------
(* finishMenuClick *)

(* The click raised: nothing was dispatched and the observer goes away.    *)
Withdraw ==
  /\ phase = "withdrawing"
  /\ pending' = pending \ {selection}
  /\ queue' = Append(queue, Job("cleanup", selection))
  /\ Ends("failed")
  /\ UNCHANGED <<faults, selection, dispatches, observing, observed, finished, broken, fired, seen>>

Confirmed ==
  /\ phase = "finishing" /\ selection \in observed
  /\ pending' = pending \ {selection}
  /\ queue' = Append(queue, Job("cleanup", selection))
  /\ Ends("ok") \/ ("lost" \in faults /\ Ends("failed"))
  /\ UNCHANGED <<faults, selection, dispatches, observing, observed, finished, broken, fired, seen>>

(* Mutant: the fallback does not wait for the click to be dispatched. *)
FallbackAtOnce ==
  /\ phase = "finishing" /\ selection \notin observed
  /\ pending' = pending \ {selection}
  /\ dispatches' = dispatches \cup {selection}
  /\ queue' = Append(queue, Job("fire", selection))
  /\ (phase' = "awaiting" /\ UNCHANGED outcome) \/ ("lost" \in faults /\ Ends("failed"))
  /\ UNCHANGED <<faults, selection, observing, observed, finished, broken, fired, seen>>

(* A quarter of a second passed. Unless the thread is slow it has by then  *)
(* done everything it had to do when the click arrived.                    *)
Fallback ==
  /\ phase = "finishing" /\ selection \notin observed
  /\ "slow" \in faults \/ \A i \in DOMAIN queue : queue[i].do # "press"
  /\ pending' = pending \ {selection}
  /\ dispatches' = dispatches \cup {selection}
  /\ queue' = Append(queue, Job("fire", selection))
  /\ (phase' = "awaiting" /\ UNCHANGED outcome) \/ ("lost" \in faults /\ Ends("failed"))
  /\ UNCHANGED <<faults, selection, observing, observed, finished, broken, fired, seen>>

-----------------------------------------------------------------------------
(* menuDispatchStatus reads the flags one by one, beside the JavaFX thread. *)

StatusReadsObserved ==
  /\ phase = "awaiting"
  /\ IF selection \in dispatches
     THEN phase' = "status" /\ seen' = [NoStatus EXCEPT !.observed = selection \in observed] /\ UNCHANGED outcome
     ELSE Ends("failed") /\ UNCHANGED seen
  /\ UNCHANGED <<faults, selection, queue, agentVars>>

StatusReadsFinished ==
  /\ phase = "status"
  /\ seen' = [seen EXCEPT !.finished = selection \in finished \cup broken]
  /\ phase' = "status answered"
  /\ UNCHANGED <<faults, selection, outcome, queue, agentVars>>

Forgotten == IF selection \in observed \cup finished THEN dispatches \ {selection} ELSE dispatches

(* The token is dropped by the flags as they are now; the driver decides   *)
(* by the flags as they were read.                                         *)
StatusAnswered ==
  /\ phase = "status answered"
  /\ dispatches' = Forgotten
  /\ IF seen.observed THEN Ends("ok")
     ELSE IF seen.finished THEN Ends("failed")
     ELSE phase' = "awaiting" /\ UNCHANGED outcome
  /\ UNCHANGED <<faults, selection, queue, pending, observing, observed, finished, broken, fired, seen>>

AwaitExpires ==
  /\ phase = "awaiting" /\ "slow" \in faults
  /\ Ends("failed")
  /\ UNCHANGED <<faults, selection, queue, agentVars, seen>>

-----------------------------------------------------------------------------
(* The JavaFX thread *)

Waits(s) == selection = s /\ phase = "asked"

(* selectMenuPath: the path, the item or its bounds may be missing; with   *)
(* them the item is observed and its token is the answer.                  *)
Resolve(s) ==
  \/ /\ phase' = IF Waits(s) THEN "unrendered" ELSE phase
     /\ UNCHANGED <<outcome, pending, observing>>
  \/ /\ IF Waits(s) THEN Ends("failed") ELSE UNCHANGED <<phase, outcome>>
     /\ UNCHANGED <<pending, observing>>
  \/ /\ pending' = pending \cup {s} /\ observing' = observing \cup {s}
     /\ IF Waits(s) THEN phase' = "pointing" ELSE UNCHANGED phase
     /\ UNCHANGED outcome

Select(s) ==
  /\ Resolve(s)
  /\ UNCHANGED <<dispatches, observed, finished, broken, fired>>

(* The same without a pointer: the fire is scheduled behind this job. *)
Schedule(s) ==
  /\ observing' = observing \cup {s} /\ dispatches' = dispatches \cup {s}
  /\ IF Waits(s) THEN phase' = "awaiting" ELSE UNCHANGED phase
  /\ UNCHANGED <<outcome, pending, observed, finished, broken, fired>>

ActionEvent(s) ==
  /\ fired' = [fired EXCEPT ![s] = @ + 1]
  /\ observed' = IF s \in observing THEN observed \cup {s} ELSE observed

(* The click reaches the item, or something that is above it by now. *)
Press(s) ==
  /\ ActionEvent(s) \/ UNCHANGED <<fired, observed>>
  /\ UNCHANGED <<phase, outcome, pending, dispatches, observing, finished, broken>>

FireDone(s) ==
  /\ queue[1].do = "fired"
  /\ finished' = finished \cup {s} /\ observing' = observing \ {s}
  /\ UNCHANGED <<phase, outcome, pending, dispatches, observed, broken, fired>>

Fire(s) ==
  /\ \/ ActionEvent(s) /\ UNCHANGED broken
     \/ broken' = broken \cup {s} /\ UNCHANGED <<fired, observed>>
  /\ UNCHANGED <<phase, outcome, pending, dispatches, observing, finished>>

Cleanup(s) ==
  /\ observing' = observing \ {s}
  /\ UNCHANGED <<phase, outcome, pending, dispatches, observed, finished, broken, fired>>

(* "fired" stands for the rest of the fire job, after the action event. *)
JavaFxThread ==
  /\ queue # <<>>
  /\ LET job == Head(queue)
         rest == Tail(queue)
     IN \/ job.do = "select" /\ Select(job.of) /\ queue' = rest
        \/ job.do = "schedule" /\ Schedule(job.of) /\ queue' = Append(rest, Job("fire", job.of))
        \/ job.do = "press" /\ Press(job.of) /\ queue' = rest
        \/ job.do = "fire" /\ Fire(job.of) /\ queue' = <<Job("fired", job.of)>> \o rest
        \/ FireDone(job.of) /\ queue' = rest
        \/ job.do = "cleanup" /\ Cleanup(job.of) /\ queue' = rest
  /\ UNCHANGED <<faults, selection, seen>>

-----------------------------------------------------------------------------
Driver == Ask \/ AskAgain \/ NoAnswer \/ Point \/ Withdraw \/ Confirmed \/ Fallback
Status == StatusReadsObserved \/ StatusReadsFinished \/ StatusAnswered \/ AwaitExpires

Next == Driver \/ Status \/ JavaFxThread

Spec == Init /\ [][Next]_vars

-----------------------------------------------------------------------------
(* Properties *)

TypeOK ==
  /\ faults \subseteq Faults /\ selection \in 0 .. MaxSelections
  /\ phase \in {"idle", "asked", "unrendered", "pointing", "finishing", "withdrawing",
                "awaiting", "status", "status answered"}
  /\ outcome \in [Selections -> {"none", "ok", "failed"}]
  /\ \A i \in DOMAIN queue : queue[i] \in [do : {"select", "schedule", "press", "fire", "fired", "cleanup"}, of : Selections]
  /\ \A tokens \in {pending, dispatches, observing, observed, finished, broken} : tokens \subseteq Selections
  /\ fired \in [Selections -> Nat] /\ seen \in [observed : BOOLEAN, finished : BOOLEAN]

(* A selection that is reported to have succeeded made its item act, and   *)
(* with a prompt JavaFX thread only once: the fallback never doubles a     *)
(* click that was merely not processed yet.                                *)
SelectedOnce ==
  /\ \A s \in Selections : outcome[s] = "ok" => fired[s] >= 1
  /\ "slow" \notin faults => \A s \in Selections : fired[s] <= 1

(* Without a lost or late answer the agent keeps no token of a selection   *)
(* that is over, and its observer is off the item or about to be removed.  *)
NothingPending ==
  faults = {} => \A s \in Selections : outcome[s] # "none" =>
    /\ s \notin pending
    /\ s \in observing => \E i \in DOMAIN queue : queue[i].of = s /\ queue[i].do \in {"cleanup", "fire", "fired"}
=============================================================================
