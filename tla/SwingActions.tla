----------------------------- MODULE SwingActions -----------------------------
(***************************************************************************)
(* The mixed Java agent in Swing applications (java-agent/src/java8) and   *)
(* its client drivers/java_agent.py. A call of the driver asks one JVM     *)
(* after the other until one answers without an error. In the JVM a thread *)
(* of a fixed pool serves the request: it looks for the component on the   *)
(* event dispatch thread and then acts in a second job on that thread,     *)
(* while the application changes its windows. A handler that opens a modal *)
(* dialog keeps its job, and the thread waiting for it, until the dialog   *)
(* is closed; the dialog runs the queue meanwhile.                         *)
(***************************************************************************)
EXTENDS Integers, Sequences, FiniteSets

CONSTANTS
  Comps,               \* components of a JVM that match the locator
  PoolSize,            \* threads of the server (the code: 4)
  MaxRequests,         \* bound on the requests of all calls
  MaxChanges           \* bound on changes of the windows, and on dialogs

Jvms == {1, 2}         \* in the order of their discovery files
Calls == 1 .. MaxRequests
Requests == Calls \X Jvms
Nobody == 0

(* "read" stands for resolve, get_text and get_value, "act" for activate,  *)
(* focus, set_text, select_child and select_menu_path, which check and act *)
(* in one job, "value" for set_value and "close" for close_window.         *)
Kinds == {"read", "act", "value", "close"}

VARIABLES
  running,             \* the JVMs that run the agent
  slow,                \* answers may come too late
  kind,                \* of each call
  asked,               \* the JVM the driver waits for, or Nobody
  todo,                \* those it has still to ask
  outcome,             \* of each call: none, ok or failed
  request,             \* where each request is in its JVM
  answer,              \* what it was answered: none, ok or error
  component,           \* what it found
  edt,                 \* jobs queued on each event dispatch thread
  dialogs,             \* requests whose job is in a modal dialog, innermost last
  shown,               \* the components that are showing
  effects,             \* how often each request took effect
  late,                \* requests the driver gave up on
  changes

driverVars == <<kind, asked, todo, outcome, late>>
threadVars == <<request, answer, component>>
vars == <<running, slow, kind, asked, todo, outcome, request, answer, component, edt, dialogs,
          shown, effects, late, changes>>

Init ==
  /\ running \in SUBSET Jvms /\ slow \in BOOLEAN
  /\ kind = <<>> /\ asked = Nobody /\ todo = <<>> /\ outcome = [c \in Calls |-> "none"]
  /\ request = [r \in Requests |-> "none"] /\ answer = [r \in Requests |-> "none"]
  /\ component = [r \in Requests |-> Nobody]
  /\ edt = [j \in Jvms |-> <<>>] /\ dialogs = [j \in Jvms |-> <<>>]
  /\ shown \in [Jvms -> SUBSET Comps] /\ \A j \in Jvms \ running : shown[j] = {}
  /\ effects = [r \in Requests |-> 0] /\ late = {} /\ changes = 0

-----------------------------------------------------------------------------
(* The driver *)

Current == Len(kind)
Idle == asked = Nobody /\ todo = <<>>

Waiting == {"sent", "none", "answered"}   \* requests without a thread
Busy(j) == {r \in Requests : r[2] = j /\ request[r] \notin Waiting}

(* discover_java_agent_transports asks every JVM for its health, which     *)
(* takes a thread of the pool but none of the event dispatch thread.       *)
Healthy(j) == Cardinality(Busy(j)) < PoolSize
Answering(j) == IF j \in running /\ Healthy(j) THEN <<j>> ELSE <<>>
Discovered == Answering(1) \o Answering(2)

Sent == {r \in Requests : request[r] # "none"}

StartCall(k) ==
  /\ Idle /\ Current < MaxRequests
  /\ kind' = Append(kind, k)
  /\ todo' = Discovered /\ Cardinality(Sent) + Len(todo') <= MaxRequests
  /\ outcome' = IF todo' = <<>> THEN [outcome EXCEPT ![Current + 1] = "failed"] ELSE outcome
  /\ UNCHANGED <<running, slow, asked, threadVars, edt, dialogs, shown, effects, late, changes>>

Ask ==
  /\ asked = Nobody /\ todo # <<>>
  /\ asked' = Head(todo) /\ todo' = Tail(todo)
  /\ request' = [request EXCEPT ![<<Current, asked'>>] = "sent"]
  /\ UNCHANGED <<running, slow, kind, outcome, late, answer, component, edt, dialogs, shown, effects, changes>>

Asked == <<Current, asked>>

(* The loop of _first and _request_first: an exception is kept as an error *)
(* and the next transport is asked.                                        *)
NextTransport ==
  /\ asked' = Nobody /\ UNCHANGED todo
  /\ outcome' = IF todo = <<>> THEN [outcome EXCEPT ![Current] = "failed"] ELSE outcome

ReceiveAnswer ==
  /\ asked # Nobody /\ request[Asked] = "answered"
  /\ \/ /\ answer[Asked] = "ok"
        /\ asked' = Nobody /\ todo' = <<>> /\ outcome' = [outcome EXCEPT ![Current] = "ok"]
     \/ answer[Asked] = "error" /\ NextTransport
  /\ UNCHANGED <<running, slow, kind, late, threadVars, edt, dialogs, shown, effects, changes>>

InDialog(r) == \E i \in DOMAIN dialogs[r[2]] : dialogs[r[2]][i] = r

(* HttpJavaFxBridgeTransport waits 5 s for an answer.                      *)
TimeOut ==
  /\ asked # Nobody /\ request[Asked] # "answered"
  /\ slow \/ InDialog(Asked)
  /\ late' = late \cup {Asked} /\ NextTransport
  /\ UNCHANGED <<running, slow, kind, threadVars, edt, dialogs, shown, effects, changes>>

-----------------------------------------------------------------------------
(* A thread of the server *)

Post(j, r) == edt' = [edt EXCEPT ![j] = Append(@, r)]

(* Every operation on a component begins with find.                        *)
Accept(r) ==
  /\ request[r] = "sent" /\ Healthy(r[2])
  /\ request' = [request EXCEPT ![r] = "find"] /\ Post(r[2], r)
  /\ UNCHANGED <<running, slow, driverVars, answer, component, dialogs, shown, effects, changes>>

Answers(r, a) ==
  /\ request' = [request EXCEPT ![r] = "answered"]
  /\ answer' = [answer EXCEPT ![r] = a]

(* invokeAndWait of the second job, or of the second find of set_value.    *)
Proceed(r) ==
  /\ \/ request[r] = "found" /\ request' = [request EXCEPT ![r] = "act"]
     \/ request[r] = "acted" /\ kind[r[1]] = "value" /\ request' = [request EXCEPT ![r] = "reread"]
  /\ Post(r[2], r)
  /\ UNCHANGED <<running, slow, driverVars, answer, component, dialogs, shown, effects, changes>>

(* After the last job: a snapshot taken on the thread of the server, and   *)
(* for a window whether it went away. resolve has no second job.           *)
Finish(r) ==
  /\ \/ request[r] = "acted" /\ kind[r[1]] # "value"
     \/ request[r] = "found" /\ kind[r[1]] = "read"
  /\ Answers(r, IF kind[r[1]] = "close" /\ component[r] \in shown[r[2]] THEN "error" ELSE "ok")
  /\ UNCHANGED <<running, slow, driverVars, component, edt, dialogs, shown, effects, changes>>

-----------------------------------------------------------------------------
(* The event dispatch thread *)

Job(j, at) == edt[j] # <<>> /\ request[Head(edt[j])] = at
Done(j) == edt' = [edt EXCEPT ![j] = Tail(@)]

(* find: no match and several matches are errors.                          *)
RunFind(j) ==
  /\ Job(j, "find") /\ Done(j)
  /\ LET r == Head(edt[j])
     IN \/ /\ Cardinality(shown[j]) = 1
           /\ component' = [component EXCEPT ![r] = CHOOSE x \in shown[j] : TRUE]
           /\ request' = [request EXCEPT ![r] = "found"] /\ UNCHANGED answer
        \/ Cardinality(shown[j]) # 1 /\ Answers(r, "error") /\ UNCHANGED component
  /\ UNCHANGED <<running, slow, driverVars, dialogs, shown, effects, changes>>

(* The second find of set_value may meet another component, and then reads *)
(* the value of that one.                                                  *)
RunReread(j) ==
  /\ Job(j, "reread") /\ Done(j)
  /\ Answers(Head(edt[j]), IF Cardinality(shown[j]) = 1 THEN "ok" ELSE "error")
  /\ UNCHANGED <<running, slow, driverVars, component, dialogs, shown, effects, changes>>

RunRead(j) ==
  /\ Job(j, "act") /\ Done(j) /\ kind[Head(edt[j])[1]] = "read"
  /\ Answers(Head(edt[j]), "ok")
  /\ UNCHANGED <<running, slow, driverVars, component, dialogs, shown, effects, changes>>

(* Mutant of RunRefused: the check comes after the effect.                 *)
RefusedAfterwards(j) ==
  /\ Job(j, "act") /\ Done(j) /\ kind[Head(edt[j])[1]] # "read"
  /\ Answers(Head(edt[j]), "error") /\ effects' = [effects EXCEPT ![Head(edt[j])] = @ + 1]
  /\ UNCHANGED <<running, slow, driverVars, component, dialogs, shown, changes>>

(* The type of the component, the range of an index and the path of a menu *)
(* are checked in the job that acts; a window must still be showing.       *)
RunRefused(j) ==
  /\ Job(j, "act") /\ Done(j)
  /\ LET r == Head(edt[j])
     IN /\ \/ kind[r[1]] \in {"act", "value"}
           \/ kind[r[1]] = "close" /\ component[r] \notin shown[j]
        /\ Answers(r, "error")
  /\ UNCHANGED <<running, slow, driverVars, component, dialogs, shown, effects, changes>>

(* What the application makes of it: it may change its windows, ...        *)
Consequence(j, r) ==
  \/ kind[r[1]] = "close" /\ shown' = [shown EXCEPT ![j] = @ \ {component[r]}] /\ UNCHANGED changes
  \/ UNCHANGED <<shown, changes>>
  \/ /\ changes < MaxChanges /\ changes' = changes + 1
     /\ \E s \in SUBSET Comps : shown' = [shown EXCEPT ![j] = s]

Effective(j, r) ==
  /\ kind[r[1]] # "read"
  /\ kind[r[1]] = "close" => component[r] \in shown[j]
  /\ effects' = [effects EXCEPT ![r] = @ + 1]

RunAct(j) ==
  /\ Job(j, "act") /\ Done(j)
  /\ LET r == Head(edt[j])
     IN Effective(j, r) /\ Consequence(j, r) /\ request' = [request EXCEPT ![r] = "acted"]
  /\ UNCHANGED <<running, slow, driverVars, answer, component, dialogs>>

(* ... or open a modal dialog in the handler, which runs until it is       *)
(* closed.                                                                 *)
RunIntoDialog(j) ==
  /\ Job(j, "act") /\ Done(j) /\ changes < MaxChanges
  /\ LET r == Head(edt[j])
     IN /\ Effective(j, r) /\ dialogs' = [dialogs EXCEPT ![j] = Append(@, r)]
        /\ request' = [request EXCEPT ![r] = "dialog"]
  /\ changes' = changes + 1
  /\ UNCHANGED <<running, slow, driverVars, answer, component, shown>>

CloseDialog(j) ==
  /\ dialogs[j] # <<>>
  /\ LET r == dialogs[j][Len(dialogs[j])]
     IN Consequence(j, r) /\ request' = [request EXCEPT ![r] = "acted"]
  /\ dialogs' = [dialogs EXCEPT ![j] = SubSeq(@, 1, Len(@) - 1)]
  /\ UNCHANGED <<running, slow, driverVars, answer, component, edt, effects>>

(* The application shows and hides components by itself.                   *)
ChangeWindows(j) ==
  /\ j \in running /\ changes < MaxChanges /\ changes' = changes + 1
  /\ \E s \in SUBSET Comps : s # shown[j] /\ shown' = [shown EXCEPT ![j] = s]
  /\ UNCHANGED <<running, slow, driverVars, threadVars, edt, dialogs, effects>>

-----------------------------------------------------------------------------
Driver == (\E k \in Kinds : StartCall(k)) \/ Ask \/ ReceiveAnswer \/ TimeOut
Thread(r) == Accept(r) \/ Proceed(r) \/ Finish(r)
DispatchThread(j) ==
  \/ RunFind(j) \/ RunReread(j) \/ RunRead(j) \/ RunRefused(j) \/ RunAct(j) \/ RunIntoDialog(j)
  \/ CloseDialog(j) \/ ChangeWindows(j)

Next ==
  \/ Driver
  \/ \E r \in Requests : Thread(r)
  \/ \E j \in Jvms : DispatchThread(j)

Spec == Init /\ [][Next]_vars

-----------------------------------------------------------------------------
(* Properties *)

TypeOK ==
  /\ running \subseteq Jvms /\ slow \in BOOLEAN /\ kind \in Seq(Kinds) /\ asked \in Jvms \cup {Nobody} /\ todo \in Seq(Jvms)
  /\ outcome \in [Calls -> {"none", "ok", "failed"}] /\ late \subseteq Requests
  /\ request \in [Requests -> Waiting \cup {"find", "found", "act", "acted", "dialog", "reread"}]
  /\ answer \in [Requests -> {"none", "ok", "error"}] /\ component \in [Requests -> Comps \cup {Nobody}]
  /\ \A j \in Jvms : edt[j] \in Seq(Requests) /\ dialogs[j] \in Seq(Requests) /\ shown[j] \subseteq Comps
  /\ effects \in [Requests -> 0 .. 1] /\ changes \in 0 .. MaxChanges

ActedIn(c) == {j \in Jvms : effects[<<c, j>>] > 0}

(* What a call reports is what happened in the applications, although it   *)
(* goes on to the next JVM after any error: a call that succeeds acted,    *)
(* and only in the JVM that answered; one that fails did nothing. This     *)
(* holds for calls that were answered in time, and not for a close, which  *)
(* is sent to the next JVM if the application refuses or delays it, nor    *)
(* for set_value, which fails if the component is gone after it was set.   *)
CallsAreTrue ==
  \A c \in 1 .. Current :
    /\ outcome[c] = "ok" /\ kind[c] # "read" => ActedIn(c) # {}
    /\ kind[c] = "act" /\ outcome[c] # "none" /\ (\A j \in Jvms : <<c, j>> \notin late) =>
         Cardinality(ActedIn(c)) = IF outcome[c] = "ok" THEN 1 ELSE 0
=============================================================================
