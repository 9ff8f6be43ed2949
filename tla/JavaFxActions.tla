---------------------------- MODULE JavaFxActions -----------------------------
(***************************************************************************)
(* A call of drivers/javafx_bridge.py on JavaFX applications: the driver   *)
(* looks for the window or the component in every JVM that answers a ping, *)
(* then asks the one that has it to act. In the JVM each request is a job  *)
(* on the JavaFX thread; a job that an answer was not awaited for is still *)
(* done later. The driver keeps nothing from one call to the next, so one  *)
(* call is followed here; jobs left by an earlier one are among the things *)
(* an application does by itself. How a locator selects nodes inside a JVM *)
(* is the business of module Locators, menus that of module MenuClick.     *)
(***************************************************************************)
EXTENDS Integers, Sequences, FiniteSets

CONSTANTS
  MaxStages,           \* bound on the showing windows of all JVMs
  MaxSceneChanges,     \* bound on the changes of windows by the applications
  MaxAttempts          \* requests to activate a window before 2 s are over

Jvms == {1, 2}
None == 0

(* A showing window: one with the title of the locator and one matching    *)
(* component, one with the title alone, or another with such a component.  *)
Stages == {"owner", "bare", "other"}
Titled == {"owner", "bare"}

(* "read" stands for inspect, resolve, state and count_matches, "text" for  *)
(* get_text, "act" for activate, focus, set_text and the selections,       *)
(* "raise" for activate_window, "request" for request_window_activation,   *)
(* and "close" for close_window.                                           *)
NoCall == [op |-> "none", scoped |-> FALSE]
Kinds ==
  [op : {"read", "text", "act", "raise", "request"}, scoped : BOOLEAN] \cup {[op |-> "close", scoped |-> TRUE]}

VARIABLES
  scene,               \* the showing windows of each JVM, in order
  slow,                \* JVMs whose JavaFX thread may answer too late
  call,                \* the call, or NoCall
  heard,               \* JVMs that answered the ping
  phase,               \* idle, windows, find, ask, wait, ended
  todo,                \* JVMs still to look at
  owners,              \* the JVM of each window found with the title
  found,               \* the JVM of each component found
  failures,            \* some JVM did not answer
  chosen,              \* the JVM asked to act
  attempts,
  answer,              \* of the JVM: none, ok, unfocused or error
  jobs,                \* requests to act that wait on the JavaFX thread
  effects,             \* what was acted on, and what was meant then
  outcome,             \* none, ok or failed
  late,                \* a request to act was given up
  refused,             \* the application spoilt the effect
  changes

driverVars == <<call, heard, phase, todo, owners, found, failures, chosen, attempts, outcome, late>>
jvmVars == <<scene, slow, answer, jobs, effects, refused, changes>>
vars == <<scene, slow, driverVars, answer, jobs, effects, refused, changes>>

Scenes ==
  {s \in [Jvms -> UNION {[1 .. n -> Stages] : n \in 0 .. MaxStages}] : Len(s[1]) + Len(s[2]) <= MaxStages}

Init ==
  /\ scene \in Scenes /\ slow \in SUBSET Jvms
  /\ call = NoCall /\ heard = {} /\ phase = "idle" /\ todo = <<>> /\ owners = <<>> /\ found = <<>>
  /\ failures = FALSE /\ chosen = None /\ attempts = 0 /\ answer = "none"
  /\ jobs = 0 /\ effects = <<>> /\ outcome = "none" /\ late = FALSE /\ refused = FALSE /\ changes = 0

-----------------------------------------------------------------------------
(* What the locator means in a JVM: the places of the windows, for an      *)
(* operation on one, and of the components otherwise. Only a component in  *)
(* a window of the given title counts if there is one.                     *)
Windows(j) == {i \in DOMAIN scene[j] : scene[j][i] \in Titled}
NodesOf(j) == {i \in DOMAIN scene[j] : scene[j][i] = "owner" \/ (scene[j][i] = "other" /\ ~call.scoped)}
OnWindow == call.op = "close" \/ (call.op \in {"raise", "request"} /\ call.scoped)
Meant(j) == IF OnWindow THEN Windows(j) ELSE NodesOf(j)

Times(j, n) == [i \in 1 .. n |-> j]

-----------------------------------------------------------------------------
(* The driver *)

(* The JVMs that answered a ping, in the order of their files.             *)
Discovered == {<<>>, <<1>>, <<2>>, <<1, 2>>}

(* endpoints(): a JVM that does not answer a ping within 0.5 s is left out *)
(* without a trace, whatever it shows. The ping needs no JavaFX thread.    *)
StartCall(k) ==
  /\ phase = "idle" /\ call' = k
  /\ \E list \in Discovered : todo' = list /\ heard' = {list[i] : i \in DOMAIN list}
  /\ phase' = IF k.scoped THEN "windows" ELSE "find"
  /\ UNCHANGED <<owners, found, failures, chosen, attempts, outcome, late, jvmVars>>

End(o) == phase' = "ended" /\ outcome' = o

(* One JVM of the loops of _endpoint_for_window and _find_matches: it      *)
(* answers, or is too slow, which is noted.                                *)
LookAt ==
  /\ phase \in {"windows", "find"} /\ todo # <<>> /\ todo' = Tail(todo)
  /\ LET j == Head(todo)
     IN \/ /\ j \in slow /\ failures' = TRUE /\ UNCHANGED <<owners, found>>
        \/ /\ phase = "windows" /\ owners' = owners \o Times(j, Cardinality(Windows(j)))
           /\ UNCHANGED <<found, failures>>
        \/ /\ phase = "find" /\ found' = found \o Times(j, Cardinality(NodesOf(j)))
           /\ UNCHANGED <<owners, failures>>
  /\ UNCHANGED <<call, heard, phase, chosen, attempts, outcome, late, jvmVars>>

(* Mutant of Chooses: the JVMs that did not answer are left out.           *)
ChoosesAmongAnswers(list) == todo = <<>> /\ Len(list) = 1

(* _endpoint_for_window and _find_unique: one of them, and no JVM failed   *)
(* that was asked.                                                         *)
Chooses(list) == todo = <<>> /\ Len(list) = 1 /\ ~failures

(* A component in a window of a title is looked for in the JVM that has    *)
(* that window.                                                            *)
OwnerFound ==
  /\ phase = "windows" /\ todo = <<>>
  /\ \/ /\ Chooses(owners) /\ OnWindow
        /\ chosen' = owners[1] /\ phase' = "ask" /\ UNCHANGED <<todo, outcome>>
     \/ /\ Chooses(owners) /\ ~OnWindow
        /\ todo' = owners /\ phase' = "find" /\ UNCHANGED <<chosen, outcome>>
     \/ /\ ~Chooses(owners) /\ End("failed") /\ UNCHANGED <<todo, chosen>>
  /\ UNCHANGED <<call, heard, owners, found, failures, attempts, late, jvmVars>>

ComponentFound ==
  /\ phase = "find" /\ todo = <<>>
  /\ \/ /\ Chooses(found) /\ call.op # "read"
        /\ chosen' = found[1] /\ phase' = "ask" /\ UNCHANGED outcome
     \/ Chooses(found) /\ call.op = "read" /\ End("ok") /\ chosen' = found[1]
     \/ ~Chooses(found) /\ End("failed") /\ UNCHANGED chosen
  /\ UNCHANGED <<call, heard, todo, owners, found, failures, attempts, late, jvmVars>>

Ask ==
  /\ phase = "ask"
  /\ phase' = "wait" /\ attempts' = attempts + 1 /\ answer' = "none" /\ jobs' = jobs + 1
  /\ UNCHANGED <<scene, slow, call, heard, todo, owners, found, failures, chosen, outcome, late, effects, refused, changes>>

(* JavaFxBridgeEndpoint.request: 5 s, fewer than the 10 s after which the  *)
(* agent would answer that the JavaFX thread did not respond.              *)
TimeOut ==
  /\ phase = "wait" /\ answer = "none" /\ chosen \in slow
  /\ End("failed") /\ late' = TRUE
  /\ UNCHANGED <<call, heard, todo, owners, found, failures, chosen, attempts, jvmVars>>

(* activate_window asks again until the window has the focus, for 2 s;     *)
(* request_window_activation is content without it.                        *)
Receive ==
  /\ phase = "wait" /\ answer # "none"
  /\ \/ (answer = "ok" \/ (answer = "unfocused" /\ call.op = "request")) /\ End("ok")
     \/ answer = "error" /\ End("failed")
     \/ /\ answer = "unfocused" /\ call.op = "raise"
        /\ \/ attempts < MaxAttempts /\ phase' = "ask" /\ UNCHANGED outcome
           \/ End("failed")
  /\ UNCHANGED <<call, heard, todo, owners, found, failures, chosen, attempts, late, jvmVars>>

-----------------------------------------------------------------------------
(* The JavaFX thread of the JVM that was asked *)

(* All that the locator means in the JVMs that answered the ping.          *)
AllMeant == {<<j, i>> : j \in Jvms, i \in 1 .. MaxStages} \cap UNION {{j} \X Meant(j) : j \in heard}

(* Nobody hears an answer after the time-out.                              *)
Answers(a) == answer' = IF phase = "wait" THEN a ELSE answer

Job == jobs > 0 /\ jobs' = jobs - 1

(* The agent resolves again: no match, several, a component that cannot do *)
(* it, an index out of range and an item of another name are errors.       *)
RunRefused ==
  /\ Job /\ (Cardinality(Meant(chosen)) # 1 \/ call.op \in {"act", "text"})
  /\ Answers("error")
  /\ UNCHANGED <<scene, slow, driverVars, effects, refused, changes>>

RunGetText ==
  /\ Job /\ call.op = "text" /\ Cardinality(Meant(chosen)) = 1
  /\ Answers("ok")
  /\ UNCHANGED <<scene, slow, driverVars, effects, refused, changes>>

Acts == effects' = Append(effects, [jvm |-> chosen, meant |-> AllMeant])

(* toFront and requestFocus; whether the window has the focus is read in   *)
(* the same job.                                                           *)
RunRaise ==
  /\ Job /\ call.op \in {"raise", "request"} /\ Cardinality(Meant(chosen)) = 1
  /\ Acts
  /\ Answers("ok") \/ Answers("unfocused")
  /\ UNCHANGED <<scene, slow, driverVars, refused, changes>>

Removed(s, i) == [k \in 1 .. Len(s) - 1 |-> s[IF k < i THEN k ELSE k + 1]]

(* Mutant of RunClose: it does not look whether the window is gone.        *)
CloseUnconfirmed ==
  /\ Job /\ call.op = "close" /\ Cardinality(Meant(chosen)) = 1
  /\ Acts
  /\ \/ \E i \in Meant(chosen) :
          /\ scene' = [scene EXCEPT ![chosen] = Removed(@, i)]
          /\ UNCHANGED refused
     \/ refused' = TRUE /\ UNCHANGED scene
  /\ Answers("ok")
  /\ UNCHANGED <<slow, driverVars, changes>>

(* WINDOW_CLOSE_REQUEST: the application hides the window or keeps it.     *)
RunClose ==
  /\ Job /\ call.op = "close" /\ Cardinality(Meant(chosen)) = 1
  /\ Acts
  /\ \/ \E i \in Meant(chosen) :
          /\ scene' = [scene EXCEPT ![chosen] = Removed(@, i)]
          /\ Answers("ok") /\ UNCHANGED refused
     \/ refused' = TRUE /\ Answers("error") /\ UNCHANGED scene
  /\ UNCHANGED <<slow, driverVars, changes>>

(* The effect may be spoilt: a handler throws, a listener selects another  *)
(* item, the focus is not accepted. Or the handler opens a dialog and does *)
(* not return: the driver gives up.                                        *)
RunAct ==
  /\ Job /\ call.op = "act" /\ Cardinality(Meant(chosen)) = 1
  /\ Acts
  /\ \/ Answers("ok") /\ UNCHANGED <<slow, refused>>
     \/ refused' = TRUE /\ Answers("error") /\ UNCHANGED slow
     \/ slow' = slow \cup {chosen} /\ UNCHANGED <<answer, refused>>
  /\ UNCHANGED <<scene, driverVars, changes>>

(* The applications show and hide windows and components.                  *)
ChangeWindows(j) ==
  /\ changes < MaxSceneChanges /\ changes' = changes + 1
  /\ \E s \in Scenes : scene' = [scene EXCEPT ![j] = s[j]] /\ scene' \in Scenes /\ scene' # scene
  /\ UNCHANGED <<slow, driverVars, answer, jobs, effects, refused>>

-----------------------------------------------------------------------------
Driver ==
  (\E k \in Kinds : StartCall(k)) \/ LookAt \/ OwnerFound \/ ComponentFound \/ Ask \/ TimeOut \/ Receive
JavaFxThread == RunRefused \/ RunGetText \/ RunRaise \/ RunClose \/ RunAct

Next == Driver \/ JavaFxThread \/ (\E j \in Jvms : ChangeWindows(j))

Spec == Init /\ [][Next]_vars

-----------------------------------------------------------------------------
(* The items of a tab pane or a selector *)

Names == {"a", "b"}
NoName == "none"
NoIndex == -1
Items == [id : Names, text : Names, disabled : BOOLEAN]
ItemLists == UNION {[1 .. n -> Items] : n \in 0 .. 2}

(* select_popup_path: an item goes by the name of its object or by the one *)
(* it is displayed with; the index is checked against the name.            *)
PopupMatches(list, s) == {i \in DOMAIN list : s.text \in {list[i].id, list[i].text}}
PopupItem(list, s) ==
  IF s.index = NoIndex THEN IF Cardinality(PopupMatches(list, s)) = 1 THEN PopupMatches(list, s) ELSE {}
  ELSE {i \in {s.index + 1} \cap DOMAIN list : s.text = NoName \/ i \in PopupMatches(list, s)}

(* select_tab: the index decides among tabs that meet all criteria, and is *)
(* not looked at if one does. A disabled tab is an error.                  *)
TabMatches(list, s) ==
  {i \in DOMAIN list : s.id \in {NoName, list[i].id} /\ s.text \in {NoName, list[i].text}}
TabItem(list, s) ==
  LET matches == TabMatches(list, s)
      selected == IF Cardinality(matches) = 1 THEN matches ELSE matches \cap {s.index + 1}
  IN IF s.id = NoName /\ s.text = NoName THEN {} ELSE {i \in selected : ~list[i].disabled}

-----------------------------------------------------------------------------
(* Properties *)

TypeOK ==
  /\ scene \in Scenes /\ slow \subseteq Jvms /\ call \in Kinds \cup {NoCall}
  /\ phase \in {"idle", "windows", "find", "ask", "wait", "ended"}
  /\ heard \subseteq Jvms /\ todo \in Discovered /\ owners \in Seq(Jvms) /\ found \in Seq(Jvms) /\ failures \in BOOLEAN
  /\ chosen \in Jvms \cup {None} /\ attempts \in 0 .. MaxAttempts /\ jobs \in 0 .. 1
  /\ answer \in {"none", "ok", "unfocused", "error"} /\ outcome \in {"none", "ok", "failed"}
  /\ late \in BOOLEAN /\ refused \in BOOLEAN /\ changes \in 0 .. MaxSceneChanges
  /\ \A k \in DOMAIN effects : effects[k].jvm \in Jvms /\ effects[k].meant \subseteq Jvms \X (1 .. MaxStages)

(* The item that is selected is the one that was recorded: always if the   *)
(* list is the same, and if it changed then one that still goes by the     *)
(* recorded name, or none.                                                 *)
SelectedIsRecorded ==
  \A list, now \in ItemLists : \A i \in DOMAIN list :
    LET popup == [id |-> NoName, text |-> list[i].text, index |-> i - 1]
        tab == [id |-> list[i].id, text |-> list[i].text, index |-> i - 1]
    IN /\ now = list => PopupItem(now, popup) = {i} /\ (~list[i].disabled => TabItem(now, tab) = {i})
       /\ \A k \in PopupItem(now, popup) : list[i].text \in {now[k].id, now[k].text}
       /\ \A k \in TabItem(now, tab) :
            now[k].id = list[i].id /\ now[k].text = list[i].text /\ ~now[k].disabled

(* A call acts in one JVM at most, even if it was given up and the JavaFX  *)
(* thread does its job afterwards. While no application changed its        *)
(* windows, what it acts on is the only thing the locator could mean in    *)
(* the JVMs that answered the ping, also in one that answered nothing      *)
(* after it; a JVM that missed the ping may show another. If the call      *)
(* succeeds it acted, and if it was answered in time and the application   *)
(* did not spoil it, a failure left no trace (activate_window apart, which *)
(* repeats). A window reported as closed is gone from those JVMs.          *)
FxCallIsTrue ==
  /\ \A k \in DOMAIN effects : effects[k].jvm = chosen
  /\ changes = 0 => \A k \in DOMAIN effects : Cardinality(effects[k].meant) = 1
  /\ outcome = "ok" /\ call.op \notin {"read", "text"} => effects # <<>>
  /\ outcome = "failed" /\ ~late /\ ~refused /\ call.op # "raise" => effects = <<>>
  /\ outcome = "ok" /\ call.op = "close" /\ changes = 0 => \A j \in heard : Windows(j) = {}
  /\ phase = "idle" /\ scene = <<<<>>, <<>>>> /\ slow = {} /\ changes = 0 => SelectedIsRecorded
=============================================================================
