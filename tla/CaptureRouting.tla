---------------------------- MODULE CaptureRouting ----------------------------
(***************************************************************************)
(* HybridObjectCaptureService.capture_next_click and RoutedCaptureService. *)
(* A pointer monitor reports the press and the process of the topmost X11  *)
(* client; the object is then asked for from the backend that owns that    *)
(* process, while windows open, close and restack and agents come and go.  *)
(***************************************************************************)
EXTENDS Naturals

CONSTANTS
  Apps,                \* processes that may own a window
  MaxClicks            \* bound on the clicks of a capture (the code: 9)

Self == "harness"
Unknown == "unknown"   \* a window without _NET_WM_PID, an object without a pid
Pids == Apps \cup {Self, Unknown}
Nothing == [pid |-> Unknown, backend |-> "none"]

VARIABLES
  top,                 \* the process of the topmost window under the pointer
  fx,                  \* processes with a JavaFX bridge
  agents,              \* processes with a mixed Java agent
  clicksLeft,          \* clicks the current capture still has to take
  step,                \* where the monitor's callback is
  owner,               \* the process that owned the press
  ownedByFx,           \* whether it had a bridge when the callback looked
  found,               \* the object a backend returned
  result,              \* the queue of size one: none, ok or error
  outcome              \* what the capture returned

desktop == <<top, fx, agents>>
callbackVars == <<step, owner, ownedByFx, found>>
vars == <<top, fx, agents, clicksLeft, step, owner, ownedByFx, found, result, outcome>>

Init ==
  /\ top = Self /\ fx = {} /\ agents = {} /\ clicksLeft = 0
  /\ step = "idle" /\ owner = Unknown /\ ownedByFx = FALSE /\ found = Nothing
  /\ result = "none" /\ outcome = "none"

(* Other programs: windows are raised and JVMs publish their endpoints. *)
Desktop ==
  /\ \/ top' \in Pids /\ UNCHANGED <<fx, agents>>
     \/ \E pid \in Apps : fx' \in {fx \cup {pid}, fx \ {pid}} /\ UNCHANGED <<top, agents>>
     \/ \E pid \in Apps : agents' \in {agents \cup {pid}, agents \ {pid}} /\ UNCHANGED <<top, fx>>
  /\ UNCHANGED <<clicksLeft, callbackVars, result, outcome>>

-----------------------------------------------------------------------------
(* capture_next_click. Each of its clicks has a monitor and a queue of its *)
(* own; a callback that is still busy when its monitor stops changes no    *)
(* queue anyone reads.                                                     *)

StartCapture ==
  /\ clicksLeft = 0
  /\ clicksLeft' \in 1 .. MaxClicks
  /\ step' = "listening" /\ owner' = Unknown /\ ownedByFx' = FALSE /\ found' = Nothing
  /\ result' = "none" /\ outcome' = "none"
  /\ UNCHANGED desktop

Over == clicksLeft' = 0 /\ step' = "idle" /\ result' = "none"

TakeObject ==
  /\ result = "ok"
  /\ IF clicksLeft = 1
     THEN Over /\ outcome' = "captured" /\ UNCHANGED <<owner, ownedByFx, found>>
     ELSE /\ clicksLeft' = clicksLeft - 1 /\ step' = "listening" /\ result' = "none"
          /\ owner' = Unknown /\ ownedByFx' = FALSE /\ found' = Nothing
          /\ UNCHANGED outcome
  /\ UNCHANGED desktop

TakeError ==
  /\ result = "error"
  /\ Over /\ outcome' = "failed"
  /\ UNCHANGED <<desktop, owner, ownedByFx, found>>

TimesOut ==
  /\ clicksLeft > 0 /\ result = "none"
  /\ Over /\ outcome' = "failed"
  /\ UNCHANGED <<desktop, owner, ownedByFx, found>>

-----------------------------------------------------------------------------
(* The monitor's callback *)

Fails == step' = "done" /\ result' = "error" /\ UNCHANGED found

(* A press on a window of the harness itself is not a target. *)
Press ==
  /\ step = "listening" /\ top # Self
  /\ owner' = top
  /\ IF top = Unknown THEN Fails ELSE step' = "bridges?" /\ UNCHANGED <<result, found>>
  /\ UNCHANGED <<desktop, clicksLeft, ownedByFx, outcome>>

FindBridge ==
  /\ step = "bridges?"
  /\ ownedByFx' = (owner \in fx)
  /\ step' = IF owner \in fx THEN "javafx" ELSE "agents?"
  /\ UNCHANGED <<desktop, clicksLeft, owner, found, result, outcome>>

FindAgent ==
  /\ step = "agents?"
  /\ step' = IF agents # {} THEN "java-agent" ELSE "atspi"
  /\ UNCHANGED <<desktop, clicksLeft, owner, ownedByFx, found, result, outcome>>

(* The endpoints are discovered again for the hit test; a port may by now  *)
(* belong to another JVM. AT-SPI answers for whatever it finds on top.     *)
HitTest ==
  /\ step \in {"javafx", "java-agent", "atspi"}
  /\ \/ Fails
     \/ /\ CASE step = "javafx" -> owner \in fx /\ \E pid \in fx : found' = [pid |-> pid, backend |-> step]
            [] step = "java-agent" -> owner \in agents /\ \E pid \in agents \cup {Unknown} : found' = [pid |-> pid, backend |-> step]
            [] OTHER -> \E pid \in {top, Unknown} : found' = [pid |-> pid, backend |-> step]
        /\ step' = "verify" /\ UNCHANGED result
  /\ UNCHANGED <<desktop, clicksLeft, owner, ownedByFx, outcome>>

(* Mutant: only an object that names another process is refused. *)
VerifyKnown ==
  /\ step = "verify"
  /\ IF found.pid \in {owner, Unknown} THEN step' = "done" /\ result' = "ok" /\ UNCHANGED found ELSE Fails
  /\ UNCHANGED <<desktop, clicksLeft, owner, ownedByFx, outcome>>

Verify ==
  /\ step = "verify"
  /\ IF found.pid = owner THEN step' = "done" /\ result' = "ok" /\ UNCHANGED found ELSE Fails
  /\ UNCHANGED <<desktop, clicksLeft, owner, ownedByFx, outcome>>

-----------------------------------------------------------------------------
Capture == StartCapture \/ TakeObject \/ TakeError \/ TimesOut
Callback == Press \/ FindBridge \/ FindAgent \/ HitTest \/ Verify

Next == Desktop \/ Capture \/ Callback

Spec == Init /\ [][Next]_vars

-----------------------------------------------------------------------------
(* TechnologyRouter.route and RoutedCaptureService.capture as a function   *)
(* of what the adapters do.                                                *)

Kinds == {"rendered", "javafx", "java_agent", "atspi"}
Frameworks == {"unknown", "rendered", "javafx", "swing", "awt", "atspi"}
Targets == [pid : Apps \cup {Unknown}, hint : Frameworks, rendered : BOOLEAN, fx : SUBSET Apps, agents : SUBSET Apps]

Owner(t) ==
  IF t.rendered \/ t.hint = "rendered" THEN "rendered"
  ELSE IF t.pid \in t.fx THEN "javafx"
  ELSE IF t.pid \in t.agents THEN "java_agent"
  ELSE IF t.hint = "javafx" THEN "prohibited"
  ELSE "atspi"

Fallback(t, available) ==
  IF Owner(t) = "java_agent" /\ t.hint \in {"swing", "awt"} /\ "atspi" \in available
  THEN "atspi" ELSE "none"

(* own and other are the processes of the objects that the owning adapter  *)
(* and its fallback capture, or Failing. The owner may leave it unknown;   *)
(* what the fallback returns is not compared with the target.              *)
Failing == "failing"
Refused == [backend |-> "none", pid |-> Failing, authoritative |-> FALSE]

Routed(t, available, own, other) ==
  IF Owner(t) \notin available THEN Refused
  ELSE IF own # Failing
  THEN IF t.pid # Unknown /\ own \notin {t.pid, Unknown} THEN Refused
       ELSE [backend |-> Owner(t), pid |-> own, authoritative |-> TRUE]
  ELSE IF Fallback(t, available) = "none" \/ other = Failing THEN Refused
  ELSE [backend |-> Fallback(t, available), pid |-> other, authoritative |-> FALSE]

-----------------------------------------------------------------------------
(* Properties *)

TypeOK ==
  /\ top \in Pids /\ fx \subseteq Apps /\ agents \subseteq Apps
  /\ clicksLeft \in 0 .. MaxClicks /\ ownedByFx \in BOOLEAN /\ owner \in Pids
  /\ step \in {"idle", "listening", "bridges?", "agents?", "javafx", "java-agent", "atspi", "verify", "done"}
  /\ found \in [pid : Pids, backend : {"none", "javafx", "java-agent", "atspi"}]
  /\ result \in {"none", "ok", "error"} /\ outcome \in {"none", "captured", "failed"}

(* Whatever windows are raised and agents come and go during a capture, it *)
(* returns an object of the process that owned the press, which is never   *)
(* the harness, and never a substitute for a JavaFX target.                *)
OwnerIsCaptured ==
  outcome = "captured" =>
    /\ found.pid = owner /\ owner \in Apps
    /\ ownedByFx <=> found.backend = "javafx"

(* Routing follows the owner of the target: the object of a process with a *)
(* bridge comes from the bridge, that of a rendered surface from the agent *)
(* that renders it, and accessibility stands in for nothing but a failing  *)
(* agent of a Swing or AWT process.                                        *)
RoutedToOwner ==
  \A t \in Targets, available \in SUBSET Kinds, own, other \in Apps \cup {Unknown, Failing} :
    LET answer == Routed(t, available, own, other)
        rendered == t.rendered \/ t.hint = "rendered"
    IN answer # Refused =>
         /\ answer.backend \in available
         /\ t.pid \in t.fx /\ ~rendered => answer.backend = "javafx"
         /\ rendered => answer.backend = "rendered"
         /\ t.hint = "javafx" => answer.backend # "atspi"
         /\ t.pid \in t.agents /\ answer.backend = "atspi" => ~answer.authoritative /\ own = Failing
         /\ answer.authoritative /\ t.pid # Unknown => answer.pid \in {t.pid, Unknown}
=============================================================================
