--------------------------- MODULE ActionExecution ---------------------------
(***************************************************************************)
(* ComponentHandle.execute on a live desktop: the owning window is brought *)
(* to the foreground by WindowOrchestrator.ensure_foreground and the X11   *)
(* and JavaFX handshakes under it, the component is focused if the action  *)
(* needs it, and the action is dispatched through the component's          *)
(* strategies, while users and programs raise, open and close windows.     *)
(***************************************************************************)
EXTENDS Naturals, Sequences, FiniteSets

CONSTANTS
  Xids,                \* native window ids
  MaxActions           \* bound on the actions of a run

App == "app"           \* the tested process
Pids == {App, "other"}
Titles == {"main", "dialog"}   \* titles of the windows that own the components
None == "none"

(* "once" is a pointer click or a close, which are dispatched only once.   *)
Kinds == {"once", "popup item", "text", "select"}
Chains == {<<"javafx">>, <<"javafx", "atspi">>, <<"atspi">>}

(* "recycle": X11 may give the id of a closed window to a new one. "lost": *)
(* a backend may act although its caller is told that it failed.           *)
Faults == {"recycle", "lost"}

VARIABLES
  faults, display,     \* whether there is an X11 display to ask
  window,              \* each id: unused, gone, or its process and title
  active,              \* the id of the active window, or None
  actions,             \* how many actions were started
  kind, title, hinted, chain,  \* the current one; hinted: its locator names the window
  step,                \* idle, request, find, raised, confirm, focus, dispatch, done, failed
  identity,            \* the window title the handshake is about
  xid,                 \* the native window found for it
  last,                \* last_activation: its object and the native window
  effects,             \* how often the current action took effect
  proven               \* the target was active at some moment of the preparation

desktop == <<window, active>>
action == <<actions, kind, title, hinted, chain>>
vars == <<faults, display, window, active, actions, kind, title, hinted, chain, step, identity, xid, last, effects, proven>>

Win(p, t) == [pid |-> p, title |-> t]
Unused == Win(None, "unused")
Gone == Win(None, "gone")
Open(w) == {x \in DOMAIN w : w[x].pid # None}
Shows(w, a, t) == a # None /\ w[a] = Win(App, t)

Init ==
  /\ faults \in SUBSET Faults /\ display \in BOOLEAN
  /\ window = [x \in Xids |-> Unused] /\ active = None
  /\ actions = 0 /\ kind = "select" /\ title = "main" /\ hinted = TRUE /\ chain = <<>>
  /\ step = "idle" /\ identity = None /\ xid = None /\ last = [object |-> None, xid |-> None] /\ effects = 0 /\ proven = FALSE

-----------------------------------------------------------------------------
(* The desktop, while the outcome of an action may still depend on it *)

Desktop ==
  /\ step \notin {"done", "failed"} /\ (step = "idle" => actions < MaxActions)
  /\ \/ \E x \in Xids, p \in Pids, t \in Titles :
          /\ window[x] = Unused /\ (p = App \/ t = "main") /\ window' = [window EXCEPT ![x] = Win(p, t)]
          /\ active' \in {active, x}
     \/ \E x \in Open(window) :
          /\ window' = [window EXCEPT ![x] = IF "recycle" \in faults THEN Unused ELSE Gone]
          /\ active' = IF active = x THEN None ELSE active
     \/ active' \in Open(window) /\ UNCHANGED window
  /\ proven' = (proven \/ (step \notin {"idle", "dispatch"} /\ Shows(window', active', title)))
  /\ UNCHANGED <<faults, display, action, step, identity, xid, last, effects>>

-----------------------------------------------------------------------------
(* execute and prepare_for_interaction *)

Fail == step' = "failed" /\ UNCHANGED <<identity, xid, last>>

(* Popup items are not activated: raising their window would dismiss them. *)
Execute ==
  /\ step = "idle" /\ actions < MaxActions
  /\ actions' = actions + 1
  /\ kind' \in Kinds /\ title' \in Titles /\ hinted' \in BOOLEAN /\ chain' \in Chains
  /\ step' = IF kind' = "popup item" THEN "dispatch" ELSE "request"
  /\ effects' = 0 /\ identity' = None /\ xid' = None
  /\ proven' = Shows(window, active, title')
  /\ UNCHANGED <<faults, display, desktop, last>>

Prepared == IF kind = "text" THEN "focus" ELSE "dispatch"

(* Mutant: the last activation is reused without looking at the desktop. *)
Remembered == display /\ last.object = title /\ last.xid # None

(* The last activation holds if it was of this object and the native       *)
(* window it verified is the active one.                                   *)
Reusable == display /\ last.object = title /\ last.xid # None /\ active = last.xid

(* What the driver reports of the window that owns the component: JavaFX   *)
(* must find exactly one showing window with the hinted title among its    *)
(* JVMs, AT-SPI names the window of the accessible it matched.             *)
Owned == {x \in Open(window) : window[x] = Win(App, title)}
Javafx == Head(chain) = "javafx"

Request ==
  /\ \/ Fail
     \/ /\ Javafx /\ hinted => Cardinality(Owned) = 1
        /\ Owned # {}
        /\ identity' = title
        /\ \/ display /\ step' = "find"
           \/ ~display /\ Javafx /\ step' = "confirm"
           \/ ~Javafx /\ active \in Owned /\ step' = "prepared"
        /\ UNCHANGED <<xid, last>>

EnsureForeground ==
  /\ step = "request"
  /\ IF Reusable THEN step' = Prepared /\ UNCHANGED <<identity, xid, last>> ELSE Request
  /\ UNCHANGED <<faults, display, desktop, action, effects, proven>>

(* find_window: exactly one window with the process and title. A window    *)
(* manager that exposes none leaves it to the JavaFX stage, if that was    *)
(* found by its title.                                                     *)
FindWindow ==
  /\ step = "find"
  /\ LET found == {x \in Open(window) : window[x] = Win(App, identity)}
         foreign == {x \in Open(window) : window[x].title = identity} \ found
     IN CASE Cardinality(found) = 1 -> xid' \in found /\ step' = "raised"
          [] found = {} /\ foreign = {} /\ Javafx /\ hinted -> step' = "confirm" /\ UNCHANGED xid
          [] OTHER -> step' = "failed" /\ UNCHANGED xid
  /\ UNCHANGED <<faults, display, desktop, action, identity, last, effects, proven>>

Activated == last' = [object |-> title, xid |-> xid]

(* The window manager was asked to raise the window: Desktop may do so     *)
(* before the deadline of the poll.                                        *)
Raised ==
  /\ step = "raised"
  /\ \/ /\ active = xid
        /\ IF Javafx THEN step' = "confirm" /\ UNCHANGED last ELSE step' = Prepared /\ Activated
     \/ active # xid /\ step' = "failed" /\ UNCHANGED last
  /\ UNCHANGED <<faults, display, desktop, action, identity, xid, effects, proven>>

(* The stage must report focus itself, whatever X11 said, under the same   *)
(* process and title.                                                      *)
Confirm ==
  /\ step \in {"confirm", "prepared"}
  /\ \/ step = "prepared" /\ step' = Prepared /\ Activated
     \/ step = "confirm" /\ Shows(window, active, identity) /\ step' = Prepared /\ Activated
     \/ step = "confirm" /\ step' = "failed" /\ UNCHANGED last
  /\ UNCHANGED <<faults, display, desktop, action, identity, xid, effects, proven>>

Focus ==
  /\ step = "focus"
  /\ step' \in {"dispatch", "failed"}
  /\ UNCHANGED <<faults, display, desktop, action, identity, xid, last, effects, proven>>

-----------------------------------------------------------------------------
(* The dispatch: one click at the resolved bounds, or the first strategy   *)
(* that does not raise. Only a close stops at its first failure.           *)

Acts == effects' = effects + 1

(* Mutant: a close falls back like any other action. *)
NextStrategyAlways ==
  /\ chain' = Tail(chain)
  /\ step' = IF Len(chain) = 1 THEN "failed" ELSE "dispatch"

NextStrategy ==
  /\ chain' = Tail(chain)
  /\ step' = IF Len(chain) = 1 \/ kind \in {"once", "popup item"} THEN "failed" ELSE "dispatch"

Dispatch ==
  /\ step = "dispatch"
  /\ \/ Acts /\ step' = "done" /\ UNCHANGED chain
     \/ UNCHANGED effects /\ NextStrategy
     \/ "lost" \in faults /\ Acts /\ NextStrategy
  /\ UNCHANGED <<faults, display, desktop, actions, kind, title, hinted, identity, xid, last, proven>>

Ends ==
  /\ step \in {"done", "failed"}
  /\ step' = "idle" /\ identity' = None /\ xid' = None /\ effects' = 0 /\ proven' = FALSE
  /\ kind' = "select" /\ title' = "main" /\ hinted' = TRUE /\ chain' = <<>>
  /\ UNCHANGED <<faults, display, desktop, actions, last>>

-----------------------------------------------------------------------------
Handle == Execute \/ EnsureForeground \/ FindWindow \/ Raised \/ Confirm \/ Focus \/ Dispatch \/ Ends

Next == Desktop \/ Handle

Spec == Init /\ [][Next]_vars

-----------------------------------------------------------------------------
(* Properties *)

TypeOK ==
  /\ faults \subseteq Faults /\ display \in BOOLEAN /\ active \in Xids \cup {None} /\ actions \in 0 .. MaxActions
  /\ window \in [Xids -> {Unused, Gone} \cup [pid : Pids, title : Titles]]
  /\ kind \in Kinds /\ title \in Titles /\ hinted \in BOOLEAN /\ chain \in Chains \cup {<<>>}
  /\ step \in {"idle", "request", "find", "raised", "confirm", "prepared", "focus", "dispatch", "done", "failed"}
  /\ identity \in Titles \cup {None} /\ xid \in Xids \cup {None} /\ effects \in 0 .. 2 /\ proven \in BOOLEAN

(* No action is dispatched before the window that owns its component has   *)
(* been the active one during its own preparation, however windows are     *)
(* raised, replaced or closed under the handshake, unless X11 recycles the *)
(* id of the window the last activation was about.                         *)
ForegroundProven ==
  step \in {"dispatch", "done"} /\ kind # "popup item" /\ "recycle" \notin faults => proven

(* An action takes effect at most once, and a close even when the backend  *)
(* that closed the window reports a failure.                               *)
ActsOnce == (kind \in {"once", "popup item"} \/ "lost" \notin faults) => effects <= 1
=============================================================================
