----------------------------- MODULE MCComponents -----------------------------
(***************************************************************************)
(* Components that share no variables, checked side by side: a behaviour   *)
(* belongs to one of them, "part", and leaves the variables of the others  *)
(* alone. Nothing is assumed of how the parts meet: each is checked        *)
(* against everything its neighbours may do.                               *)
(***************************************************************************)
EXTENDS Naturals

CONSTANTS
  Endpoints, MaxCaptures, MaxClicks,
  MaxSelections, Apps, Xids, MaxActions, MaxNodes,
  Comps, PoolSize, MaxRequests, MaxChanges,
  Timeouts, Stabilities, Resolutions, Interval, MaxFlips, MaxLate,
  MaxStages, MaxSceneChanges, MaxAttempts, MaxItems, MaxMenuChanges,
  Components, MaxScreenEvents, MaxObjects, MaxWindows, MaxLayers, MaxPicks, MaxRelabels

(* What X11 answers for "no window" is not the id of one.                  *)
ASSUME XidsAssumption == "none" \notin Xids

(* The words for what is not a component of the application are no names   *)
(* of one.                                                                 *)
ASSUME ComponentsAssumption ==
  Components \cap {"frame", "harness", "dialog", "nothing", "defunct", "none", "timeout", "error"} = {}

(* Durations are counted in ticks.                                         *)
ASSUME DurationsAssumption ==
  /\ Timeouts \subseteq Nat /\ Stabilities \subseteq Nat /\ Resolutions \subseteq Nat
  /\ Interval \in Nat /\ MaxLate \in Nat

(* Bounds of runs are counts.                                              *)
ASSUME BoundsAssumption ==
  MaxSelections \in Nat /\ MaxNodes \in Nat /\ MaxRequests \in Nat /\ MaxStages \in Nat /\ MaxItems \in Nat

VARIABLES
  part, faults, driver, results, remaining, outcome, request, caught,
  claimed, clicks, selection, phase, queue, pending, dispatches, observing,
  observed, finished, broken, fired, seen, top, fx, agents, clicksLeft,
  step, owner, ownedByFx, found, result, display, window, active, actions,
  kind, title, hinted, chain, identity, xid, last, effects, proven, backend,
  node, live, pinged, silent, locator, target, acted, wait, there, now, deadline,
  resolveBy, wake, stableSince, pc, flips, late, since, falseAt, running,
  slow, asked, todo, answer, component, edt, dialogs, shown, changes, scene,
  call, heard, owners, failures, chosen, attempts, jobs, refused, bar, sub,
  recorded, op, walked, listed, partial, defunct, rejected, before, during,
  state, listening, focused, baseline, changed, handling, clicked, first,
  strayed, events, framework, parent, area, role, excluded, windows, hit,
  done, menu, inventory, snapshot, interactions, steps, replayed, picks,
  relabels, worn

Clicks == INSTANCE NextClick
Menu == INSTANCE MenuClick
Routing == INSTANCE CaptureRouting
Action == INSTANCE ActionExecution
Locator == INSTANCE Locators
Wait == INSTANCE Waiting
Swing == INSTANCE SwingActions
Fx == INSTANCE JavaFxActions
Bus == INSTANCE AtspiActions
BusClick == INSTANCE AtspiClick
Hits == INSTANCE HitTesting
Menus == INSTANCE RecordedMenus

(* The variables that only one part has, and their value in the others.    *)
Absent == 0

onlyClicks == <<driver, results, remaining, caught, claimed, clicks>>
NoClicks ==
  /\ driver = Absent /\ results = Absent /\ remaining = Absent
  /\ caught = Absent /\ claimed = Absent /\ clicks = Absent

onlyMenu == <<selection, pending, dispatches, observing, observed, finished, broken,
  fired>>
NoMenu ==
  /\ selection = Absent /\ pending = Absent /\ dispatches = Absent
  /\ observing = Absent /\ observed = Absent /\ finished = Absent
  /\ broken = Absent /\ fired = Absent

onlyRouting == <<top, fx, agents, clicksLeft, owner, ownedByFx, result>>
NoRouting ==
  /\ top = Absent /\ fx = Absent /\ agents = Absent /\ clicksLeft = Absent
  /\ owner = Absent /\ ownedByFx = Absent /\ result = Absent

onlyAction == <<display, active, actions, title, hinted, chain, identity, xid, last,
  proven>>
NoAction ==
  /\ display = Absent /\ active = Absent /\ actions = Absent
  /\ title = Absent /\ hinted = Absent /\ chain = Absent /\ identity = Absent
  /\ xid = Absent /\ last = Absent /\ proven = Absent

onlyLocator == <<backend, node, live, pinged, silent, locator, acted>>
NoLocator ==
  /\ backend = Absent /\ node = Absent /\ live = Absent /\ pinged = Absent /\ silent = Absent
  /\ locator = Absent /\ acted = Absent

onlyWait == <<wait, there, now, deadline, resolveBy, wake, stableSince, pc, flips,
  since, falseAt>>
NoWait ==
  /\ wait = Absent /\ there = Absent /\ now = Absent /\ deadline = Absent
  /\ resolveBy = Absent /\ wake = Absent /\ stableSince = Absent
  /\ pc = Absent /\ flips = Absent /\ since = Absent /\ falseAt = Absent

onlySwing == <<running, asked, component, edt, dialogs, shown>>
NoSwing ==
  /\ running = Absent /\ asked = Absent /\ component = Absent /\ edt = Absent
  /\ dialogs = Absent /\ shown = Absent

onlyFx == <<scene, call, heard, owners, failures, chosen, attempts, jobs, refused>>
NoFx ==
  /\ scene = Absent /\ call = Absent /\ heard = Absent /\ owners = Absent /\ failures = Absent
  /\ chosen = Absent /\ attempts = Absent /\ jobs = Absent
  /\ refused = Absent

onlyBus == <<bar, sub, recorded, op, walked, listed, partial, defunct, rejected,
  before, during>>
NoBus ==
  /\ bar = Absent /\ sub = Absent /\ recorded = Absent /\ op = Absent
  /\ walked = Absent /\ listed = Absent /\ partial = Absent /\ defunct = Absent
  /\ rejected = Absent /\ before = Absent /\ during = Absent

onlyBusClick == <<state, listening, focused, baseline, changed, handling, clicked,
  first, strayed, events>>
NoBusClick ==
  /\ state = Absent /\ listening = Absent /\ focused = Absent
  /\ baseline = Absent /\ changed = Absent /\ handling = Absent
  /\ clicked = Absent /\ first = Absent /\ strayed = Absent
  /\ events = Absent

onlyHits == <<framework, parent, area, role, excluded, windows, hit, done>>
NoHits ==
  /\ framework = Absent /\ parent = Absent /\ area = Absent /\ role = Absent
  /\ excluded = Absent /\ windows = Absent /\ hit = Absent /\ done = Absent

onlyMenus == <<menu, inventory, snapshot, interactions, steps, replayed, picks,
  relabels, worn>>
NoMenus ==
  /\ menu = Absent /\ inventory = Absent /\ snapshot = Absent
  /\ interactions = Absent /\ steps = Absent /\ replayed = Absent
  /\ picks = Absent /\ relabels = Absent /\ worn = Absent

Init ==
  \/ part = "next click" /\ Clicks!Init
     /\ NoMenu /\ NoRouting /\ NoAction /\ NoLocator /\ NoWait /\ NoSwing
     /\ NoFx /\ NoBus /\ NoBusClick /\ NoHits /\ NoMenus /\ phase = Absent
     /\ queue = Absent /\ seen = Absent /\ step = Absent /\ found = Absent
     /\ window = Absent /\ kind = Absent /\ effects = Absent
     /\ target = Absent /\ late = Absent /\ slow = Absent /\ todo = Absent
     /\ answer = Absent /\ changes = Absent
  \/ part = "menu" /\ Menu!Init
     /\ NoClicks /\ NoRouting /\ NoAction /\ NoLocator /\ NoWait /\ NoSwing
     /\ NoFx /\ NoBus /\ NoBusClick /\ NoHits /\ NoMenus /\ request = Absent
     /\ step = Absent /\ found = Absent /\ window = Absent /\ kind = Absent
     /\ effects = Absent /\ target = Absent /\ late = Absent
     /\ slow = Absent /\ todo = Absent /\ answer = Absent
     /\ changes = Absent
  \/ part = "capture" /\ Routing!Init
     /\ NoClicks /\ NoMenu /\ NoAction /\ NoLocator /\ NoWait /\ NoSwing
     /\ NoFx /\ NoBus /\ NoBusClick /\ NoHits /\ NoMenus /\ faults = Absent
     /\ request = Absent /\ phase = Absent /\ queue = Absent
     /\ seen = Absent /\ window = Absent /\ kind = Absent
     /\ effects = Absent /\ target = Absent /\ late = Absent
     /\ slow = Absent /\ todo = Absent /\ answer = Absent
     /\ changes = Absent
  \/ part = "action" /\ Action!Init
     /\ NoClicks /\ NoMenu /\ NoRouting /\ NoLocator /\ NoWait /\ NoSwing
     /\ NoFx /\ NoBus /\ NoBusClick /\ NoHits /\ NoMenus /\ outcome = Absent
     /\ request = Absent /\ phase = Absent /\ queue = Absent
     /\ seen = Absent /\ found = Absent /\ target = Absent /\ late = Absent
     /\ slow = Absent /\ todo = Absent /\ answer = Absent
     /\ changes = Absent
  \/ part = "locator" /\ Locator!Init
     /\ NoClicks /\ NoMenu /\ NoRouting /\ NoAction /\ NoWait /\ NoSwing
     /\ NoFx /\ NoBus /\ NoBusClick /\ NoHits /\ NoMenus /\ faults = Absent
     /\ outcome = Absent /\ request = Absent /\ phase = Absent
     /\ queue = Absent /\ seen = Absent /\ window = Absent /\ kind = Absent
     /\ effects = Absent /\ late = Absent /\ slow = Absent /\ todo = Absent
     /\ answer = Absent /\ changes = Absent
  \/ part = "waiting" /\ Wait!Init
     /\ NoClicks /\ NoMenu /\ NoRouting /\ NoAction /\ NoLocator /\ NoSwing
     /\ NoFx /\ NoBus /\ NoBusClick /\ NoHits /\ NoMenus /\ faults = Absent
     /\ request = Absent /\ phase = Absent /\ queue = Absent
     /\ step = Absent /\ found = Absent /\ window = Absent /\ kind = Absent
     /\ effects = Absent /\ target = Absent /\ slow = Absent
     /\ todo = Absent /\ answer = Absent /\ changes = Absent
  \/ part = "swing" /\ Swing!Init
     /\ NoClicks /\ NoMenu /\ NoRouting /\ NoAction /\ NoLocator /\ NoWait
     /\ NoFx /\ NoBus /\ NoBusClick /\ NoHits /\ NoMenus /\ faults = Absent
     /\ phase = Absent /\ queue = Absent /\ seen = Absent /\ step = Absent
     /\ found = Absent /\ window = Absent /\ target = Absent
  \/ part = "fx action" /\ Fx!Init
     /\ NoClicks /\ NoMenu /\ NoRouting /\ NoAction /\ NoLocator /\ NoWait
     /\ NoSwing /\ NoBus /\ NoBusClick /\ NoHits /\ NoMenus
     /\ faults = Absent /\ request = Absent /\ queue = Absent
     /\ seen = Absent /\ step = Absent /\ window = Absent /\ kind = Absent
     /\ target = Absent
  \/ part = "bus action" /\ Bus!Init
     /\ NoClicks /\ NoMenu /\ NoRouting /\ NoAction /\ NoLocator /\ NoWait
     /\ NoSwing /\ NoFx /\ NoBusClick /\ NoHits /\ NoMenus
     /\ faults = Absent /\ request = Absent /\ queue = Absent
     /\ seen = Absent /\ step = Absent /\ found = Absent /\ kind = Absent
     /\ target = Absent /\ late = Absent /\ slow = Absent /\ todo = Absent
     /\ answer = Absent /\ changes = Absent
  \/ part = "bus click" /\ BusClick!Init
     /\ NoClicks /\ NoMenu /\ NoRouting /\ NoAction /\ NoLocator /\ NoWait
     /\ NoSwing /\ NoFx /\ NoBus /\ NoHits /\ NoMenus /\ faults = Absent
     /\ request = Absent /\ phase = Absent /\ seen = Absent /\ step = Absent
     /\ found = Absent /\ window = Absent /\ kind = Absent
     /\ effects = Absent /\ target = Absent /\ late = Absent
     /\ slow = Absent /\ todo = Absent /\ answer = Absent
     /\ changes = Absent
  \/ part = "hit" /\ Hits!Init
     /\ NoClicks /\ NoMenu /\ NoRouting /\ NoAction /\ NoLocator /\ NoWait
     /\ NoSwing /\ NoFx /\ NoBus /\ NoBusClick /\ NoMenus /\ faults = Absent
     /\ outcome = Absent /\ request = Absent /\ phase = Absent
     /\ queue = Absent /\ seen = Absent /\ step = Absent /\ found = Absent
     /\ window = Absent /\ kind = Absent /\ effects = Absent
     /\ late = Absent /\ slow = Absent /\ todo = Absent /\ answer = Absent
     /\ changes = Absent
  \/ part = "menus recorded" /\ Menus!Init
     /\ NoClicks /\ NoMenu /\ NoRouting /\ NoAction /\ NoLocator /\ NoWait
     /\ NoSwing /\ NoFx /\ NoBus /\ NoBusClick /\ NoHits /\ faults = Absent
     /\ outcome = Absent /\ request = Absent /\ phase = Absent
     /\ queue = Absent /\ seen = Absent /\ step = Absent /\ found = Absent
     /\ window = Absent /\ kind = Absent /\ effects = Absent
     /\ target = Absent /\ late = Absent /\ slow = Absent /\ todo = Absent
     /\ answer = Absent /\ changes = Absent

Next ==
  /\ UNCHANGED part
  /\ \/ part = "next click" /\ Clicks!Next
        /\ UNCHANGED <<onlyMenu, onlyRouting, onlyAction, onlyLocator, onlyWait,
             onlySwing, onlyFx, onlyBus, onlyBusClick, onlyHits, onlyMenus,
             phase, queue, seen, step, found, window, kind, effects, target,
             late, slow, todo, answer, changes>>
     \/ part = "menu" /\ Menu!Next
        /\ UNCHANGED <<onlyClicks, onlyRouting, onlyAction, onlyLocator, onlyWait,
             onlySwing, onlyFx, onlyBus, onlyBusClick, onlyHits, onlyMenus,
             request, step, found, window, kind, effects, target, late, slow,
             todo, answer, changes>>
     \/ part = "capture" /\ Routing!Next
        /\ UNCHANGED <<onlyClicks, onlyMenu, onlyAction, onlyLocator, onlyWait,
             onlySwing, onlyFx, onlyBus, onlyBusClick, onlyHits, onlyMenus,
             faults, request, phase, queue, seen, window, kind, effects,
             target, late, slow, todo, answer, changes>>
     \/ part = "action" /\ Action!Next
        /\ UNCHANGED <<onlyClicks, onlyMenu, onlyRouting, onlyLocator, onlyWait,
             onlySwing, onlyFx, onlyBus, onlyBusClick, onlyHits, onlyMenus,
             outcome, request, phase, queue, seen, found, target, late, slow,
             todo, answer, changes>>
     \/ part = "locator" /\ Locator!Next
        /\ UNCHANGED <<onlyClicks, onlyMenu, onlyRouting, onlyAction, onlyWait,
             onlySwing, onlyFx, onlyBus, onlyBusClick, onlyHits, onlyMenus,
             faults, outcome, request, phase, queue, seen, window, kind,
             effects, late, slow, todo, answer, changes>>
     \/ part = "waiting" /\ Wait!Next
        /\ UNCHANGED <<onlyClicks, onlyMenu, onlyRouting, onlyAction, onlyLocator,
             onlySwing, onlyFx, onlyBus, onlyBusClick, onlyHits, onlyMenus,
             faults, request, phase, queue, step, found, window, kind,
             effects, target, slow, todo, answer, changes>>
     \/ part = "swing" /\ Swing!Next
        /\ UNCHANGED <<onlyClicks, onlyMenu, onlyRouting, onlyAction, onlyLocator,
             onlyWait, onlyFx, onlyBus, onlyBusClick, onlyHits, onlyMenus,
             faults, phase, queue, seen, step, found, window, target>>
     \/ part = "fx action" /\ Fx!Next
        /\ UNCHANGED <<onlyClicks, onlyMenu, onlyRouting, onlyAction, onlyLocator,
             onlyWait, onlySwing, onlyBus, onlyBusClick, onlyHits, onlyMenus,
             faults, request, queue, seen, step, window, kind, target>>
     \/ part = "bus action" /\ Bus!Next
        /\ UNCHANGED <<onlyClicks, onlyMenu, onlyRouting, onlyAction, onlyLocator,
             onlyWait, onlySwing, onlyFx, onlyBusClick, onlyHits, onlyMenus,
             faults, request, queue, seen, step, found, kind, target, late,
             slow, todo, answer, changes>>
     \/ part = "bus click" /\ BusClick!Next
        /\ UNCHANGED <<onlyClicks, onlyMenu, onlyRouting, onlyAction, onlyLocator,
             onlyWait, onlySwing, onlyFx, onlyBus, onlyHits, onlyMenus,
             faults, request, phase, seen, step, found, window, kind,
             effects, target, late, slow, todo, answer, changes>>
     \/ part = "hit" /\ Hits!Next
        /\ UNCHANGED <<onlyClicks, onlyMenu, onlyRouting, onlyAction, onlyLocator,
             onlyWait, onlySwing, onlyFx, onlyBus, onlyBusClick, onlyMenus,
             faults, outcome, request, phase, queue, seen, step, found,
             window, kind, effects, late, slow, todo, answer, changes>>
     \/ part = "menus recorded" /\ Menus!Next
        /\ UNCHANGED <<onlyClicks, onlyMenu, onlyRouting, onlyAction, onlyLocator,
             onlyWait, onlySwing, onlyFx, onlyBus, onlyBusClick, onlyHits,
             faults, outcome, request, phase, queue, seen, step, found,
             window, kind, effects, target, late, slow, todo, answer, changes>>

vars == <<part, onlyClicks, onlyMenu, onlyRouting, onlyAction, onlyLocator,
          onlyWait, onlySwing, onlyFx, onlyBus, onlyBusClick, onlyHits,
          onlyMenus, faults, outcome, request, phase, queue, seen, step,
          found, window, kind, effects, target, late, slow, todo, answer,
          changes>>

Spec == Init /\ [][Next]_vars

-----------------------------------------------------------------------------
(* What is replayed for a recorded menu selection is the item that was     *)
(* selected (see RecordedMenus).                                           *)
ReplaysRecorded == part = "menus recorded" => Menus!ReplaysRecorded

(* One selection of a menu item fires at most one action (see MenuClick).  *)
SelectedOnce == part = "menu" => Menu!SelectedOnce

(* A JVM is claimed only while a request of its own holds the claim, and   *)
(* no capture returns a click of another one (see NextClick). A click is   *)
(* routed to, and captured from, the process that owned it (see            *)
(* CaptureRouting). On the accessibility bus the first event that counts   *)
(* decides (see AtspiClick), and what is captured at a point is on top     *)
(* there (see HitTesting).                                                 *)
CapturesOwnClick ==
  /\ part = "next click" => Clicks!ClaimIsHeld /\ Clicks!CapturedWhileWaiting
  /\ part = "capture" => Routing!OwnerIsCaptured /\ (Routing!Init => Routing!RoutedToOwner)
  /\ part = "bus click" => BusClick!CapturesClicked
  /\ part = "hit" => Hits!HitIsOnTop

(* No action without its window in the foreground, none that takes effect  *)
(* twice (see ActionExecution).                                            *)
ActsProvenAndOnce == part = "action" => Action!ForegroundProven /\ Action!ActsOnce

(* A wait succeeds, and ends, only when it may (see Waiting).              *)
WaitsAreHonest == part = "waiting" => Wait!WaitsAreHonest

(* A locator finds the object it means in the JVMs that answered the ping, *)
(* and acts on it (see Locators).                                          *)
FoundIsMeant == part = "locator" => Locator!FoundIsMeant /\ Locator!ActsOnFound

(* A call of a driver acted if it reports success, on the object it means, *)
(* in one application and once, and did not if it failed in time (see      *)
(* SwingActions, JavaFxActions and AtspiActions for what each promises).   *)
CallsAreTrue ==
  /\ part = "swing" => Swing!CallsAreTrue
  /\ part = "fx action" => Fx!FxCallIsTrue
  /\ part = "bus action" => Bus!AtspiCallIsTrue
=============================================================================
