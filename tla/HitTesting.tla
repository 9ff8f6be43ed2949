------------------------------ MODULE HitTesting ------------------------------
(***************************************************************************)
(* What lies under a point of the desktop: the walk of the accessibility   *)
(* tree in drivers/atspi_driver.py, which knows no stacking order and      *)
(* takes the smallest object, and that of the scene graphs in the JavaFX   *)
(* agent, where popups lie above the windows. Both then go from what is    *)
(* drawn to the object that is operated.                                   *)
(***************************************************************************)
EXTENDS Integers, Sequences, FiniteSets

CONSTANTS
  MaxObjects,          \* objects of the accessibility tree, the desktop included
  MaxWindows,          \* JavaFX windows
  MaxLayers            \* nodes of a JavaFX window

Objects == 1 .. MaxObjects
Desktop == 1
Nothing == 0

(* The area of an object whose bounds contain the point; others have       *)
(* bounds elsewhere, or none.                                              *)
Areas == {1, 2}
Elsewhere == 0
NoBounds == -1

(* What an object is: operated itself, drawn as part of another, a         *)
(* container of the window kind, or something else.                        *)
Roles == {"semantic", "presentation", "structural", "plain"}

(* A node of a JavaFX window: its area under the point or Elsewhere, which *)
(* also stands for an invisible one.                                       *)
Layers == UNION {[1 .. n -> {Elsewhere} \cup Areas] : n \in 0 .. MaxLayers}
Rank == [popup |-> 2, focused |-> 1, plain |-> 0]
Shown == [kind : DOMAIN Rank, nodes : Layers, showing : BOOLEAN]

VARIABLES
  framework,           \* of the walk
  parent, area, role,  \* the accessibility tree; children in the order of their numbers
  excluded,            \* applications of the harness: children of the desktop
  windows,             \* the JavaFX windows, in the order of getWindows
  hit, target,         \* what the walk found, and what is operated
  done

tree == <<parent, area, role, excluded>>
vars == <<framework, tree, windows, hit, target, done>>

AtspiInit ==
  /\ framework = "atspi" /\ windows = <<>>
  /\ parent \in [Objects -> 0 .. MaxObjects - 1]
  /\ \A n \in Objects : parent[n] < n /\ (parent[n] = 0 <=> n = Desktop)
  /\ area \in [Objects -> Areas \cup {Elsewhere, NoBounds}] /\ area[Desktop] \in {2, NoBounds}
  /\ role = [n \in Objects |-> "plain"]
  /\ excluded \in SUBSET {n \in Objects : parent[n] = Desktop}

JavaFxInit ==
  /\ framework = "javafx" /\ parent = <<>> /\ area = <<>> /\ role = <<>> /\ excluded = {}
  /\ windows \in UNION {[1 .. n -> Shown] : n \in 1 .. MaxWindows}

Init == (AtspiInit \/ JavaFxInit) /\ hit = Nothing /\ target = Nothing /\ done = FALSE

-----------------------------------------------------------------------------
(* AtspiDriver *)

ChildrenOf(n) == {c \in Objects : parent[c] = n}

(* min of a list in reverse child order: the last child of equal areas.    *)
Smallest(s) == CHOOSE n \in s : \A o \in s : area[n] < area[o] \/ (area[n] = area[o] /\ n >= o)

(* _deepest_at_point: an object without bounds is searched as well, and    *)
(* counts only for what is found in it; excluded applications are not      *)
(* searched.                                                               *)
Deepest[n \in Objects] ==
  LET deeper(c) == IF Deepest[c] = Nothing /\ area[c] \in Areas THEN c ELSE Deepest[c]
      matches == {deeper(c) : c \in {c \in ChildrenOf(n) : area[c] # Elsewhere}} \ {Nothing}
  IN IF n \in excluded THEN Nothing
     ELSE IF matches # {} THEN Smallest(matches)
     ELSE IF area[n] \in Areas THEN n ELSE Nothing

(* Mutant of AtspiHit: an object in a container without bounds is not      *)
(* found.                                                                  *)
DeepestInBounds[n \in Objects] ==
  LET matches == {IF DeepestInBounds[c] = Nothing THEN c ELSE DeepestInBounds[c] :
                    c \in {c \in ChildrenOf(n) : area[c] \in Areas}}
  IN IF n \in excluded THEN Nothing
     ELSE IF matches # {} THEN Smallest(matches)
     ELSE IF area[n] \in Areas THEN n ELSE Nothing

AtspiHitInBounds == DeepestInBounds[Desktop]

AtspiHit == Deepest[Desktop]

(* What an object is does not matter to the walk.                          *)
RolesOf ==
  {r \in [Objects -> Roles] :
     /\ r[Desktop] = "structural"
     /\ \A n \in Objects : area[n] = NoBounds => r[n] \in {"structural", "plain"}}

(* _semantic_accessible: what is drawn belongs to the nearest object that  *)
(* is operated, if none of the window kind comes before.                   *)
Operated(r, n) ==
  LET up[o \in 0 .. MaxObjects] ==
        IF o = 0 \/ r[o] = "structural" THEN Nothing ELSE IF r[o] = "semantic" THEN o ELSE up[parent[o]]
  IN IF r[n] = "presentation" /\ up[parent[n]] # Nothing THEN up[parent[n]] ELSE n

CaptureAccessible ==
  /\ framework = "atspi" /\ ~done /\ done' = TRUE
  /\ hit' = AtspiHit
  /\ \E r \in RolesOf :
       /\ role' = r
       /\ target' = IF AtspiHit = Nothing THEN Nothing ELSE Operated(r, AtspiHit)
  /\ UNCHANGED <<framework, parent, area, excluded, windows>>

-----------------------------------------------------------------------------
(* The JavaFX agent *)

(* The node of a window: the smallest, the last of those as small, which   *)
(* is drawn above or inside the others.                                    *)
WindowBest(w) ==
  LET under == {k \in DOMAIN w.nodes : w.nodes[k] \in Areas}
  IN IF under = {} THEN Nothing
     ELSE CHOOSE k \in under : \A o \in under : w.nodes[k] < w.nodes[o] \/ (w.nodes[k] = w.nodes[o] /\ k >= o)

(* Mutant of Better: the smallest node of all windows wins. *)
BetterBySize(w, best) ==
  best = Nothing \/ w.nodes[WindowBest(w)] <= windows[best].nodes[WindowBest(windows[best])]

Better(w, best) == best = Nothing \/ Rank[w.kind] >= Rank[windows[best].kind]

(* hitTest: the loop over the windows.                                     *)
BestWindow[i \in 0 .. Len(windows)] ==
  IF i = 0 THEN Nothing
  ELSE LET best == BestWindow[i - 1]
       IN IF windows[i].showing /\ WindowBest(windows[i]) # Nothing /\ Better(windows[i], best) THEN i ELSE best

CaptureNode ==
  /\ framework = "javafx" /\ ~done /\ done' = TRUE
  /\ target' = BestWindow[Len(windows)]
  /\ hit' = IF target' = Nothing THEN Nothing ELSE WindowBest(windows[target'])
  /\ UNCHANGED <<framework, tree, windows>>

-----------------------------------------------------------------------------
Next == CaptureAccessible \/ CaptureNode

Spec == Init /\ [][Next]_vars

-----------------------------------------------------------------------------
(* Properties *)

Chain[n \in Objects] == {n} \cup IF n = Desktop THEN {} ELSE Chain[parent[n]]

(* The objects that contain the point and can be reached: nothing on the   *)
(* way lies elsewhere or is excluded.                                      *)
Under ==
  {n \in Objects :
     area[n] \in Areas /\ \A a \in Chain[n] \ {n, Desktop} : area[a] # Elsewhere /\ a \notin excluded}
Leaves == {n \in Under : \A m \in Under \ {n} : n \notin Chain[m]}

(* A window that shows something at the point, and the nodes there.        *)
There ==
  {i \in DOMAIN windows :
     windows[i].showing /\ \E k \in DOMAIN windows[i].nodes : windows[i].nodes[k] \in Areas}

(* What is captured at a point is the smallest of the innermost objects    *)
(* there, whichever containers have no bounds of their own, and stands for *)
(* the nearest operated object around it, never for one beyond a window.   *)
(* In JavaFX it is in the uppermost window that shows something there: a   *)
(* popup hides the windows below it, and the focused one the others.       *)
HitIsOnTop ==
  /\ done /\ framework = "atspi" =>
       /\ hit = Nothing <=> Under = {}
       /\ hit # Nothing =>
            /\ hit \in Leaves /\ \A m \in Leaves : area[hit] <= area[m]
            /\ target \in Chain[hit]
            /\ \A o \in Chain[hit] \ Chain[target] : role[o] \notin {"semantic", "structural"}
            /\ target # hit => role[hit] = "presentation" /\ role[target] = "semantic"
  /\ done /\ framework = "javafx" =>
       /\ target = Nothing <=> There = {}
       /\ target # Nothing =>
            /\ target \in There /\ \A i \in There : Rank[windows[i].kind] <= Rank[windows[target].kind]
            /\ \A k \in DOMAIN windows[target].nodes :
                 windows[target].nodes[k] \in Areas => windows[target].nodes[hit] <= windows[target].nodes[k]
=============================================================================
