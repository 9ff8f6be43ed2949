------------------------------- MODULE Locators -------------------------------
(***************************************************************************)
(* How a persisted locator finds its object. For JavaFX the driver pings   *)
(* the JVMs, asks each that answered to narrow its own nodes, merges the   *)
(* answers and then sends the action to one JVM, which resolves the        *)
(* locator again; a locator with a regular expression is narrowed by       *)
(* core/locator_matching instead. AT-SPI narrows one desktop tree.         *)
(***************************************************************************)
EXTENDS Naturals, FiniteSets

CONSTANT MaxNodes      \* nodes of the live trees

Nodes == 1 .. MaxNodes
Jvms == {1, 2}
Windows == {"a", "b"}
Ids == {"x", "y"}
Any == "any"           \* a criterion the locator does not have
Nobody == 0
NoOrdinal == MaxNodes + 1

(* Its mandatory part asks for the id "x", literally or by a regular       *)
(* expression; its assistive part may name a window and a text.            *)
LocatorSet == [regex : BOOLEAN, window : {Any, "a"}, text : {Any, "t"}, ordinal : {0, 1, NoOrdinal}]

VARIABLES
  backend,             \* javafx or atspi
  node,                \* the attributes of each node; nodes are in tree order
  live,                \* nodes in a showing window
  pinged,              \* JVMs that answer the ping within 0.5 s
  silent,              \* JVMs that answer no request after it
  locator,
  step,                \* find, act or done
  found,               \* the node of _find_unique
  target,              \* what the locator meant when it was resolved
  acted                \* the node the action reached

vars == <<backend, node, live, pinged, silent, locator, step, found, target, acted>>

Worlds == {w \in [Nodes -> [jvm : Jvms, window : Windows, id : Ids, text : {"t", "u"}]] :
             \A m, n \in Nodes : m < n => w[m].jvm <= w[n].jvm}

Init ==
  /\ backend \in {"javafx", "atspi"} /\ node \in Worlds /\ live = Nodes
  /\ pinged \in {{1}, Jvms} /\ silent \in {{}, {2}} /\ silent \subseteq pinged /\ locator \in LocatorSet
  /\ backend = "atspi" => pinged = Jvms /\ silent = {} /\ \A n \in Nodes : node[n].jvm = 1
  /\ step = "find" /\ found = Nobody /\ target = {} /\ acted = Nobody

-----------------------------------------------------------------------------
(* Narrowing *)

Named(ns) == {n \in ns : node[n].id = "x"}
InWindow(ns) == {n \in ns : locator.window \in {Any, node[n].window}}
WithText(ns) == {n \in ns : locator.text \in {Any, node[n].text}}
Means(ns) == WithText(InWindow(Named(ns)))

(* A hint that is not authoritative only disambiguates.                    *)
Unless1(ns, narrowed) == IF Cardinality(ns) <= 1 THEN ns ELSE narrowed

(* resolve in the agent: the window binds even a single match.             *)
AgentLeaves(ns) ==
  LET w == InWindow(Named(ns)) IN Unless1(w, WithText(w))

(* javafx_find_matches for a regular expression: the agents are asked for  *)
(* the exact part of the mandatory criteria only.                          *)
RegexLeaves(ns) ==
  LET m == Named(ns)
      w == Unless1(m, InWindow(m))
  IN Unless1(w, WithText(w))

(* _progressive_candidates *)
AtspiLeaves(ns) ==
  LET m == Named(ns)
      w == Unless1(m, InWindow(m))
  IN Unless1(w, WithText(w))

Of(jvm) == {n \in live : node[n].jvm = jvm}
Nth(ns, k) == {n \in ns : Cardinality({m \in ns : m < n}) = k}
Picked(ns) == IF Cardinality(ns) > 1 /\ locator.ordinal # NoOrdinal THEN Nth(ns, locator.ordinal) ELSE ns

-----------------------------------------------------------------------------
(* _find_matches and _find_unique *)

Scoped == locator.window # Any /\ ~locator.regex

(* endpoints(): a JVM that misses the ping is left out without a trace.    *)
Inspected == {n \in live : node[n].jvm \in pinged}

(* _endpoint_for_window: the JVMs that show a window of that title. *)
Owners == {j \in pinged : \E n \in Of(j) : node[n].window = locator.window}
Asked == IF Scoped THEN Owners ELSE pinged
OfScope(ns) == IF Scoped THEN InWindow(ns) ELSE ns

(* Mutant: a JVM that answered the ping and then fails is left out too. *)
JavafxFindsSomehow ==
  LET leaves == IF locator.regex THEN RegexLeaves({n \in Inspected : node[n].jvm \notin silent})
                ELSE UNION {OfScope(AgentLeaves(Of(j))) : j \in Asked \ silent}
  IN IF Scoped /\ Cardinality(Owners) # 1 THEN {} ELSE Picked(leaves)

(* Uniqueness needs the answer of every JVM that answered the ping.        *)
JavafxFinds ==
  LET leaves == IF locator.regex THEN RegexLeaves(Inspected)
                ELSE UNION {OfScope(AgentLeaves(Of(j))) : j \in Asked}
  IN IF silent # {} \/ (Scoped /\ Cardinality(Owners) # 1) THEN {} ELSE Picked(leaves)

Finds == IF backend = "javafx" THEN JavafxFinds ELSE Picked(AtspiLeaves(live))

Find ==
  /\ step = "find"
  /\ IF Cardinality(Finds) = 1
     THEN found' \in Finds /\ step' = "act" ELSE found' = Nobody /\ step' = "done"
  /\ target' = Means(IF backend = "javafx" THEN Inspected ELSE live)
  /\ UNCHANGED <<backend, node, live, pinged, silent, locator, acted>>

(* An object goes away before the action arrives. *)
Changes ==
  /\ step = "act" /\ \E n \in live : live' = live \ {n}
  /\ step' = "changed"
  /\ UNCHANGED <<backend, node, pinged, silent, locator, found, target, acted>>

(* The JVM of the node resolves the locator again among its own nodes; an  *)
(* expression was replaced by a reference to the node; AT-SPI acts on the  *)
(* accessible it found.                                                    *)
FoundAgain ==
  IF backend = "javafx" /\ ~locator.regex
  THEN Picked(AgentLeaves(Of(node[found].jvm))) ELSE {found} \cap live

Act ==
  /\ step \in {"act", "changed"}
  /\ acted' \in IF Cardinality(FoundAgain) = 1 THEN FoundAgain ELSE {Nobody}
  /\ step' = IF step = "act" THEN "done" ELSE "done late"
  /\ UNCHANGED <<backend, node, live, pinged, silent, locator, found, target>>

-----------------------------------------------------------------------------
Next == Find \/ Changes \/ Act

Spec == Init /\ [][Next]_vars

-----------------------------------------------------------------------------
(* Properties *)

TypeOK ==
  /\ backend \in {"javafx", "atspi"} /\ node \in Worlds /\ live \subseteq Nodes /\ locator \in LocatorSet
  /\ pinged \subseteq Jvms /\ silent \subseteq pinged /\ step \in {"find", "act", "changed", "done", "done late"}
  /\ found \in Nodes \cup {Nobody} /\ acted \in Nodes \cup {Nobody} /\ target \subseteq Nodes

(* A locator resolves only to a live object with its id, and without an    *)
(* ordinal only if no other object in the JVMs that answered the ping has  *)
(* all it asks for: a JVM that answers the ping and fails afterwards is an *)
(* error, never left out.                                                  *)
FoundIsMeant ==
  found # Nobody =>
    /\ node[found].id = "x"
    /\ locator.ordinal = NoOrdinal => target \subseteq {found}
    /\ Scoped /\ backend = "javafx" => node[found].window = locator.window

(* The action reaches the object that was found, if the tree did not       *)
(* change; after a change it may reach another, but of the window the      *)
(* locator names. (The JVM counts an ordinal among its own nodes, the      *)
(* driver among those of all JVMs: with one only for a named window.)      *)
ActsOnFound ==
  acted # Nobody =>
    /\ Scoped /\ backend = "javafx" => node[acted].window = locator.window
    /\ step = "done" /\ (locator.ordinal = NoOrdinal \/ Scoped \/ locator.regex \/ backend = "atspi")
         => acted = found

(* "Successful responses from other JVMs do not establish a unique         *)
(* identity when one endpoint could not be inspected": what is found       *)
(* without an ordinal is the only object of all JVMs, whether they         *)
(* answered the ping or not, that has what the locator asks for.           *)
UniqueInEveryJvm ==
  backend = "javafx" /\ step = "act" /\ locator.ordinal = NoOrdinal => Means(live) \subseteq {found}
=============================================================================
