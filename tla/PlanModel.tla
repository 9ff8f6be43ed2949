------------------------------ MODULE PlanModel ------------------------------
(***************************************************************************)
(* The declarative test plan and the pure functions the runner computes    *)
(* from it: static validation (core/test_plan.py, validate_plan) and the   *)
(* readiness that ManagedExecutionQueue derives from the plan, the         *)
(* committed variables and the per-step statuses.                          *)
(*                                                                         *)
(* A step is its position in the authored order, a variable path is a      *)
(* member of Paths whose first segment is RootOf[path], and a set of       *)
(* variable values is abstracted to which paths resolve in it and which    *)
(* step wrote them.                                                        *)
(***************************************************************************)
EXTENDS Integers

CONSTANTS
  N,        (* number of authored steps                                    *)
  Vars,     (* top-level test-global variables                             *)
  Paths,    (* variable paths that plans refer to: the variables and paths *)
            (* nested inside their values                                  *)
  RootOf    (* first segment of each path                                  *)

ASSUME NAssumption == N \in Nat \ {0}
ASSUME PathsAssumption ==
  /\ Vars \subseteq Paths
  /\ RootOf \in [Paths -> Vars]
  /\ \A v \in Vars : RootOf[v] = v

Steps == 1 .. N
UnknownStep == 0              \* a depends_on entry that names no step
Initial == 0                  \* origin of a value of plan.variables
Absent == -1                  \* the path does not resolve
Origins == {Absent, Initial} \cup Steps

(***************************************************************************)
(* deps: depends_on; needs: the $var paths of inputs, scope and completion *)
(* contract; binds: the variables its outputs are routed to; given: the    *)
(* paths that resolve in plan.variables.                                   *)
(***************************************************************************)
PlanType ==
  [deps  : [Steps -> SUBSET (Steps \cup {UnknownStep})],
   needs : [Steps -> SUBSET Paths],
   binds : [Steps -> SUBSET Vars],
   given : SUBSET Paths]

InitialValues(plan) ==
  [p \in Paths |-> IF p \in plan.given THEN Initial ELSE Absent]

Resolves(values, p) == values[p] # Absent

-----------------------------------------------------------------------------
(* validate_plan *)

Producers(plan, v) == {s \in Steps : v \in plan.binds[s]}

DataEdge(plan, from, to) ==
  \E p \in plan.needs[to] \ plan.given : from \in Producers(plan, RootOf[p])

Edge(plan, from, to) == from \in plan.deps[to] \/ DataEdge(plan, from, to)

(* A graph has a cycle iff some non-empty set of nodes is closed under     *)
(* "has a predecessor in the set".                                         *)
Acyclic(plan) ==
  \A T \in SUBSET Steps \ {{}} : \E t \in T : \A s \in T : ~ Edge(plan, s, t)

Validated(plan) ==
  /\ \A s \in Steps : plan.deps[s] \subseteq Steps \ {s}
  /\ \A s \in Steps : \A p \in plan.needs[s] \ plan.given :
        \E q \in Steps \ {s} : Producers(plan, RootOf[p]) = {q}
  /\ Acyclic(plan)

-----------------------------------------------------------------------------
(* ManagedExecutionQueue *)

Status == {"pending", "blocked", "ready", "running", "passed", "failed",
           "skipped", "cancelled"}
Terminal == {"passed", "skipped", "cancelled"}   \* what ready() walks past

(* mutant: a blocked step stays blocked *)
SettledBlocked == Terminal \cup {"failed", "running", "blocked"}

Settled == Terminal \cup {"failed", "running"}   \* what recompute() leaves alone

Unblocked(plan, status, values, s) ==
  /\ \A p \in plan.needs[s] : Resolves(values, p)
  /\ \A d \in plan.deps[s] : d \in Steps /\ status[d] = "passed"

Recomputed(plan, status, values) ==
  [s \in Steps |->
     IF status[s] \in Settled THEN status[s]
     ELSE IF Unblocked(plan, status, values, s) THEN "ready" ELSE "blocked"]

(* mutant: a blocked step is skipped *)
IsHeadSkippingBlocked(status, s) ==
  /\ status[s] \notin Terminal
  /\ \A t \in Steps : t < s => status[t] \in Terminal \cup {"blocked"}

(* The first step in authored order that is not terminal; the queue offers *)
(* it when it is ready and otherwise offers nothing.                       *)
IsHead(status, s) ==
  /\ status[s] \notin Terminal
  /\ \A t \in Steps : t < s => status[t] \in Terminal

(* mutant: any ready step is offered *)
OfferedInAnyOrder(status, s) == status[s] = "ready"

Offered(status, s) == IsHead(status, s) /\ status[s] = "ready"

(* values after step s has bound its outputs, when the new values expose   *)
(* the paths in keys                                                       *)
Bound(plan, values, s, keys) ==
  [p \in Paths |-> IF RootOf[p] \notin plan.binds[s] THEN values[p]
                   ELSE IF p \in keys THEN s ELSE Absent]

=============================================================================
