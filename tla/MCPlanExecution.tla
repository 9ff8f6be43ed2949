-------------------------- MODULE MCPlanExecution --------------------------
(* A small instance: every plan of MCN steps over one variable v and one   *)
(* path nested in it, with at most one depends_on entry, at most MaxNeeds  *)
(* references and at most MaxBinds bound outputs.                          *)
EXTENDS PlanExecution, FiniteSets

CONSTANTS MaxDeps, MaxNeeds, MaxBinds

MCVars == {"v"}
MCPaths == {"v", "v.x"}
MCRootOf == [p \in MCPaths |-> "v"]

AtMost(S, k) == {T \in SUBSET S : Cardinality(T) <= k}

MCPlans ==
  {[deps  |-> [s \in Steps |-> {d \in 0 .. N : <<d, s>> \in D}],
    needs |-> [s \in Steps |-> {p \in MCPaths : <<p, s>> \in R}],
    binds |-> [s \in Steps |-> {v \in MCVars : <<v, s>> \in B}],
    given |-> G] :
      D \in AtMost((0 .. N) \X Steps, MaxDeps), R \in AtMost(MCPaths \X Steps, MaxNeeds),
      B \in AtMost(MCVars \X Steps, MaxBinds), G \in {{}, {"v"}, {"v", "v.x"}}}
=============================================================================
