---------------------------- MODULE ReusableSteps ----------------------------
(***************************************************************************)
(* Steps of a plan saved as a reusable step of a registry, invoked from    *)
(* plans and from other reusable steps, and expanded into the plan before  *)
(* it runs (core/reusable_step_expansion.py, reusable_extraction.py).      *)
(*                                                                         *)
(* A call has an identity and variables for its inputs and outputs. An     *)
(* expansion is a textual substitution: inner names are prefixed with the  *)
(* identity of the invocation, inputs are replaced by what was supplied    *)
(* and outputs by what they are bound to. What it should come to is a      *)
(* procedure call: inputs taken when the call begins, locals of its own,   *)
(* outputs handed back when it ends. Names are sequences, so that          *)
(* prefixing is concatenation; <<"=", x>> is the literal that the plan     *)
(* starts the variable x with. What a call does is left open: a plan means *)
(* which call wrote the value that every call reads.                       *)
(***************************************************************************)
EXTENDS Naturals, FiniteSets, SequencesExt, TLC

CONSTANTS
  PlanVars,    \* the variables of a plan
  Given,       \* the ones a plan may have a value for
  StepIds,     \* the ids under which reusable steps are saved
  MaxCalls,    \* bound: the calls of the first plan
  MaxSaves     \* bound: what is done with it

VARIABLES
  given,       \* the variables the plan has a value for before it runs
  calls,       \* the calls of the plan, in the order they run
  registry,    \* the reusable steps, by id
  was,         \* the calls before the last selection was replaced, or none
  saves        \* counter

vars == <<given, calls, registry, was, saves>>

None == <<>>
Literal(name) == <<"=", name>>
IsLiteral(value) == value # None /\ Head(value) = "="
Merged(f, g) == [x \in DOMAIN f \cup DOMAIN g |-> IF x \in DOMAIN f THEN f[x] ELSE g[x]]
Images(f) == {f[x] : x \in DOMAIN f}

Ids(cs) == {cs[i].id : i \in DOMAIN cs}
Read(cs) == UNION {{v \in Images(cs[i].ins) : ~IsLiteral(v)} : i \in DOMAIN cs}
Produced(cs) == UNION {Images(cs[i].outs) : i \in DOMAIN cs}

-----------------------------------------------------------------------------
(* Extraction: what the selection reads and nobody in it writes becomes an *)
(* input, with the plan's own value as its default; what it writes and     *)
(* somebody outside reads becomes an output.                               *)
Selected(cs, chosen) == SelectSeq(cs, LAMBDA c : c.id \in chosen)
Others(cs, chosen) == SelectSeq(cs, LAMBDA c : c.id \notin chosen)

Inputs(cs, chosen) ==
  Read(Selected(cs, chosen)) \ Produced(Selected(cs, chosen))
Outputs(cs, chosen) ==
  Produced(Selected(cs, chosen)) \cap Read(Others(cs, chosen))

Extract(cs, chosen, start) ==
  LET kept(c) == [c EXCEPT !.deps = @ \cap chosen]
      inner == Selected(cs, chosen)
  IN [calls |-> [i \in DOMAIN inner |-> kept(inner[i])],
      inputs |-> Inputs(cs, chosen),
      defaults |-> Inputs(cs, chosen) \cap start,
      outputs |-> Outputs(cs, chosen)]

-----------------------------------------------------------------------------
(* Expansion.                                                              *)
Namespace(prefix, name) == prefix \o name

(* An invocation that does not fit the contract of its step, which may     *)
(* have been saved anew since.                                             *)
Misfit(c, d) ==
  \/ ~(DOMAIN c.ins \subseteq d.inputs)
  \/ ~(DOMAIN c.outs \subseteq d.outputs)
  \/ ~(d.inputs \subseteq DOMAIN c.ins \cup d.defaults)

Supplied(c, d) == Merged(c.ins, [v \in d.defaults |-> Literal(v[1])])

(* Locals that keep their name in the plan.                                *)
RenamedOutside(c, d) ==
  Merged([v \in d.outputs \cap DOMAIN c.outs |-> c.outs[v]],
         [v \in Produced(d.calls) |-> v])

Renamed(c, d) ==
  Merged([v \in d.outputs \cap DOMAIN c.outs |-> c.outs[v]],
         [v \in Produced(d.calls) |-> Namespace(c.id, v)])

Substituted(c, d, value) ==
  IF value = None \/ IsLiteral(value) THEN value
  ELSE IF value \in DOMAIN Supplied(c, d) THEN Supplied(c, d)[value]
  ELSE IF value \in DOMAIN Renamed(c, d) THEN Renamed(c, d)[value]
  ELSE Namespace(c.id, value)

Instantiate(c, d) ==
  [i \in DOMAIN d.calls |->
     LET inner == d.calls[i] IN
     [inner EXCEPT
        !.id = Namespace(c.id, @),
        !.ins = [n \in DOMAIN @ |-> Substituted(c, d, @[n])],
        !.outs = [n \in DOMAIN @ |-> Renamed(c, d)[@[n]]],
        !.deps = IF @ = {} THEN c.deps ELSE {Namespace(c.id, n) : n \in @}]]

(* Only the last call, whatever else nothing waits for.                    *)
TerminalsLast(cs) == {cs[i].id : i \in {Len(cs)} \ {0}}

Terminals(cs) == Ids(cs) \ UNION {cs[i].deps : i \in DOMAIN cs}

(* Dependencies on an invocation become dependencies on its last calls.    *)
Redirected(cs, ends) ==
  [i \in DOMAIN cs |-> [cs[i] EXCEPT !.deps =
     UNION {IF n \in DOMAIN ends THEN ends[n] ELSE {n} : n \in @}]]

RECURSIVE Expansion(_, _, _)
Expansion(cs, steps, stack) ==
  LET one(acc, c) ==
        IF c.step \notin DOMAIN steps THEN [acc EXCEPT !.calls = Append(@, c)]
        ELSE IF c.step \in stack \/ Misfit(c, steps[c.step])
        THEN [acc EXCEPT !.ok = FALSE]
        ELSE LET inner == Expansion(Instantiate(c, steps[c.step]), steps,
                                    stack \cup {c.step})
                 done == Redirected(inner.calls, inner.ends)
             IN [calls |-> acc.calls \o done,
                 ends |-> Merged([n \in {c.id} |-> Terminals(done)], acc.ends),
                 ok |-> acc.ok /\ inner.ok]
  IN FoldLeft(one, [calls |-> <<>>, ends |-> <<>>, ok |-> TRUE], cs)

Expanded(cs, steps) ==
  LET all == Expansion(cs, steps, {}) IN Redirected(all.calls, all.ends)
Expands(cs, steps) == Expansion(cs, steps, {}).ok

(* The definitions a saved plan carries: the ones its calls reach.         *)
RECURSIVE Used(_, _, _)
Used(cs, steps, seen) ==
  LET found == {cs[i].step : i \in DOMAIN cs} \cap DOMAIN steps
  IN IF found \subseteq seen THEN seen
     ELSE UNION {Used(steps[s].calls, steps, seen \cup found) : s \in found}
Snapshot(cs, steps) == [s \in Used(cs, steps, {}) |-> steps[s]]

-----------------------------------------------------------------------------
(* What calls mean: who wrote what each of them reads, in the order they   *)
(* run, an invocation being a call of its step. Env holds the writers.     *)
ValueIn(env, v) == IF v = None \/ IsLiteral(v) THEN v
                   ELSE IF v \in DOMAIN env THEN env[v] ELSE <<"unset">>

RECURSIVE Called(_, _, _, _)
Called(cs, steps, path, env) ==
  LET args(acc, c) == [n \in DOMAIN c.ins |-> ValueIn(acc.env, c.ins[n])]
      plain(acc, c) ==
        [env |-> Merged([v \in Images(c.outs) |-> path \o c.id], acc.env),
         reads |-> Append(acc.reads, <<path \o c.id, args(acc, c)>>)]
      invoked(acc, c) ==
        LET d == steps[c.step]
            inner == Called(d.calls, steps, path \o c.id,
                            Merged(args(acc, c), [v \in d.defaults |-> Literal(v[1])]))
            handed == {o \in DOMAIN c.outs : o \in DOMAIN inner.env}
        IN [env |-> Merged([v \in {c.outs[o] : o \in handed} |->
                              inner.env[CHOOSE o \in handed : c.outs[o] = v]], acc.env),
            reads |-> acc.reads \o inner.reads]
  IN FoldLeft(LAMBDA acc, c : IF c.step \in DOMAIN steps THEN invoked(acc, c) ELSE plain(acc, c),
              [env |-> env, reads |-> <<>>], cs)

Start == [v \in given |-> Literal(v[1])]
Meaning(cs, steps) ==
  LET run == Called(cs, steps, <<>>, Start)
  IN [reads |-> run.reads,
      ends |-> [v \in {<<n>> : n \in PlanVars} |-> ValueIn(run.env, v)]]

(* Every call that must be over before the call n begins.                  *)
RECURSIVE Before(_, _)
Before(cs, n) ==
  LET direct == UNION {cs[i].deps : i \in {j \in DOMAIN cs : cs[j].id = n}}
  IN direct \cup UNION {Before(cs, m) : m \in direct}

-----------------------------------------------------------------------------
(* Where substitution and a call part: an output bound to a variable that  *)
(* is passed in as well, and a step that reads a variable before it writes *)
(* it.                                                                     *)
Straight(d) ==
  \A i, j \in DOMAIN d.calls :
    Images(d.calls[i].outs) \cap Read(<<d.calls[j]>>) # {} => i < j
Shares(c) == Images(c.ins) \cap Images(c.outs) # {}

RECURSIVE Apart(_, _)
Apart(cs, steps) ==
  \A i \in DOMAIN cs : cs[i].step \in DOMAIN steps =>
     /\ Straight(steps[cs[i].step]) /\ ~Shares(cs[i])
     /\ \A a, b \in DOMAIN cs[i].outs : cs[i].outs[a] = cs[i].outs[b] => a = b
     /\ Apart(Instantiate(cs[i], steps[cs[i].step]), steps)

-----------------------------------------------------------------------------
Call(n, step, ins, outs, deps) ==
  [id |-> n, step |-> step, ins |-> ins, outs |-> outs, deps |-> deps]
One(n) == <<n>>
Vars == {One(n) : n \in PlanVars}

(* Plans whose calls read and write at most one variable, none of which is *)
(* read by the call that writes it or written twice.                       *)
Plain(i, r, w, deps) ==
  Call(<<ToString(i)>>, "plain", IF r = None THEN <<>> ELSE One("in") :> r,
       IF w = None THEN <<>> ELSE One("out") :> w, deps)

FirstPlans ==
  LET slots == 1 .. MaxCalls
  IN {p \in {[i \in slots |-> Plain(i, r[i], w[i], d[i])] :
               r \in [slots -> Vars \cup {None}],
               w \in {f \in [slots -> Vars \cup {None}] :
                        \A i, j \in slots : f[i] = f[j] /\ f[i] # None => i = j},
               d \in {f \in [slots -> {{}} \cup {{<<ToString(i)>>} : i \in slots}] :
                        \A i \in slots : f[i] \subseteq {<<ToString(j)>> : j \in 1 .. i - 1}}} :
        \A i \in slots : \E used \in {Images(p[i].ins)} :
          /\ used \cup Images(p[i].outs) # {}
          /\ used \cap Images(p[i].outs) = {}}

Init ==
  /\ given \in SUBSET {<<n>> : n \in Given}
  /\ calls \in {p \in FirstPlans : Read(p) \subseteq given \cup Produced(p)}
  /\ registry = <<>> /\ was = None /\ saves = 0

Saving(step, chosen) ==
  registry' = Merged([s \in {step} |-> Extract(calls, chosen, given)], registry)

(* Save a selection as a reusable step, under a new id or one in use.      *)
Save(step, chosen) ==
  /\ Saving(step, chosen) /\ was' = None
  /\ UNCHANGED <<given, calls>>

NewId == <<"new" \o ToString(saves)>>

(* Save consecutive calls and put an invocation in their place, bound to   *)
(* the variables they used and waiting for what they waited for.           *)
Replace(step, chosen) ==
  LET new == Call(NewId, step, [v \in Inputs(calls, chosen) |-> v],
                  [v \in Outputs(calls, chosen) |-> v],
                  UNION {calls[i].deps : i \in {j \in DOMAIN calls : calls[j].id \in chosen}}
                    \ chosen)
      first == CHOOSE i \in DOMAIN calls :
                 calls[i].id \in chosen /\ \A j \in 1 .. i - 1 : calls[j].id \notin chosen
      left == Others(calls, chosen)
      moved == [i \in DOMAIN left |-> [left[i] EXCEPT !.deps =
                  (@ \ chosen) \cup (IF @ \cap chosen = {} THEN {} ELSE {NewId})]]
  IN /\ \A i \in DOMAIN calls :
          calls[i].id \in chosen => i < first + Cardinality(chosen)
     /\ step \notin DOMAIN registry \cup {calls[i].step : i \in DOMAIN calls}
     /\ Saving(step, chosen)
     /\ calls' = InsertAt(moved, first, new)
     /\ was' = calls
     /\ UNCHANGED given

(* Insert an invocation of a registry step after the last call: an input   *)
(* is a variable or the default it is proposed with, an output goes to a   *)
(* variable or nowhere.                                                    *)
Insert(step) ==
  LET d == registry[step] IN
  \E wanted \in SUBSET d.outputs :
  \E ins \in [d.inputs -> Vars \cup {Literal(v[1]) : v \in d.defaults}],
     outs \in [wanted -> Vars] :
    /\ \A v \in d.inputs : IsLiteral(ins[v]) => ins[v] = Literal(v[1])
    /\ calls' = Append(calls, Call(NewId, step, ins, outs, {}))
    /\ was' = None
    /\ UNCHANGED <<given, registry>>

(* Ids are only compared with each other: new ones are taken in an order.  *)
Unused == {s \in StepIds \ DOMAIN registry : s = CHOOSE t \in StepIds \ DOMAIN registry : TRUE}

Next ==
  /\ saves < MaxSaves /\ saves' = saves + 1
  /\ \/ \E step \in Unused \cup DOMAIN registry, chosen \in SUBSET Ids(calls) \ {{}} :
          Save(step, chosen) \/ Replace(step, chosen)
     \/ \E step \in DOMAIN registry : Insert(step)

Spec == Init /\ [][Next]_vars

-----------------------------------------------------------------------------
(* What is said of the plan, of its expansion and of what that means.      *)

(* An expanded plan means what the plan with its invocations means: no     *)
(* local is seen outside or mixed up with another invocation's, inputs and *)
(* outputs reach what they are bound to.                                   *)
ExpansionIsCall(meaning) ==
  Apart(calls, registry) => meaning = Meaning(calls, registry)

(* Replacing a selection by an invocation of the step made of it changes   *)
(* neither who wrote what the calls read nor what they wait for.           *)
Newest == calls[CHOOSE i \in DOMAIN calls : \A j \in DOMAIN was : was[j].id # calls[i].id]
Unwrapped(id) ==
  IF Len(id) > 1 /\ Head(id) = Newest.id[1] THEN Tail(id) ELSE id
ReplacedMeansTheSame(expanded, meaning) ==
  was # None /\ Expands(was, registry) /\ Apart(was, registry)
             /\ Straight(registry[Newest.step]) =>
    LET old == Expanded(was, registry)
        plain(args) == [n \in DOMAIN args |-> Unwrapped(args[n])]
    IN /\ [i \in DOMAIN meaning.reads |->
             <<Unwrapped(meaning.reads[i][1]), plain(meaning.reads[i][2])>>]
            = Meaning(old, <<>>).reads
       /\ \A n \in Ids(expanded) :
            Before(old, Unwrapped(n)) \subseteq {Unwrapped(m) : m \in Before(expanded, n)}

(* Saved with its snapshots, a plan runs without its project as within it. *)
SavedIsPortable(meaning) ==
  LET kept == Snapshot(calls, registry)
  IN Expands(calls, kept) /\ Meaning(Expanded(calls, kept), <<>>) = meaning

(* The three of a plan that expands, and a selection that could be saved   *)
(* and replaced in a plan that expanded leaves one that does.              *)
ReusableIsFaithful ==
  LET all == Expansion(calls, registry, {})
      expanded == Redirected(all.calls, all.ends)
      meaning == Meaning(expanded, <<>>)
  IN /\ was # None /\ Expands(was, registry) => all.ok
     /\ all.ok => /\ ExpansionIsCall(meaning)
                  /\ ReplacedMeansTheSame(expanded, meaning)
                  /\ SavedIsPortable(meaning)
=============================================================================
