------------------------------- MODULE StepCalls -------------------------------
(***************************************************************************)
(* Registered steps that run others in one test context: by name through   *)
(* the registry, or by calling the decorated function itself (core/        *)
(* step_registry.py, core/variables.py, core/script_steps.py). What a call *)
(* binds and where it leaves its result are context variables: a call      *)
(* through the registry sets and resets them, a direct one inherits them.  *)
(***************************************************************************)
EXTENDS Naturals, Sequences, FiniteSets, SequencesExt

CONSTANTS
  CallVars,           \* names of global variables
  MaxStepCalls,       \* bound on the calls of one context
  MaxChanges,         \* bound on what steps do to variables themselves
  MaxLogFaults        \* bound on failing writes of the evidence log

Registered == {"outer", "inner", "script", "far"}
Declared == [outer |-> {"all"}, inner |-> {"all", "field"}, script |-> {"field"}, far |-> {}]
Unavailable == {"far"}                \* steps that need a missing capability
Unknown == "unknown"
BadName == "bad.name"

VARIABLES
  stack,              \* the frames of the wrapped functions
  active,             \* _ACTIVE_OUTPUT_BINDINGS: pairs of an output and a variable
  capture,            \* _ACTIVE_INVOCATION_CAPTURE
  store,              \* VariableStore._values
  log,                \* the evidence of starts and ends
  made, changes, logFaults,
  outcomes,              \* how each call ended for  its caller
  commits             \* every transaction on the store

vars == <<stack, active, capture, store, log, made, changes, logFaults, outcomes, commits>>

-----------------------------------------------------------------------------
(* Values, bindings and the two context variables *)

(* Of a value its kind matters; "all" stands for the selector "$".         *)
Unset == "unset"
KindOf(output) == IF output = "all" THEN "mapping" ELSE "scalar"

NoCapture == [on |-> FALSE, entries |-> <<>>]
Collecting == [on |-> TRUE, entries |-> <<>>]
Entry(id, bindings) == [call |-> id, bindings |-> bindings]
NoEntry == Entry(0, {})

(* bind_outputs, undeclared outputs and invalid names included.            *)
Bindings ==
  {{}, {<<"all", BadName>>}} \cup {{b} : b \in {"all", "field"} \X CallVars}
    \cup {{<<"all", p[1]>>, <<"field", p[2]>>} : p \in {p \in CallVars \X CallVars : p[1] # p[2]}}

(* _validate_output_bindings *)
ValidBindings(s, bindings) ==
  \A b \in bindings : b[1] \in Declared[s] /\ b[2] # BadName

(* resolve_value: an argument is a literal or refers to a variable.        *)
Literal == "literal"
Misfit == "misfit"
Resolvable(arg) == arg \in CallVars => store[arg] # Unset
Passed(how, arg) ==
  IF how # "direct" /\ arg \in CallVars THEN store[arg] ELSE IF arg \in CallVars THEN "reference" ELSE "scalar"

Top == Last(stack)
Id == made + 1
Log(event, id) == Append(log, <<event, id>>)

Init ==
  /\ stack = <<>> /\ active = {} /\ capture = NoCapture
  /\ store = [v \in CallVars |-> Unset]
  /\ log = <<>> /\ made = 0 /\ changes = 0 /\ logFaults = 0
  /\ outcomes = <<>> /\ commits = {}

-----------------------------------------------------------------------------
(* Calling a step *)

(* What may call: a test, or the body of a step that is not a script.      *)
Caller == stack = <<>> \/ (stack # <<>> /\ Top.step # "script")

(* StepRegistry.get, _validate_output_bindings, resolve_value and, in the  *)
(* wrapper, the capabilities and the signature: all before the body.       *)
Refuses(how, s, bindings, arg) ==
  \/ how # "direct" /\ (s = Unknown \/ ~Resolvable(arg))
  \/ how # "direct" /\ s \in Registered /\ ~ValidBindings(s, bindings)
  \/ s \in Unavailable \/ arg = Misfit

Refused(how) ==
  /\ outcomes' = Append(outcomes, [how |-> how, result |-> "raised", entry |-> NoEntry])
  /\ UNCHANGED <<stack, active, capture, store, log, changes, logFaults, commits>>

(* Mutant: without bindings of its own a call keeps those of its caller.   *)
ActivatedIfAny(how, bindings) ==
  IF how = "direct" \/ bindings = {} THEN UNCHANGED <<active, capture>>
  ELSE active' = bindings /\ capture' = IF how = "detailed" THEN Collecting ELSE NoCapture

(* What a call through the registry makes active.                          *)
Activated(how, bindings) ==
  IF how = "direct" THEN UNCHANGED <<active, capture>>
  ELSE active' = bindings /\ capture' = IF how = "detailed" THEN Collecting ELSE NoCapture

Entered(how, s, bindings, arg) ==
  /\ Activated(how, bindings)
  /\ stack' = Append(stack, [id |-> Id, step |-> s, how |-> how, given |-> IF s = "script" THEN Passed(how, arg) ELSE Literal,
                             binds |-> bindings, active |-> active, capture |-> capture])
  /\ log' = Log("started", Id)
  /\ outcomes' = Append(outcomes, [how |-> how, result |-> "running", entry |-> NoEntry])
  /\ UNCHANGED <<store, changes, logFaults, commits>>

Call ==
  /\ Caller /\ made < MaxStepCalls /\ made' = Id
  /\ \E how \in {"direct", "plain", "detailed"}, s \in Registered \cup {Unknown} :
       LET requests == (IF how = "direct" THEN {{}} ELSE Bindings) \X (CallVars \cup {Literal, Misfit})
           wrong == {r \in requests : Refuses(how, s, r[1], r[2])}
       IN /\ how = "direct" => s # Unknown
          /\ \/ wrong # {} /\ Refused(how)
             \/ \E r \in requests \ wrong : Entered(how, s, r[1], r[2])

-----------------------------------------------------------------------------
(* The body of a step *)

(* VariableStore.set; update, append and extend refuse a value of another  *)
(* kind and create what is missing.                                        *)
Set(v, kind) == store' = [store EXCEPT ![v] = kind]
Grow(v, kind) == store[v] \in {Unset, kind} /\ Set(v, kind)

Change ==
  /\ stack # <<>> /\ Top.step # "script" /\ changes < MaxChanges /\ changes' = changes + 1
  /\ \E v \in CallVars : Set(v, "scalar") \/ \E kind \in {"mapping", "list"} : Grow(v, kind)
  /\ UNCHANGED <<stack, active, capture, log, made, logFaults, outcomes, commits>>

(* _materialize_inputs, _execute_script_step, _validate_outputs: a script  *)
(* is run with inputs of the declared type, and succeeds with exit code 0  *)
(* and exactly the declared outputs, of their types.                       *)
Answers == {"timeout", "no start", "exit code", "garbled", "undeclared", "missing", "mistyped", "exact"}
ScriptSucceeds(answer) == Top.given = "scalar" /\ answer = "exact"

-----------------------------------------------------------------------------
(* The end of a step *)

(* _select_output: "$" is the whole result, a field may be missing in it.  *)
Extracts(s, hasField) == "field" \in Declared[s] => hasField

(* Mutant: a call that fails leaves the context as it is.                  *)
RestoredOnSuccess(f, captured) ==
  IF f.how = "direct" \/ captured = capture THEN active' = active /\ capture' = captured
  ELSE active' = f.active /\ capture' = f.capture

(* The finally blocks of _invoke restore what was active before.           *)
Restored(f, captured) ==
  IF f.how = "direct" THEN active' = active /\ capture' = captured
  ELSE active' = f.active /\ capture' = f.capture

(* A detailed call hands out what was captured, if it is one result.       *)
Outcome(f, finished, captured) ==
  IF ~finished \/ (f.how = "detailed" /\ Len(captured.entries) # 1)
  THEN [how |-> f.how, result |-> "raised", entry |-> NoEntry]
  ELSE [how |-> f.how, result |-> "returned",
        entry |-> IF f.how = "detailed" THEN captured.entries[1] ELSE NoEntry]

Leave(f, finished, captured) ==
  /\ stack' = Front(stack)
  /\ Restored(f, captured)
  /\ outcomes' = [outcomes EXCEPT ![f.id] = Outcome(f, finished, captured)]

(* The body, the extraction or the binding of what it returned fails: the  *)
(* store keeps what it has.                                                *)
Fails(f) ==
  /\ Leave(f, FALSE, capture)
  /\ log' = Log("failed", f.id)
  /\ UNCHANGED <<store, commits, logFaults>>

(* set_many_atomic *)
Commit(f) ==
  /\ store' = [v \in CallVars |-> IF \E b \in active : b[2] = v
                                   THEN KindOf((CHOOSE b \in active : b[2] = v)[1]) ELSE store[v]]
  /\ commits' = IF active = {} THEN commits
                ELSE commits \cup {[by |-> f.id, step |-> f.step, bindings |-> active]}

Captured(f) ==
  IF capture.on THEN [capture EXCEPT !.entries = Append(@, Entry(f.id, active))] ELSE capture

(* The log fails after the commit: the step fails with its outputs bound.  *)
LogFails(f) ==
  /\ logFaults < MaxLogFaults /\ logFaults' = logFaults + 1
  /\ Commit(f)
  /\ \E captured \in {capture, Captured(f)} : Leave(f, FALSE, captured)
  /\ log' = Log("failed", f.id)

Finishes(f) ==
  /\ Commit(f)
  /\ Leave(f, TRUE, Captured(f))
  /\ log' = Log("finished", f.id)
  /\ UNCHANGED logFaults

Return ==
  /\ stack # <<>> /\ Top.step # "script"
  /\ \E hasField \in BOOLEAN :
       IF Extracts(Top.step, hasField) /\ ValidBindings(Top.step, active)
       THEN Finishes(Top) \/ LogFails(Top) ELSE Fails(Top)
  /\ UNCHANGED <<made, changes>>

(* The body raises, or does not catch what a step it called raised.        *)
Raise ==
  /\ stack # <<>> /\ Top.step # "script" /\ Fails(Top)
  /\ UNCHANGED <<made, changes>>

Script ==
  /\ stack # <<>> /\ Top.step = "script"
  /\ \E answer \in Answers :
       IF ScriptSucceeds(answer) /\ ValidBindings("script", active)
       THEN Finishes(Top) \/ LogFails(Top) ELSE Fails(Top)
  /\ UNCHANGED <<made, changes>>

Next == Call \/ Change \/ Return \/ Raise \/ Script
Spec == Init /\ [][Next]_vars

-----------------------------------------------------------------------------
(* Properties *)

Innermost ==
  LET through == {i \in DOMAIN stack : stack[i].how # "direct"} IN
  IF through = {} THEN 0 ELSE CHOOSE i \in through : \A j \in through : j <= i

(* What is active is what the innermost call through the registry asked    *)
(* for, however the calls before it ended; outside calls nothing is (the     *)
(* tokens that StepRegistry._invoke resets).                               *)
ContextIsInnermost ==
  IF Innermost = 0 THEN active = {} /\ capture = NoCapture
  ELSE LET f == stack[Innermost] IN active = f.binds /\ capture.on = (f.how = "detailed")

(* Every transaction binds outputs its step declares and is the only one   *)
(* of its call, which did not fail before it (test_step_transaction: a     *)
(* failing step binds nothing). A failure after it is one of the log, or   *)
(* of a detailed call that captured more than one result.                  *)
CommitsAreWhole ==
  \A c \in commits :
    /\ ValidBindings(c.step, c.bindings)
    /\ \A d \in commits : d.by = c.by => d = c
    /\ logFaults = 0 => <<"finished", c.by>> \in ToSet(log)

(* What a detailed call returns is its own result with the bindings it     *)
(* asked for, also when steps it called failed or were called directly     *)
(* (StepInvocationResult).                                                 *)
ReturnedIsOwn ==
  \A id \in DOMAIN outcomes :
    outcomes[id].how = "detailed" /\ outcomes[id].result = "returned" =>
      /\ outcomes[id].entry.call = id
      /\ outcomes[id].entry.bindings # {} =>
           \E c \in commits : c.by = id /\ c.bindings = outcomes[id].entry.bindings

(* Between its start and its one end in the log a step contains those of   *)
(* the steps it called; none starts inside it that ends after it.          *)
LogIsNested ==
  \A i, j \in DOMAIN log :
    i < j /\ log[i][2] = log[j][2] =>
      /\ log[i][1] = "started" /\ log[j][1] # "started"
      /\ \A k \in i .. j : \E l \in i .. j : l # k /\ log[l][2] = log[k][2]

InvocationsAreTransactions ==
  ContextIsInnermost /\ CommitsAreWhole /\ ReturnedIsOwn /\ LogIsNested

(* "Direct imports remain supported" (core/step_registry.py:280): a        *)
(* detailed call whose step finished returns, whichever way the step used  *)
(* others.                                                                 *)
FinishedReturns ==
  \A id \in DOMAIN outcomes : <<"finished", id>> \in ToSet(log) => outcomes[id].result = "returned"
=============================================================================
