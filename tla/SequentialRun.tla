---------------------------- MODULE SequentialRun ----------------------------
(***************************************************************************)
(* What a test run promises its author. GUI steps depend on the state the  *)
(* preceding ones left behind, so steps are dispatched one at a time, in   *)
(* authored order, each at most once, none after a step that did not pass, *)
(* and a verdict, once published, is final and tells the truth.            *)
(***************************************************************************)
EXTENDS Integers

CONSTANT N

VARIABLES
  dispatched,   \* steps handed to the target
  done,         \* steps that passed
  verdict       \* published exit code

runVars == <<dispatched, done, verdict>>

NoVerdict == -1

Init == dispatched = {} /\ done = {} /\ verdict = NoVerdict

Dispatch(s) ==
  /\ verdict = NoVerdict
  /\ done = 1 .. (s - 1) /\ dispatched = done
  /\ dispatched' = 1 .. s
  /\ UNCHANGED <<done, verdict>>

Pass(s) ==
  /\ verdict = NoVerdict
  /\ dispatched = 1 .. s /\ done = 1 .. (s - 1)
  /\ done' = dispatched
  /\ UNCHANGED <<dispatched, verdict>>

Publish(v) ==
  /\ verdict = NoVerdict
  /\ v = 0 => done = 1 .. N
  /\ v = 1 => dispatched # done
  /\ v = 2 => dispatched = done
  /\ verdict' = v
  /\ UNCHANGED <<dispatched, done>>

Next ==
  \/ \E s \in 1 .. N : Dispatch(s) \/ Pass(s)
  \/ \E v \in 0 .. 3 : Publish(v)

Spec == Init /\ [][Next]_runVars
=============================================================================
