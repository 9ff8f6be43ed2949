------------------------ MODULE PlanExecutionProofs ------------------------
(***************************************************************************)
(* Theorems about PlanExecution for every number of steps, every variable  *)
(* space and every set of plans.                                           *)
(***************************************************************************)
EXTENDS PlanExecution, TLAPS

(* Values written by a step are origins; readiness values are statuses.    *)
LEMMA BoundType ==
  ASSUME NEW pl \in PlanType, NEW values \in [Paths -> Origins],
         NEW s \in Steps, NEW keys
  PROVE  Bound(pl, values, s, keys) \in [Paths -> Origins]
BY DEF Bound, Origins

LEMMA RecomputedType ==
  ASSUME NEW pl, NEW st \in [Steps -> Status], NEW values
  PROVE  Recomputed(pl, st, values) \in [Steps -> Status]
BY DEF Recomputed, Status, Settled, Terminal

LEMMA InitialType ==
  ASSUME NEW pl \in PlanType
  PROVE  InitialValues(pl) \in [Paths -> Origins]
BY DEF InitialValues, Origins

(* cur names a step wherever the executor works on one.                    *)
AtStep == {"writeStarted", "invoke", "await", "commit", "record",
           "writePassed", "failing", "writeFailed"}
CurIsStep == pc \in AtStep => cur \in Steps

TInv == TypeOK /\ CurIsStep

LEMMA InitTInv == Init => TInv
<1> SUFFICES ASSUME Init PROVE TInv
  OBVIOUS
<1>1. plan \in PlanType
  BY PlansAssumption DEF Init
<1>2. globals \in [Paths -> Origins] /\ qvars \in [Paths -> Origins]
  BY <1>1, InitialType DEF Init
<1>3. status \in [Steps -> Status] /\ attempts \in [Steps -> Nat]
  BY DEF Init, Status
<1>4. /\ events \in [Steps -> Status \cup {NotRecorded}]
      /\ file \in [Steps -> Status \cup {NotRecorded}]
  BY DEF Init
<1> QED
  BY <1>1, <1>2, <1>3, <1>4
  DEF Init, TInv, TypeOK, CurIsStep, AtStep, Labels, InTry, Stopped, Exits

LEMMA NextTInv == TInv /\ [Next]_vars => TInv'
<1> SUFFICES ASSUME TInv, [Next]_vars PROVE TInv'
  OBVIOUS
<1> USE DEF TInv, TypeOK, CurIsStep, AtStep, Labels, InTry, Stopped, Exits,
            queueVars, resultVars, diskVars, Abort, NoExit
<1>1. CASE Reject        BY <1>1 DEF Reject
<1>2. CASE Qualify       BY <1>2, RecomputedType DEF Qualify
<1>3. CASE StartBackend  BY <1>3 DEF StartBackend
<1>4. CASE HealthCheck   BY <1>4 DEF HealthCheck
<1>5. CASE WriteExecutionState
  BY <1>5 DEF WriteExecutionState, AfterWrite
<1>6. ASSUME NEW s \in Steps, StartStep(s) PROVE TInv'
  <2>1. status' \in [Steps -> Status] /\ events' \in [Steps -> Status \cup {NotRecorded}]
    BY <1>6 DEF StartStep, Status
  <2>2. attempts' \in [Steps -> Nat]
    BY <1>6 DEF StartStep
  <2> QED BY <1>6, <2>1, <2>2 DEF StartStep
<1>7. ASSUME NEW s \in Steps, ResolveFails(s) PROVE TInv'
  BY <1>7 DEF ResolveFails
<1>8. CASE NothingOffered BY <1>8 DEF NothingOffered
<1>9. CASE StepRaises     BY <1>9 DEF StepRaises
<1>10. ASSUME NEW keys \in SUBSET Paths, StepBinds(keys) PROVE TInv'
  <2>1. globals' \in [Paths -> Origins]
    BY <1>10, BoundType DEF StepBinds
  <2> QED BY <1>10, <2>1 DEF StepBinds
<1>11. CASE AwaitCompletion BY <1>11 DEF AwaitCompletion
<1>12. CASE CompleteStep
  <2>1. [status EXCEPT ![cur] = "passed"] \in [Steps -> Status]
    BY DEF Status
  <2>2. status' \in [Steps -> Status]
    BY <1>12, <2>1, RecomputedType DEF CompleteStep
  <2>3. qvars' \in [Paths -> Origins] /\ passed' \in Nat
    BY <1>12 DEF CompleteStep
  <2> QED BY <1>12, <2>2, <2>3 DEF CompleteStep
<1>13. CASE RecordFinished
  <2>1. events' \in [Steps -> Status \cup {NotRecorded}]
    BY <1>13 DEF RecordFinished, Status
  <2> QED BY <1>13, <2>1 DEF RecordFinished
<1>14. CASE FailStep
  <2>1. [status EXCEPT ![cur] = "failed"] \in [Steps -> Status]
    BY DEF Status
  <2>2. status' \in [Steps -> Status]
    BY <1>14, <2>1, RecomputedType DEF FailStep
  <2>3. events' \in [Steps -> Status \cup {NotRecorded}]
    BY <1>14 DEF FailStep, Status
  <2>4. failed' \in Nat /\ exit' \in Exits /\ pc' \in Labels
    BY <1>14 DEF FailStep
  <2> QED BY <1>14, <2>2, <2>3, <2>4 DEF FailStep
<1>15. CASE FailRaises  BY <1>15 DEF FailRaises
<1>16. CASE Verdict     BY <1>16 DEF Verdict
<1>17. CASE StopBackend BY <1>17 DEF StopBackend
<1>18. CASE Finalize    BY <1>18 DEF Finalize
<1>19. CASE Interrupt   BY <1>19 DEF Interrupt
<1>20. CASE Crash       BY <1>20 DEF Crash
<1>21. CASE UNCHANGED vars BY <1>21 DEF vars
<1> QED
  BY <1>1, <1>2, <1>3, <1>4, <1>5, <1>6, <1>7, <1>8, <1>9, <1>10, <1>11,
     <1>12, <1>13, <1>14, <1>15, <1>16, <1>17, <1>18, <1>19, <1>20, <1>21
  DEF Next, Progress, Terminated

(* Type correctness, for every plan set.                                   *)
THEOREM TypeCorrect == Spec => []TypeOK
<1>1. TInv => TypeOK  BY DEF TInv
<1> QED BY InitTInv, NextTInv, <1>1, PTL DEF Spec

-----------------------------------------------------------------------------
(***************************************************************************)
(* The step loop. Steps are taken up in authored order, once each; the     *)
(* passed ones are a prefix, which the run's counter measures.             *)
(***************************************************************************)
Touched == {"running", "passed", "failed"}
NoneActive == \A s \in Steps : status[s] \notin {"running", "failed"}

OrderInv ==
  /\ \A s \in Steps : status[s] \notin {"skipped", "cancelled"}
  /\ \A s \in Steps : status[s] \in Touched =>
       \A t \in Steps : t < s => status[t] = "passed"
  /\ \A s \in Steps : attempts[s] = IF status[s] \in Touched THEN 1 ELSE 0

CountInv ==
  /\ passed \in 0 .. N
  /\ \A s \in Steps : status[s] = "passed" <=> s <= passed
  /\ failed # 0 => \E s \in Steps : status[s] = "failed"

(* What is known at each point of execute_plan about the current step, the *)
(* exit code and a pending interrupt.                                      *)
BeforeStep == {"starting", "health", "writeInitial", "loop"}
Executing == {"writeStarted", "invoke", "await", "commit"}
AfterStep == {"record", "writePassed"}

PhaseInv ==
  /\ pc = "qualify" => \A s \in Steps : status[s] = "pending"
  /\ pc \in {"qualify"} \cup BeforeStep => NoneActive /\ exit = NoExit
  /\ pc \in Executing => status[cur] = "running" /\ exit = NoExit
  /\ pc \in AfterStep => status[cur] = "passed" /\ NoneActive /\ exit = NoExit
  /\ pc = "failing" => /\ exit = NoExit
                       /\ status[cur] = "running" \/ (status[cur] = "passed" /\ NoneActive)
  /\ pc = "writeFailed" => status[cur] = "failed" /\ exit = 1
  /\ pc = "verdict" => IF exit = NoExit THEN NoneActive
                       ELSE exit = 1 /\ \E s \in Steps : status[s] = "failed"
  /\ pc = "stopping" /\ ~ interrupted => exit # NoExit
  /\ pc = "finalize" => exit # NoExit
  /\ interrupted => pc = "stopping" \/ pc \in Stopped

ExitInv ==
  /\ exit = 0 => \A s \in Steps : status[s] = "passed"
  /\ exit = 1 => \E s \in Steps : status[s] = "failed"
  /\ exit = 2 => NoneActive
  /\ runJson # NoExit => runJson = exit /\ pc \in {"done", "escaped"}

SeqInv == TInv /\ OrderInv /\ CountInv /\ PhaseInv /\ ExitInv

(* Recomputing leaves settled steps alone and decides every other one.     *)
LEMMA RecomputedAt ==
  ASSUME NEW pl, NEW st, NEW values, NEW s \in Steps
  PROVE  /\ st[s] \in Settled => Recomputed(pl, st, values)[s] = st[s]
         /\ st[s] \notin Settled =>
              Recomputed(pl, st, values)[s] \in {"ready", "blocked"}
BY DEF Recomputed

LEMMA InitSeqInv == Init => SeqInv
<1> SUFFICES ASSUME Init PROVE SeqInv
  OBVIOUS
<1>1. TInv BY InitTInv
<1>2. \A s \in Steps : status[s] = "pending" /\ attempts[s] = 0
  BY DEF Init
<1>3. CountInv
  BY <1>2, NAssumption DEF Init, CountInv, Steps
<1> QED
  BY <1>1, <1>2, <1>3
  DEF Init, SeqInv, OrderInv, PhaseInv, ExitInv, Touched, NoneActive, NoExit,
      BeforeStep, Executing, AfterStep, Stopped

(* What an action that leaves the queue alone preserves.                   *)
LEMMA QueueKept ==
  ASSUME SeqInv, UNCHANGED <<status, attempts, passed, failed>>
  PROVE  OrderInv' /\ CountInv' /\ (NoneActive' <=> NoneActive)
BY DEF SeqInv, OrderInv, CountInv, NoneActive

(* A step the queue offers has only passed steps before it.                *)
LEMMA OfferedStep ==
  ASSUME SeqInv, NEW s \in Steps, Offered(status, s)
  PROVE  /\ status[s] = "ready"
         /\ \A t \in Steps : t < s => status[t] = "passed"
<1>1. \A t \in Steps : t < s => status[t] \in Terminal
  BY DEF Offered, IsHead
<1> QED BY <1>1 DEF SeqInv, OrderInv, Offered, Terminal

(* While a step runs it is the only active one, and the passed steps are   *)
(* those before it.                                                        *)
LEMMA RunningStep ==
  ASSUME SeqInv, NEW c \in Steps, status[c] = "running"
  PROVE  /\ c = passed + 1
         /\ \A t \in Steps : status[t] \in Touched => t <= c
         /\ \A t \in Steps : status[t] \in {"running", "failed"} => t = c
<1>1. \A t \in Steps : t < c => status[t] = "passed"
  BY DEF SeqInv, OrderInv, Touched
<1>2. \A t \in Steps : status[t] \in Touched => t <= c
  <2> SUFFICES ASSUME NEW t \in Steps, status[t] \in Touched, c < t PROVE FALSE
    BY DEF Steps
  <2>1. status[c] = "passed" BY DEF SeqInv, OrderInv
  <2> QED BY <2>1
<1>3. passed \in Nat /\ passed <= N /\ c > passed
  BY DEF SeqInv, CountInv, Steps
<1>4. ~ (passed + 1 < c)
  <2> SUFFICES ASSUME passed + 1 < c PROVE FALSE
    OBVIOUS
  <2>1. passed + 1 \in Steps BY <1>3, NAssumption DEF Steps
  <2>2. status[passed + 1] = "passed" BY <1>1, <2>1
  <2>3. passed + 1 <= passed BY <2>1, <2>2 DEF SeqInv, CountInv
  <2> QED BY <2>3, <1>3
<1>5. c = passed + 1 BY <1>3, <1>4 DEF Steps
<1>6. \A t \in Steps : status[t] \in {"running", "failed"} => t = c
  <2> SUFFICES ASSUME NEW t \in Steps, status[t] \in {"running", "failed"}
               PROVE  t = c
    OBVIOUS
  <2>1. t <= c BY <1>2 DEF Touched
  <2>2. ~ (t < c) BY <1>1
  <2> QED BY <2>1, <2>2 DEF Steps
<1> QED BY <1>2, <1>5, <1>6

LEMMA StartStepSeq ==
  ASSUME SeqInv, TInv', NEW s \in Steps, StartStep(s)
  PROVE  SeqInv'
<1>1. /\ pc = "loop" /\ cur' = s /\ NoneActive /\ exit = NoExit
      /\ status' = [status EXCEPT ![s] = "running"]
      /\ attempts' = [attempts EXCEPT ![s] = @ + 1]
      /\ UNCHANGED <<passed, failed, runJson, interrupted>>
      /\ \/ pc' = "writeStarted" /\ exit' = exit
         \/ pc' = "stopping" /\ exit' = 3
  BY DEF StartStep, Abort, SeqInv, PhaseInv, BeforeStep
<1>2. /\ status \in [Steps -> Status] /\ attempts \in [Steps -> Nat]
      /\ status[s] = "ready" /\ \A t \in Steps : t < s => status[t] = "passed"
  BY OfferedStep DEF StartStep, SeqInv, TInv, TypeOK
<1>3. \A t \in Steps : status'[t] = IF t = s THEN "running" ELSE status[t]
  BY <1>1, <1>2
<1>4. OrderInv'
  <2>1. \A t \in Steps : attempts'[t] = IF status'[t] \in Touched THEN 1 ELSE 0
    <3>1. attempts[s] = 0
      BY <1>2 DEF SeqInv, OrderInv, Touched
    <3>2. attempts'[s] = 1 /\ \A t \in Steps \ {s} : attempts'[t] = attempts[t]
      BY <1>1, <1>2, <3>1
    <3> QED BY <1>3, <3>2 DEF SeqInv, OrderInv, Touched
  <2>2. \A t \in Steps : status'[t] \in Touched =>
          \A r \in Steps : r < t => status'[r] = "passed"
    BY <1>2, <1>3 DEF SeqInv, OrderInv, Touched
  <2> QED BY <1>3, <2>1, <2>2 DEF SeqInv, OrderInv
<1>5. CountInv'
  BY <1>1, <1>2, <1>3 DEF SeqInv, CountInv
<1>6. PhaseInv'
  BY <1>1, <1>3 DEF SeqInv, PhaseInv, BeforeStep, Executing, AfterStep, NoExit, Stopped
<1>7. ExitInv'
  BY <1>1 DEF SeqInv, ExitInv, NoExit, Stopped
<1> QED BY <1>4, <1>5, <1>6, <1>7 DEF SeqInv

(* queue.complete and queue.fail settle the running step c and recompute   *)
(* the others.                                                             *)
LEMMA SettleSeq ==
  ASSUME SeqInv, NEW c \in Steps, status[c] = "running",
         NEW verdict \in {"passed", "failed"}, NEW values,
         status' = Recomputed(plan, [status EXCEPT ![c] = verdict], values)
  PROVE  /\ status'[c] = verdict
         /\ \A t \in Steps \ {c} :
                /\ status[t] = "passed" <=> status'[t] = "passed"
                /\ status'[t] \notin {"running", "failed"}
                /\ status'[t] \notin {"skipped", "cancelled"}
         /\ \A t \in Steps : status'[t] \in Touched =>
              \A r \in Steps : r < t => status'[r] = "passed"
         /\ \A t \in Steps : status[t] \in Touched <=> status'[t] \in Touched
<1>1. PICK st : st = [status EXCEPT ![c] = verdict]
  OBVIOUS
<1>2. st[c] = verdict /\ \A t \in Steps \ {c} : st[t] = status[t]
  BY <1>1 DEF SeqInv, TInv, TypeOK
<1>3. \A t \in Steps :
        /\ st[t] \in Settled => status'[t] = st[t]
        /\ st[t] \notin Settled => status'[t] \in {"ready", "blocked"}
  <2>1. status' = Recomputed(plan, st, values) BY <1>1
  <2> QED BY <2>1, RecomputedAt
<1>4. status'[c] = verdict
  <2>1. verdict \in Settled BY DEF Settled, Terminal
  <2> QED BY <1>2, <1>3, <2>1
<1>5. \A t \in Steps \ {c} :
          /\ status[t] \notin {"running", "failed"}
          /\ status[t] \notin {"skipped", "cancelled"}
  BY RunningStep DEF SeqInv, OrderInv
<1>6. \A t \in Steps \ {c} :
          /\ status[t] = "passed" <=> status'[t] = "passed"
          /\ status'[t] \notin {"running", "failed"}
          /\ status'[t] \notin {"skipped", "cancelled"}
  <2> SUFFICES ASSUME NEW t \in Steps, t # c
               PROVE  /\ status[t] = "passed" <=> status'[t] = "passed"
                      /\ status'[t] \notin {"running", "failed"}
                      /\ status'[t] \notin {"skipped", "cancelled"}
    OBVIOUS
  <2>1. st[t] = status[t] BY <1>2
  <2>2. CASE status[t] = "passed"
    <3>1. status'[t] = "passed" BY <1>3, <2>1, <2>2 DEF Settled, Terminal
    <3> QED BY <3>1, <2>2
  <2>3. CASE status[t] # "passed"
    <3>1. st[t] \notin Settled BY <1>5, <2>1, <2>3 DEF Settled, Terminal
    <3>2. status'[t] \in {"ready", "blocked"} BY <1>3, <3>1
    <3> QED BY <3>2, <2>3
  <2> QED BY <2>2, <2>3
<1>7. \A t \in Steps : status[t] \in Touched <=> status'[t] \in Touched
  BY <1>4, <1>5, <1>6 DEF Touched
<1>8. \A t \in Steps : status'[t] \in Touched =>
        \A r \in Steps : r < t => status'[r] = "passed"
  <2> SUFFICES ASSUME NEW t \in Steps, status'[t] \in Touched,
                      NEW r \in Steps, r < t
               PROVE  status'[r] = "passed"
    OBVIOUS
  <2>1. status[r] = "passed" BY <1>7 DEF SeqInv, OrderInv
  <2> QED BY <2>1, <1>6
<1> QED BY <1>4, <1>6, <1>7, <1>8

LEMMA CompleteStepSeq == ASSUME SeqInv, TInv', CompleteStep PROVE SeqInv'
<1>1. /\ pc = "commit" /\ pc' = "record" /\ cur' = cur /\ cur \in Steps
      /\ status[cur] = "running" /\ exit = NoExit /\ exit' = exit
      /\ passed' = passed + 1
      /\ UNCHANGED <<attempts, failed, runJson, interrupted>>
  BY DEF CompleteStep, diskVars, SeqInv, PhaseInv, Executing, TInv, CurIsStep, AtStep
<1>2. status' = Recomputed(plan, [status EXCEPT ![cur] = "passed"], Staged)
  BY DEF CompleteStep
<1>3. /\ status'[cur] = "passed"
      /\ \A t \in Steps \ {cur} :
             /\ status[t] = "passed" <=> status'[t] = "passed"
             /\ status'[t] \notin {"running", "failed"}
             /\ status'[t] \notin {"skipped", "cancelled"}
      /\ \A t \in Steps : status'[t] \in Touched =>
              \A r \in Steps : r < t => status'[r] = "passed"
      /\ \A t \in Steps : status[t] \in Touched <=> status'[t] \in Touched
  BY <1>1, <1>2, SettleSeq
<1>4. OrderInv'
  BY <1>1, <1>3 DEF SeqInv, OrderInv
<1>5. NoneActive'
  BY <1>1, <1>3 DEF NoneActive
<1>6. CountInv'
  <2>1. cur = passed + 1 BY <1>1, RunningStep
  <2>2. passed \in Nat /\ passed' = cur /\ passed' \in 0 .. N
    BY <1>1, <2>1 DEF SeqInv, CountInv, Steps
  <2>3. \A s \in Steps : status'[s] = "passed" <=> s <= passed'
    BY <1>3, <2>1, <2>2 DEF SeqInv, CountInv, Steps
  <2>4. failed = 0
    BY <1>1, RunningStep DEF SeqInv, CountInv
  <2> QED BY <1>1, <2>2, <2>3, <2>4 DEF CountInv
<1>7. PhaseInv'
  BY <1>1, <1>3, <1>5 DEF SeqInv, PhaseInv, BeforeStep, Executing, AfterStep, NoExit, Stopped
<1>8. ExitInv'
  BY <1>1 DEF SeqInv, ExitInv, NoExit, Stopped
<1> QED BY <1>4, <1>6, <1>7, <1>8 DEF SeqInv

LEMMA FailStepSeq == ASSUME SeqInv, TInv', FailStep PROVE SeqInv'
<1>1. /\ pc = "failing" /\ cur' = cur /\ cur \in Steps
      /\ status[cur] = "running" /\ exit = NoExit
      /\ \/ pc' = "writeFailed" /\ exit' = 1
         \/ pc' = "stopping" /\ exit' = 3
      /\ UNCHANGED <<passed, attempts, runJson, interrupted>>
  BY DEF FailStep, Abort, SeqInv, PhaseInv, TInv, CurIsStep, AtStep
<1>2. status' = Recomputed(plan, [status EXCEPT ![cur] = "failed"], qvars)
  BY DEF FailStep
<1>3. /\ status'[cur] = "failed"
      /\ \A t \in Steps \ {cur} :
             /\ status[t] = "passed" <=> status'[t] = "passed"
             /\ status'[t] \notin {"running", "failed"}
             /\ status'[t] \notin {"skipped", "cancelled"}
      /\ \A t \in Steps : status'[t] \in Touched =>
              \A r \in Steps : r < t => status'[r] = "passed"
      /\ \A t \in Steps : status[t] \in Touched <=> status'[t] \in Touched
  BY <1>1, <1>2, SettleSeq
<1>4. OrderInv'
  BY <1>1, <1>3 DEF SeqInv, OrderInv
<1>5. CountInv'
  BY <1>1, <1>3 DEF SeqInv, CountInv
<1>6. PhaseInv'
  BY <1>1, <1>3 DEF SeqInv, PhaseInv, BeforeStep, Executing, AfterStep, NoExit, Stopped
<1>7. ExitInv'
  BY <1>1, <1>3 DEF SeqInv, ExitInv, NoExit, Stopped
<1> QED BY <1>4, <1>5, <1>6, <1>7 DEF SeqInv

LEMMA QualifySeq == ASSUME SeqInv, TInv', Qualify PROVE SeqInv'
<1>1. /\ pc = "qualify" /\ pc' \in {"starting", "escaped"} /\ exit = NoExit
      /\ UNCHANGED <<passed, failed, attempts, exit, runJson, interrupted>>
      /\ \A s \in Steps : status[s] = "pending"
      /\ status' = Recomputed(plan, status, qvars)
  BY DEF Qualify, resultVars, diskVars, SeqInv, PhaseInv
<1>2. \A s \in Steps : status'[s] \in {"ready", "blocked"}
  BY <1>1, RecomputedAt DEF Settled, Terminal
<1>3. OrderInv' /\ CountInv' /\ NoneActive'
  BY <1>1, <1>2 DEF SeqInv, OrderInv, CountInv, NoneActive, Touched
<1>4. PhaseInv'
  BY <1>1, <1>3 DEF SeqInv, PhaseInv, BeforeStep, Executing, AfterStep, NoExit, Stopped
<1>5. ExitInv'
  BY <1>1 DEF SeqInv, ExitInv, NoExit, Stopped
<1> QED BY <1>3, <1>4, <1>5 DEF SeqInv

LEMMA NextSeqInv == SeqInv /\ [Next]_vars => SeqInv'
<1> SUFFICES ASSUME SeqInv, [Next]_vars PROVE SeqInv'
  OBVIOUS
<1>0. TInv'
  BY NextTInv DEF SeqInv
<1>K. ASSUME UNCHANGED <<status, attempts, passed, failed>>, PhaseInv', ExitInv'
      PROVE  SeqInv'
  BY <1>0, <1>K, QueueKept DEF SeqInv
<1> USE DEF PhaseInv, ExitInv, NoneActive, BeforeStep, Executing, AfterStep,
            Stopped, NoExit, queueVars, resultVars, diskVars, Abort
<1>1. CASE Reject       BY <1>1, <1>K DEF Reject, SeqInv
<1>2. CASE Qualify      BY <1>2, <1>0, QualifySeq
<1>3. CASE StartBackend BY <1>3, <1>K DEF StartBackend, SeqInv
<1>4. CASE HealthCheck  BY <1>4, <1>K DEF HealthCheck, SeqInv
<1>5. CASE WriteExecutionState
  BY <1>5, <1>K DEF WriteExecutionState, AfterWrite, SeqInv
<1>6. ASSUME NEW s \in Steps, StartStep(s) PROVE SeqInv'
  BY <1>6, <1>0, StartStepSeq
<1>7. ASSUME NEW s \in Steps, ResolveFails(s) PROVE SeqInv'
  BY <1>7, <1>K DEF ResolveFails, SeqInv
<1>8. CASE NothingOffered BY <1>8, <1>K DEF NothingOffered, SeqInv
<1>9. CASE StepRaises     BY <1>9, <1>K DEF StepRaises, SeqInv
<1>10. ASSUME NEW keys \in SUBSET Paths, StepBinds(keys) PROVE SeqInv'
  BY <1>10, <1>K DEF StepBinds, SeqInv
<1>11. CASE AwaitCompletion BY <1>11, <1>K DEF AwaitCompletion, SeqInv
<1>12. CASE CompleteStep    BY <1>12, <1>0, CompleteStepSeq
<1>13. CASE RecordFinished  BY <1>13, <1>K DEF RecordFinished, SeqInv
<1>14. CASE FailStep        BY <1>14, <1>0, FailStepSeq
<1>15. CASE FailRaises      BY <1>15, <1>K DEF FailRaises, SeqInv
<1>16. CASE Verdict
  <2>1. \A s \in Steps : s \notin Unfinished => status[s] = "passed"
    BY DEF Unfinished, Terminal, SeqInv, OrderInv
  <2> QED BY <1>16, <1>K, <2>1 DEF Verdict, SeqInv
<1>17. CASE StopBackend BY <1>17, <1>K DEF StopBackend, SeqInv
<1>18. CASE Finalize    BY <1>18, <1>K DEF Finalize, SeqInv
<1>19. CASE Interrupt
  BY <1>19, <1>K DEF Interrupt, SeqInv, InTry
<1>20. CASE Crash       BY <1>20, <1>K DEF Crash, SeqInv
<1>21. CASE UNCHANGED vars BY <1>21, <1>K DEF vars, SeqInv
<1> QED
  BY <1>1, <1>2, <1>3, <1>4, <1>5, <1>6, <1>7, <1>8, <1>9, <1>10, <1>11,
     <1>12, <1>13, <1>14, <1>15, <1>16, <1>17, <1>18, <1>19, <1>20, <1>21
  DEF Next, Progress, Terminated

LEMMA SeqInvariant == Spec => []SeqInv
BY InitSeqInv, NextSeqInv, PTL DEF Spec

(* The verdict in run.json agrees with what happened to the steps.         *)
THEOREM VerdictHonest == Spec => []VerdictTruthful
<1>1. SeqInv => VerdictTruthful
  <2> SUFFICES ASSUME SeqInv PROVE VerdictTruthful
    OBVIOUS
  <2>1. ASSUME runJson = 0 PROVE PassedSteps = Steps /\ passed = N /\ failed = 0
    <3>1. \A s \in Steps : status[s] = "passed"
      BY <2>1 DEF SeqInv, ExitInv, NoExit
    <3>2. N <= passed /\ passed <= N /\ passed \in Nat
      BY <3>1, NAssumption DEF SeqInv, CountInv, Steps
    <3> QED BY <3>1, <3>2, NAssumption DEF PassedSteps, SeqInv, CountInv
  <2>2. ASSUME runJson = 1
        PROVE  \E s \in Steps : /\ status[s] = "failed"
                                /\ \A t \in Steps : t < s => status[t] = "passed"
    BY <2>2 DEF SeqInv, ExitInv, NoExit, OrderInv, Touched
  <2>3. ASSUME runJson = 2 PROVE NoneActive
    BY <2>3 DEF SeqInv, ExitInv, NoExit
  <2> QED BY <2>1, <2>2, <2>3 DEF VerdictTruthful, NoneActive
<1> QED BY SeqInvariant, <1>1, PTL

-----------------------------------------------------------------------------
(* Refinement: what is dispatched and passed, seen as sets of steps.       *)
LEMMA Prefixes ==
  ASSUME SeqInv
  PROVE  /\ PassedSteps = 1 .. passed
         /\ Attempted = {s \in Steps : status[s] \in Touched}
         /\ NoneActive => Attempted = PassedSteps
<1>1. PassedSteps = 1 .. passed
  BY NAssumption DEF SeqInv, CountInv, PassedSteps, Steps
<1>2. Attempted = {s \in Steps : status[s] \in Touched}
  BY DEF Attempted, SeqInv, OrderInv
<1> QED BY <1>1, <1>2 DEF NoneActive, PassedSteps, Touched

(* Steps that neither dispatch, pass nor publish stutter. *)
LEMMA Stutters ==
  ASSUME UNCHANGED <<status, attempts, runJson>>
  PROVE  UNCHANGED Promise!runVars
BY DEF Promise!runVars, Attempted, PassedSteps

LEMMA Dispatches ==
  ASSUME SeqInv, SeqInv', NEW s \in Steps, StartStep(s)
  PROVE  Promise!Dispatch(s)
<1>1. /\ NoneActive /\ runJson = NoExit /\ runJson' = runJson
      /\ status' = [status EXCEPT ![s] = "running"] /\ status \in [Steps -> Status]
      /\ passed' = passed
  BY DEF StartStep, SeqInv, PhaseInv, ExitInv, BeforeStep, TInv, TypeOK, Stopped
<1>2. s = passed + 1 /\ Attempted' = {t \in Steps : status'[t] \in Touched}
  <2>1. status'[s] = "running" BY <1>1
  <2>2. \A t \in Steps : t < s => status[t] = "passed" BY OfferedStep DEF StartStep
  <2>3. s > passed /\ passed \in Nat
    BY OfferedStep DEF StartStep, SeqInv, CountInv, Steps
  <2>4. ~ (passed + 1 < s)
    <3> SUFFICES ASSUME passed + 1 < s PROVE FALSE
      OBVIOUS
    <3>1. passed + 1 \in Steps BY <2>3, NAssumption DEF Steps
    <3>2. passed + 1 <= passed BY <3>1, <2>2 DEF SeqInv, CountInv
    <3> QED BY <3>2, <2>3
  <2> QED BY <2>3, <2>4, Prefixes DEF Steps, Attempted, SeqInv, OrderInv
<1>3. PassedSteps' = PassedSteps
  BY <1>1, OfferedStep DEF PassedSteps, StartStep
<1>4. PassedSteps = 1 .. (s - 1) /\ Attempted = PassedSteps
  BY <1>1, <1>2, Prefixes DEF SeqInv, CountInv
<1>5. Attempted' = 1 .. s
  <2>1. Attempted' = PassedSteps \cup {s}
    <3>1. Attempted = {t \in Steps : status[t] \in Touched} BY Prefixes
    <3> QED BY <1>1, <1>2, <1>4, <3>1 DEF Touched
  <2> QED BY <2>1, <1>4 DEF Steps
<1> QED
  BY <1>1, <1>3, <1>4, <1>5 DEF Promise!Dispatch, Promise!NoVerdict, NoExit

LEMMA Passes ==
  ASSUME SeqInv, SeqInv', CompleteStep
  PROVE  cur \in Steps /\ Promise!Pass(cur)
<1>1. /\ cur \in Steps /\ status[cur] = "running"
      /\ runJson = NoExit /\ runJson' = runJson
      /\ attempts' = attempts /\ passed' = passed + 1
  BY DEF CompleteStep, diskVars, SeqInv, ExitInv, TInv, CurIsStep, AtStep, Stopped
<1>2. cur = passed + 1 /\ \A t \in Steps : status[t] \in Touched => t <= cur
  BY <1>1, RunningStep
<1>3. PassedSteps = 1 .. (cur - 1) /\ PassedSteps' = 1 .. cur
  <2>1. PassedSteps = 1 .. passed BY Prefixes
  <2>2. PassedSteps' = 1 .. passed'
    BY NAssumption DEF SeqInv, CountInv, PassedSteps, Steps
  <2>3. cur - 1 = passed BY <1>2 DEF SeqInv, CountInv
  <2> QED BY <2>1, <2>2, <2>3, <1>1, <1>2
<1>4. Attempted = 1 .. cur /\ Attempted' = Attempted
  <2>1. Attempted = {t \in Steps : status[t] \in Touched} BY Prefixes
  <2>2. \A t \in Steps : t <= cur => status[t] \in Touched
    BY <1>1 DEF SeqInv, OrderInv, Touched, Steps
  <2>3. \A t \in Steps : status[t] \in Touched <=> t <= cur
    BY <1>2, <2>2
  <2>4. 1 .. cur = {t \in Steps : t <= cur} BY <1>1, NAssumption DEF Steps
  <2> QED BY <2>1, <2>3, <2>4, <1>1 DEF Attempted
<1> QED
  BY <1>1, <1>3, <1>4 DEF Promise!Pass, Promise!NoVerdict, NoExit

LEMMA Publishes ==
  ASSUME SeqInv, SeqInv', Finalize
  PROVE  (\E v \in 0 .. 3 : Promise!Publish(v)) \/ UNCHANGED Promise!runVars
<1>1. CASE UNCHANGED runJson
  BY <1>1, Stutters DEF Finalize, queueVars
<1>2. CASE runJson' = exit
  <2>1. /\ runJson = NoExit /\ exit \in 0 .. 3
        /\ Attempted' = Attempted /\ PassedSteps' = PassedSteps
    BY DEF Finalize, queueVars, SeqInv, ExitInv, PhaseInv, TInv, TypeOK, Exits,
           NoExit, Stopped, Attempted, PassedSteps
  <2>2. ASSUME exit = 0 PROVE PassedSteps = 1 .. N
    BY <2>2 DEF SeqInv, ExitInv, PassedSteps, Steps
  <2>3. ASSUME exit = 1 PROVE Attempted # PassedSteps
    <3>1. PICK s \in Steps : status[s] = "failed"
      BY <2>3 DEF SeqInv, ExitInv
    <3>2. s \in Attempted BY <3>1, Prefixes DEF Touched
    <3>3. s \notin PassedSteps BY <3>1 DEF PassedSteps
    <3> QED BY <3>2, <3>3
  <2>4. ASSUME exit = 2 PROVE Attempted = PassedSteps
    BY <2>4, Prefixes DEF SeqInv, ExitInv
  <2>5. Promise!Publish(exit)
    BY <1>2, <2>1, <2>2, <2>3, <2>4 DEF Promise!Publish, Promise!NoVerdict, NoExit
  <2> QED BY <2>1, <2>5
<1> QED BY <1>1, <1>2 DEF Finalize

(* The run implements SequentialRun: one step at a time, in authored order,*)
(* never past a step that did not pass, and one truthful, final verdict.   *)
THEOREM PromiseKept == Spec => KeepsPromise
<1>1. Init => Promise!Init
  <2> SUFFICES ASSUME Init PROVE Promise!Init
    OBVIOUS
  <2>1. Attempted = {} /\ PassedSteps = {}
    BY DEF Init, Attempted, PassedSteps
  <2> QED BY <2>1 DEF Init, Promise!Init, Promise!NoVerdict, NoExit
<1>2. SeqInv /\ SeqInv' /\ [Next]_vars => [Promise!Next]_Promise!runVars
  <2> SUFFICES ASSUME SeqInv, SeqInv', [Next]_vars
               PROVE  [Promise!Next]_Promise!runVars
    OBVIOUS
  <2>1. ASSUME NEW s \in Steps, StartStep(s) PROVE Promise!Next
    BY <2>1, Dispatches DEF Promise!Next, Steps
  <2>2. ASSUME CompleteStep PROVE Promise!Next
    BY <2>2, Passes DEF Promise!Next, Steps
  <2>3. ASSUME Finalize PROVE [Promise!Next]_Promise!runVars
    BY <2>3, Publishes DEF Promise!Next
  <2>4. CASE Qualify
    <3>1. \A s \in Steps : status[s] = "pending" /\ status'[s] \in {"ready", "blocked"}
      BY <2>4, RecomputedAt DEF Qualify, SeqInv, PhaseInv, Settled, Terminal
    <3>2. PassedSteps' = PassedSteps BY <3>1 DEF PassedSteps
    <3> QED BY <2>4, <3>2 DEF Qualify, diskVars, Promise!runVars, Attempted
  <2>5. CASE FailStep
    <3>1. /\ cur \in Steps /\ status[cur] = "running"
          /\ status' = Recomputed(plan, [status EXCEPT ![cur] = "failed"], qvars)
      BY <2>5 DEF FailStep, SeqInv, TInv, CurIsStep, AtStep
    <3>2. /\ status'[cur] = "failed"
          /\ \A t \in Steps \ {cur} : status[t] = "passed" <=> status'[t] = "passed"
      BY <3>1, SettleSeq
    <3>3. PassedSteps' = PassedSteps BY <3>1, <3>2 DEF PassedSteps
    <3> QED BY <2>5, <3>3 DEF FailStep, Promise!runVars, Attempted
  <2>6. ASSUME UNCHANGED <<status, attempts, runJson>>
        PROVE  [Promise!Next]_Promise!runVars
    BY <2>6, Stutters
  <2> QED
    BY <2>1, <2>2, <2>3, <2>4, <2>5, <2>6
    DEF Next, Progress, Terminated, vars, queueVars, resultVars, diskVars,
        Reject, StartBackend, HealthCheck, WriteExecutionState, ResolveFails,
        NothingOffered, StepRaises, StepBinds, AwaitCompletion, RecordFinished,
        FailRaises, Verdict, StopBackend, Interrupt, Crash
<1> QED BY SeqInvariant, <1>1, <1>2, PTL DEF Spec, KeepsPromise, Promise!Spec

-----------------------------------------------------------------------------
(***************************************************************************)
(* Readiness. The queue's variables trail the variable store only while a  *)
(* step is between binding its outputs and being completed, and then only  *)
(* in the variables that step binds.                                       *)
(***************************************************************************)
DataInv ==
  /\ pc \in {"qualify", "writeStarted", "invoke"} \cup BeforeStep \cup AfterStep
       => qvars = globals
  /\ pc \in {"await", "commit", "failing"} =>
       \A p \in Paths : RootOf[p] \notin plan.binds[cur] => qvars[p] = globals[p]
  /\ pc \in BeforeStep \cup AfterStep => status = Recomputed(plan, status, globals)

LEMMA RecomputedTwice ==
  ASSUME NEW pl, NEW st, NEW values
  PROVE  Recomputed(pl, Recomputed(pl, st, values), values)
           = Recomputed(pl, st, values)
<1> DEFINE once == Recomputed(pl, st, values)
<1>1. \A s \in Steps : once[s] = "passed" <=> st[s] = "passed"
  BY DEF Recomputed, Settled, Terminal
<1>2. \A s \in Steps : Unblocked(pl, once, values, s) <=> Unblocked(pl, st, values, s)
  BY <1>1 DEF Unblocked
<1>3. \A s \in Steps : Recomputed(pl, once, values)[s] = once[s]
  BY <1>2 DEF Recomputed, Settled, Terminal
<1>4. /\ Recomputed(pl, once, values) = [s \in Steps |-> Recomputed(pl, once, values)[s]]
      /\ once = [s \in Steps |-> once[s]]
  BY DEF Recomputed
<1> QED BY <1>3, <1>4

LEMMA StepBindsData ==
  ASSUME SeqInv, DataInv, NEW keys \in SUBSET Paths, StepBinds(keys)
  PROVE  DataInv'
<1>1. /\ qvars = globals /\ qvars' = qvars /\ plan' = plan /\ cur' = cur
      /\ globals' = Bound(plan, globals, cur, keys)
      /\ pc' \in {"await", "failing"}
  BY DEF StepBinds, queueVars, DataInv
<1>2. \A p \in Paths : RootOf[p] \notin plan.binds[cur] => globals'[p] = globals[p]
  BY <1>1 DEF Bound
<1> QED BY <1>1, <1>2 DEF DataInv, BeforeStep, AfterStep

(* The outputs queue.complete stages make its variables equal to the store *)
(* before the snapshot replaces them, so its recompute is the right one.   *)
LEMMA StagedIsStore ==
  ASSUME SeqInv, DataInv, pc = "commit"
  PROVE  Staged = globals
<1>1. \A p \in Paths : Staged[p] = globals[p]
  BY DEF DataInv, Staged
<1>2. globals = [p \in Paths |-> globals[p]] /\ Staged = [p \in Paths |-> Staged[p]]
  BY DEF SeqInv, TInv, TypeOK, Staged
<1> QED BY <1>1, <1>2

LEMMA CompleteStepData ==
  ASSUME SeqInv, DataInv, CompleteStep
  PROVE  DataInv'
<1>1. /\ pc' = "record" /\ qvars' = globals /\ globals' = globals /\ plan' = plan
      /\ status' = Recomputed(plan, [status EXCEPT ![cur] = "passed"], globals)
  BY StagedIsStore DEF CompleteStep
<1>2. status' = Recomputed(plan, status', globals)
  BY <1>1, RecomputedTwice
<1> QED BY <1>1, <1>2 DEF DataInv, BeforeStep, AfterStep

LEMMA NextDataInv == SeqInv /\ DataInv /\ [Next]_vars => DataInv'
<1> SUFFICES ASSUME SeqInv, DataInv, [Next]_vars PROVE DataInv'
  OBVIOUS
<1> USE DEF BeforeStep, AfterStep, Stopped, queueVars, resultVars, diskVars, Abort
<1>1. CASE Reject       BY <1>1 DEF Reject, DataInv
<1>2. CASE Qualify
  <2>1. status' = Recomputed(plan, status, globals) /\ qvars = globals
    BY <1>2 DEF Qualify, DataInv
  <2>2. status' = Recomputed(plan, status', globals)
    BY <2>1, RecomputedTwice
  <2> QED BY <1>2, <2>1, <2>2 DEF Qualify, DataInv
<1>3. CASE StartBackend BY <1>3 DEF StartBackend, DataInv
<1>4. CASE HealthCheck  BY <1>4 DEF HealthCheck, DataInv
<1>5. CASE WriteExecutionState
  BY <1>5 DEF WriteExecutionState, AfterWrite, DataInv
<1>6. ASSUME NEW s \in Steps, StartStep(s) PROVE DataInv'
  BY <1>6 DEF StartStep, DataInv
<1>7. ASSUME NEW s \in Steps, ResolveFails(s) PROVE DataInv'
  BY <1>7 DEF ResolveFails, DataInv
<1>8. CASE NothingOffered BY <1>8 DEF NothingOffered, DataInv
<1>9. CASE StepRaises     BY <1>9 DEF StepRaises, DataInv
<1>10. ASSUME NEW keys \in SUBSET Paths, StepBinds(keys) PROVE DataInv'
  BY <1>10, StepBindsData
<1>11. CASE AwaitCompletion BY <1>11 DEF AwaitCompletion, DataInv
<1>12. CASE CompleteStep    BY <1>12, CompleteStepData
<1>13. CASE RecordFinished  BY <1>13 DEF RecordFinished, DataInv
<1>14. CASE FailStep        BY <1>14 DEF FailStep, DataInv
<1>15. CASE FailRaises      BY <1>15 DEF FailRaises, DataInv
<1>16. CASE Verdict         BY <1>16 DEF Verdict, DataInv
<1>17. CASE StopBackend     BY <1>17 DEF StopBackend, DataInv
<1>18. CASE Finalize        BY <1>18 DEF Finalize, DataInv
<1>19. CASE Interrupt       BY <1>19 DEF Interrupt, DataInv
<1>20. CASE Crash           BY <1>20 DEF Crash, DataInv
<1>21. CASE UNCHANGED vars  BY <1>21 DEF vars, DataInv
<1> QED
  BY <1>1, <1>2, <1>3, <1>4, <1>5, <1>6, <1>7, <1>8, <1>9, <1>10, <1>11,
     <1>12, <1>13, <1>14, <1>15, <1>16, <1>17, <1>18, <1>19, <1>20, <1>21
  DEF Next, Progress, Terminated

(* Whenever the loop asks for a step, statuses and queue variables are     *)
(* what deriving them afresh would give.                                   *)
THEOREM QueueIsDerivedView == Spec => []ReadinessDerived
<1>1. Init => DataInv
  BY DEF Init, DataInv, BeforeStep, AfterStep
<1>2. DataInv => ReadinessDerived
  BY DEF DataInv, ReadinessDerived, BeforeStep, AfterStep
<1> QED BY SeqInvariant, NextDataInv, <1>1, <1>2, PTL DEF Spec

-----------------------------------------------------------------------------
(***************************************************************************)
(* Data flow. The variable store holds, for every path, the write of the   *)
(* latest settled step that binds the path's variable, or the value of     *)
(* plan.variables when none of them does; a path may also resolve to       *)
(* nothing, which StartStep checks. The step that has bound its outputs    *)
(* counts as settled although the queue completes it only later.           *)
(***************************************************************************)
HasBound == PassedSteps \cup (IF pc \in {"await", "commit"} THEN {cur} ELSE {})
Running == {"qualify"} \cup BeforeStep \cup Executing \cup AfterStep

LatestWrite(p) ==
  \/ globals[p] = Absent
  \/ globals[p] = Initial /\ \A q \in HasBound : RootOf[p] \notin plan.binds[q]
  \/ /\ globals[p] \in HasBound
     /\ RootOf[p] \in plan.binds[globals[p]]
     /\ \A q \in HasBound : q > globals[p] => RootOf[p] \notin plan.binds[q]

FlowInv ==
  /\ pc \in Running => \A p \in Paths : LatestWrite(p)
  /\ pc \in {"writeStarted", "invoke"} =>
       \A p \in plan.needs[cur] : globals[p] # Absent
  /\ CommittedByPassedSteps

LEMMA QueueInvariant == Spec => [](SeqInv /\ DataInv)
<1>1. Init => DataInv
  BY DEF Init, DataInv, BeforeStep, AfterStep
<1> QED BY SeqInvariant, NextDataInv, <1>1, PTL DEF Spec

(* Only completing the current step changes which steps have passed.       *)
LEMMA PassedAfterQualify ==
  ASSUME SeqInv, Qualify
  PROVE  PassedSteps = {} /\ PassedSteps' = {}
<1>1. \A s \in Steps : status[s] = "pending"
  BY DEF Qualify, SeqInv, PhaseInv
<1>2. \A s \in Steps : status'[s] \in {"ready", "blocked"}
  BY <1>1, RecomputedAt DEF Qualify, Settled, Terminal
<1> QED BY <1>1, <1>2 DEF PassedSteps

LEMMA PassedAfterStart ==
  ASSUME SeqInv, NEW s \in Steps, StartStep(s)
  PROVE  PassedSteps' = PassedSteps /\ PassedSteps = {t \in Steps : t < s}
<1>1. /\ status' = [status EXCEPT ![s] = "running"] /\ status \in [Steps -> Status]
      /\ status[s] = "ready" /\ \A t \in Steps : t < s => status[t] = "passed"
  BY OfferedStep DEF StartStep, SeqInv, TInv, TypeOK
<1>2. \A t \in Steps : status[t] = "passed" => t < s
  BY <1>1 DEF SeqInv, CountInv, Steps
<1> QED BY <1>1, <1>2 DEF PassedSteps

LEMMA PassedAfterComplete ==
  ASSUME SeqInv, CompleteStep
  PROVE  cur \in Steps /\ PassedSteps' = PassedSteps \cup {cur}
<1>1. /\ cur \in Steps /\ status[cur] = "running"
      /\ status' = Recomputed(plan, [status EXCEPT ![cur] = "passed"], Staged)
  BY DEF CompleteStep, SeqInv, TInv, CurIsStep, AtStep
<1>2. /\ status'[cur] = "passed"
      /\ \A t \in Steps \ {cur} : status[t] = "passed" <=> status'[t] = "passed"
  BY <1>1, SettleSeq
<1> QED BY <1>1, <1>2 DEF PassedSteps

LEMMA PassedAfterFail ==
  ASSUME SeqInv, FailStep
  PROVE  PassedSteps' = PassedSteps
<1>1. /\ cur \in Steps /\ status[cur] = "running"
      /\ status' = Recomputed(plan, [status EXCEPT ![cur] = "failed"], qvars)
  BY DEF FailStep, SeqInv, TInv, CurIsStep, AtStep
<1>2. /\ status'[cur] = "failed"
      /\ \A t \in Steps \ {cur} : status[t] = "passed" <=> status'[t] = "passed"
  BY <1>1, SettleSeq
<1> QED BY <1>1, <1>2 DEF PassedSteps

(* Actions that write neither the store nor the queue's variables.         *)
LEMMA FlowKept ==
  ASSUME FlowInv, UNCHANGED <<plan, cur, globals, qvars, status>>,
         pc' \in Running =>
           pc \in Running /\ (pc' \in {"await", "commit"} <=> pc \in {"await", "commit"}),
         pc' \in {"writeStarted", "invoke"} => pc \in {"writeStarted", "invoke"}
  PROVE  FlowInv'
<1>1. PassedSteps' = PassedSteps BY DEF PassedSteps
<1>2. CommittedByPassedSteps' BY <1>1 DEF FlowInv, CommittedByPassedSteps
<1>3. ASSUME pc' \in Running, NEW p \in Paths PROVE LatestWrite(p)'
  <2>1. HasBound' = HasBound /\ LatestWrite(p)
    BY <1>1, <1>3 DEF HasBound, FlowInv
  <2> QED BY <2>1 DEF LatestWrite
<1> QED BY <1>2, <1>3 DEF FlowInv

LEMMA QualifyFlow == ASSUME SeqInv, FlowInv, Qualify PROVE FlowInv'
<1>1. PassedSteps = {} /\ PassedSteps' = {} BY PassedAfterQualify
<1>2. /\ pc = "qualify" /\ pc' \in {"starting", "escaped"}
      /\ UNCHANGED <<plan, globals, qvars>>
  BY DEF Qualify
<1>3. HasBound = {} /\ HasBound' = {} BY <1>1, <1>2 DEF HasBound
<1>4. \A p \in Paths : LatestWrite(p)'
  BY <1>2, <1>3 DEF FlowInv, Running, LatestWrite
<1>5. CommittedByPassedSteps'
  BY <1>1, <1>2 DEF FlowInv, CommittedByPassedSteps
<1> QED BY <1>2, <1>4, <1>5 DEF FlowInv

LEMMA StartStepFlow ==
  ASSUME SeqInv, FlowInv, NEW s \in Steps, StartStep(s)
  PROVE  FlowInv'
<1>1. PassedSteps' = PassedSteps BY PassedAfterStart
<1>2. /\ pc = "loop" /\ pc' \in {"writeStarted", "stopping"} /\ cur' = s
      /\ UNCHANGED <<plan, globals, qvars>>
      /\ \A p \in plan.needs[s] : globals[p] # Absent
  BY DEF StartStep, Abort, Resolves
<1>3. HasBound' = HasBound BY <1>1, <1>2 DEF HasBound
<1>4. \A p \in Paths : LatestWrite(p)'
  BY <1>2, <1>3 DEF FlowInv, Running, BeforeStep, LatestWrite
<1>5. CommittedByPassedSteps'
  BY <1>1, <1>2 DEF FlowInv, CommittedByPassedSteps
<1> QED BY <1>2, <1>4, <1>5 DEF FlowInv

(* The step that binds a variable stands behind every passed step.         *)
LEMMA StepBindsFlow ==
  ASSUME SeqInv, FlowInv, NEW keys \in SUBSET Paths, StepBinds(keys)
  PROVE  FlowInv'
<1>1. /\ pc = "invoke" /\ pc' \in {"await", "failing"}
      /\ globals' = Bound(plan, globals, cur, keys)
      /\ UNCHANGED <<plan, cur, qvars, status>>
      /\ cur \in Steps /\ status[cur] = "running"
  BY DEF StepBinds, queueVars, SeqInv, PhaseInv, Executing, TInv, CurIsStep, AtStep
<1>2. PassedSteps' = PassedSteps BY <1>1 DEF PassedSteps
<1>3. HasBound = PassedSteps BY <1>1 DEF HasBound
<1>4. \A q \in PassedSteps : q \in Steps /\ q < cur
  BY <1>1, RunningStep DEF PassedSteps, SeqInv, CountInv, Steps
<1>5. ASSUME pc' = "await", NEW p \in Paths PROVE LatestWrite(p)'
  <2>1. HasBound' = PassedSteps \cup {cur} BY <1>1, <1>2, <1>5 DEF HasBound
  <2>2. CASE RootOf[p] \in plan.binds[cur]
    <3>1. globals'[p] \in {cur, Absent} BY <1>1, <2>2 DEF Bound
    <3>2. \A q \in HasBound' : ~ (q > cur) BY <1>1, <1>4, <2>1 DEF Steps
    <3> QED BY <1>1, <2>1, <2>2, <3>1, <3>2 DEF LatestWrite
  <2>3. CASE RootOf[p] \notin plan.binds[cur]
    <3>1. globals'[p] = globals[p] BY <1>1, <2>3 DEF Bound
    <3>2. LatestWrite(p) BY <1>1 DEF FlowInv, Running, Executing
    <3> QED BY <1>1, <1>3, <2>1, <2>3, <3>1, <3>2 DEF LatestWrite
  <2> QED BY <2>2, <2>3
<1>6. CommittedByPassedSteps'
  BY <1>1, <1>2 DEF FlowInv, CommittedByPassedSteps
<1> QED
  BY <1>1, <1>5, <1>6
  DEF FlowInv, Running, BeforeStep, Executing, AfterStep

LEMMA CompleteStepFlow == ASSUME SeqInv, FlowInv, CompleteStep PROVE FlowInv'
<1>1. PassedSteps' = PassedSteps \cup {cur} BY PassedAfterComplete
<1>2. /\ pc = "commit" /\ pc' = "record" /\ qvars' = globals
      /\ UNCHANGED <<plan, cur, globals>>
  BY DEF CompleteStep
<1>3. HasBound' = HasBound /\ HasBound = PassedSteps'
  BY <1>1, <1>2 DEF HasBound
<1>4. \A p \in Paths : LatestWrite(p)
  BY <1>2 DEF FlowInv, Running, Executing
<1>5. \A p \in Paths : LatestWrite(p)'
  BY <1>2, <1>3, <1>4 DEF LatestWrite
<1>6. CommittedByPassedSteps'
  BY <1>2, <1>3, <1>4 DEF LatestWrite, CommittedByPassedSteps
<1> QED BY <1>2, <1>5, <1>6 DEF FlowInv

LEMMA FailStepFlow == ASSUME SeqInv, FlowInv, FailStep PROVE FlowInv'
<1>1. PassedSteps' = PassedSteps BY PassedAfterFail
<1>2. qvars' = qvars /\ pc' \in {"writeFailed", "stopping"}
  BY DEF FailStep, Abort
<1>3. CommittedByPassedSteps'
  BY <1>1, <1>2 DEF FlowInv, CommittedByPassedSteps
<1> QED
  BY <1>2, <1>3 DEF FlowInv, Running, BeforeStep, Executing, AfterStep

LEMMA NextFlowInv == SeqInv /\ FlowInv /\ [Next]_vars => FlowInv'
<1> SUFFICES ASSUME SeqInv, FlowInv, [Next]_vars PROVE FlowInv'
  OBVIOUS
<1> USE DEF Running, BeforeStep, Executing, AfterStep, Stopped, queueVars, resultVars,
            diskVars, Abort
<1>1. CASE Reject       BY <1>1, FlowKept DEF Reject
<1>2. CASE Qualify      BY <1>2, QualifyFlow
<1>3. CASE StartBackend BY <1>3, FlowKept DEF StartBackend
<1>4. CASE HealthCheck  BY <1>4, FlowKept DEF HealthCheck
<1>5. CASE WriteExecutionState
  BY <1>5, FlowKept DEF WriteExecutionState, AfterWrite
<1>6. ASSUME NEW s \in Steps, StartStep(s) PROVE FlowInv'
  BY <1>6, StartStepFlow
<1>7. ASSUME NEW s \in Steps, ResolveFails(s) PROVE FlowInv'
  BY <1>7, FlowKept DEF ResolveFails
<1>8. CASE NothingOffered BY <1>8, FlowKept DEF NothingOffered
<1>9. CASE StepRaises     BY <1>9, FlowKept DEF StepRaises
<1>10. ASSUME NEW keys \in SUBSET Paths, StepBinds(keys) PROVE FlowInv'
  BY <1>10, StepBindsFlow
<1>11. CASE AwaitCompletion BY <1>11, FlowKept DEF AwaitCompletion
<1>12. CASE CompleteStep    BY <1>12, CompleteStepFlow
<1>13. CASE RecordFinished  BY <1>13, FlowKept DEF RecordFinished
<1>14. CASE FailStep        BY <1>14, FailStepFlow
<1>15. CASE FailRaises      BY <1>15, FlowKept DEF FailRaises
<1>16. CASE Verdict         BY <1>16, FlowKept DEF Verdict
<1>17. CASE StopBackend     BY <1>17, FlowKept DEF StopBackend
<1>18. CASE Finalize        BY <1>18, FlowKept DEF Finalize
<1>19. CASE Interrupt       BY <1>19, FlowKept DEF Interrupt
<1>20. CASE Crash           BY <1>20, FlowKept DEF Crash
<1>21. CASE UNCHANGED vars  BY <1>21, FlowKept DEF vars
<1> QED
  BY <1>1, <1>2, <1>3, <1>4, <1>5, <1>6, <1>7, <1>8, <1>9, <1>10, <1>11,
     <1>12, <1>13, <1>14, <1>15, <1>16, <1>17, <1>18, <1>19, <1>20, <1>21
  DEF Next, Progress, Terminated

LEMMA InitFlowInv == Init => FlowInv
<1> SUFFICES ASSUME Init PROVE FlowInv
  OBVIOUS
<1>1. HasBound = {} /\ PassedSteps = {}
  BY DEF Init, HasBound, PassedSteps
<1>2. \A p \in Paths : globals[p] \in {Absent, Initial} /\ qvars[p] \in {Absent, Initial}
  BY DEF Init, InitialValues
<1> QED
  BY <1>1, <1>2 DEF Init, FlowInv, LatestWrite, CommittedByPassedSteps

(* A step runs against the values of the nearest earlier step that binds   *)
(* them, and only passed steps leave values in the execution state.        *)
THEOREM DataFlow == Spec => []DataFlowSound
<1>1. SeqInv /\ FlowInv => DataFlowSound
  <2> SUFFICES ASSUME SeqInv, FlowInv PROVE DataFlowSound
    OBVIOUS
  <2>1. ASSUME pc \in {"writeStarted", "invoke"}, NEW p \in plan.needs[cur]
        PROVE  IF LastWriters(cur, p) = {} THEN globals[p] = Initial
               ELSE globals[p] \in LastWriters(cur, p)
    <3>1. cur \in Steps /\ status[cur] = "running" /\ plan \in PlanType
      BY <2>1 DEF SeqInv, PhaseInv, Executing, TInv, TypeOK, CurIsStep, AtStep
    <3>2. p \in Paths BY <3>1 DEF PlanType
    <3>3. HasBound = {q \in Steps : q < cur}
      <4>1. \A q \in Steps : status[q] = "passed" <=> q < cur
        BY <3>1, RunningStep DEF SeqInv, CountInv, Steps
      <4> QED BY <2>1, <4>1 DEF HasBound, PassedSteps
    <3>4. LatestWrite(p) /\ globals[p] # Absent
      BY <2>1, <3>2 DEF FlowInv, Running, Executing
    <3>5. CASE globals[p] = Initial /\ \A q \in HasBound : RootOf[p] \notin plan.binds[q]
      BY <3>3, <3>5 DEF LastWriters
    <3>6. CASE /\ globals[p] \in HasBound
               /\ RootOf[p] \in plan.binds[globals[p]]
               /\ \A q \in HasBound : q > globals[p] => RootOf[p] \notin plan.binds[q]
      <4>1. globals[p] \in LastWriters(cur, p)
        BY <3>1, <3>3, <3>6 DEF LastWriters, Steps
      <4> QED BY <4>1
    <3> QED BY <3>4, <3>5, <3>6 DEF LatestWrite
  <2> QED BY <2>1 DEF FlowInv, DataFlowSound, InputsFromAuthoredOrder
<1> QED BY SeqInvariant, InitFlowInv, NextFlowInv, <1>1, PTL DEF Spec

-----------------------------------------------------------------------------
(***************************************************************************)
(* Stalling. A variable, as opposed to a path into its value, resolves as  *)
(* soon as plan.variables or a settled step provides it.                   *)
(***************************************************************************)
ProvidedInv ==
  /\ pc \in Running => \A v \in Vars :
       v \in plan.given \/ (\E q \in HasBound : v \in plan.binds[q]) => globals[v] # Absent
  /\ pc \in BeforeStep \cup Executing \cup AfterStep => Validated(plan)

StallInv ==
  ForwardPlan =>
    /\ pc = "verdict" /\ exit = NoExit => Unfinished = {}
    /\ exit = 2 => status[1] = "pending"

LEMMA ProvidedKept ==
  ASSUME ProvidedInv, UNCHANGED <<plan, cur, globals, status>>,
         pc' \in Running =>
           /\ pc \in Running \ {"qualify"} /\ pc' # "qualify"
           /\ pc' \in {"await", "commit"} <=> pc \in {"await", "commit"}
  PROVE  ProvidedInv'
<1>1. ASSUME pc' \in Running, NEW v \in Vars,
             v \in plan.given \/ \E q \in HasBound' : v \in plan.binds[q]
      PROVE  globals[v] # Absent
  <2>1. HasBound' = HasBound BY <1>1 DEF HasBound, PassedSteps
  <2> QED BY <1>1, <2>1 DEF ProvidedInv
<1>2. pc' \in BeforeStep \cup Executing \cup AfterStep => Validated(plan)
  BY DEF ProvidedInv, Running
<1> QED BY <1>1, <1>2 DEF ProvidedInv

LEMMA QualifyProvided == ASSUME SeqInv, ProvidedInv, Qualify PROVE ProvidedInv'
<1>1. /\ pc = "qualify" /\ pc' \in {"starting", "escaped"} /\ Validated(plan)
      /\ UNCHANGED <<plan, globals>>
  BY DEF Qualify
<1>2. HasBound = {} /\ HasBound' = {}
  BY <1>1, PassedAfterQualify DEF HasBound
<1> QED BY <1>1, <1>2 DEF ProvidedInv, Running

LEMMA StartStepProvided ==
  ASSUME SeqInv, ProvidedInv, NEW s \in Steps, StartStep(s)
  PROVE  ProvidedInv'
<1>1. /\ pc = "loop" /\ pc' \in {"writeStarted", "stopping"}
      /\ UNCHANGED <<plan, globals>>
  BY DEF StartStep, Abort
<1>2. HasBound' = HasBound BY <1>1, PassedAfterStart DEF HasBound
<1> QED BY <1>1, <1>2 DEF ProvidedInv, Running, BeforeStep, Executing

LEMMA StepBindsProvided ==
  ASSUME SeqInv, ProvidedInv, NEW keys \in SUBSET Paths, StepBinds(keys)
  PROVE  ProvidedInv'
<1>1. /\ pc = "invoke" /\ pc' \in {"await", "failing"}
      /\ plan.binds[cur] \subseteq keys
      /\ globals' = Bound(plan, globals, cur, keys)
      /\ UNCHANGED <<plan, cur, status>>
      /\ cur \in Steps
  BY DEF StepBinds, queueVars, SeqInv, TInv, CurIsStep, AtStep
<1>2. HasBound = PassedSteps /\ (pc' = "await" => HasBound' = PassedSteps \cup {cur})
  BY <1>1 DEF HasBound, PassedSteps
<1>3. ASSUME pc' = "await", NEW v \in Vars,
             v \in plan.given \/ \E q \in HasBound' : v \in plan.binds[q]
      PROVE  globals'[v] # Absent
  <2>1. v \in Paths /\ RootOf[v] = v BY PathsAssumption
  <2>2. CASE v \in plan.binds[cur]
    <3>1. globals'[v] = cur BY <1>1, <2>1, <2>2 DEF Bound
    <3> QED BY <1>1, <3>1 DEF Steps, Absent
  <2>3. CASE v \notin plan.binds[cur]
    <3>1. globals'[v] = globals[v] BY <1>1, <2>1, <2>3 DEF Bound
    <3>2. v \in plan.given \/ \E q \in HasBound : v \in plan.binds[q]
      BY <1>2, <1>3, <2>3
    <3> QED BY <1>1, <3>1, <3>2 DEF ProvidedInv, Running, Executing
  <2> QED BY <2>2, <2>3
<1> QED
  BY <1>1, <1>3 DEF ProvidedInv, Running, BeforeStep, Executing, AfterStep

LEMMA CompleteStepProvided ==
  ASSUME SeqInv, ProvidedInv, CompleteStep
  PROVE  ProvidedInv'
<1>1. pc = "commit" /\ pc' = "record" /\ UNCHANGED <<plan, cur, globals>>
  BY DEF CompleteStep
<1>2. HasBound' = HasBound BY <1>1, PassedAfterComplete DEF HasBound
<1> QED BY <1>1, <1>2 DEF ProvidedInv, Running, Executing, AfterStep

LEMMA NextProvidedInv == SeqInv /\ ProvidedInv /\ [Next]_vars => ProvidedInv'
<1> SUFFICES ASSUME SeqInv, ProvidedInv, [Next]_vars PROVE ProvidedInv'
  OBVIOUS
<1> USE DEF Running, BeforeStep, Executing, AfterStep, Stopped, queueVars, resultVars,
            diskVars, Abort
<1>1. CASE Reject       BY <1>1, ProvidedKept DEF Reject
<1>2. CASE Qualify      BY <1>2, QualifyProvided
<1>3. CASE StartBackend BY <1>3, ProvidedKept DEF StartBackend
<1>4. CASE HealthCheck  BY <1>4, ProvidedKept DEF HealthCheck
<1>5. CASE WriteExecutionState
  BY <1>5, ProvidedKept DEF WriteExecutionState, AfterWrite
<1>6. ASSUME NEW s \in Steps, StartStep(s) PROVE ProvidedInv'
  BY <1>6, StartStepProvided
<1>7. ASSUME NEW s \in Steps, ResolveFails(s) PROVE ProvidedInv'
  BY <1>7, ProvidedKept DEF ResolveFails
<1>8. CASE NothingOffered BY <1>8, ProvidedKept DEF NothingOffered
<1>9. CASE StepRaises     BY <1>9, ProvidedKept DEF StepRaises
<1>10. ASSUME NEW keys \in SUBSET Paths, StepBinds(keys) PROVE ProvidedInv'
  BY <1>10, StepBindsProvided
<1>11. CASE AwaitCompletion BY <1>11, ProvidedKept DEF AwaitCompletion
<1>12. CASE CompleteStep    BY <1>12, CompleteStepProvided
<1>13. CASE RecordFinished  BY <1>13, ProvidedKept DEF RecordFinished
<1>14. CASE FailStep        BY <1>14 DEF FailStep, ProvidedInv
<1>15. CASE FailRaises      BY <1>15, ProvidedKept DEF FailRaises
<1>16. CASE Verdict         BY <1>16, ProvidedKept DEF Verdict
<1>17. CASE StopBackend     BY <1>17, ProvidedKept DEF StopBackend
<1>18. CASE Finalize        BY <1>18, ProvidedKept DEF Finalize
<1>19. CASE Interrupt       BY <1>19, ProvidedKept DEF Interrupt
<1>20. CASE Crash           BY <1>20, ProvidedKept DEF Crash
<1>21. CASE UNCHANGED vars
  <2>1. HasBound' = HasBound BY <1>21 DEF vars, HasBound, PassedSteps
  <2> QED BY <1>21, <2>1 DEF vars, ProvidedInv
<1> QED
  BY <1>1, <1>2, <1>3, <1>4, <1>5, <1>6, <1>7, <1>8, <1>9, <1>10, <1>11,
     <1>12, <1>13, <1>14, <1>15, <1>16, <1>17, <1>18, <1>19, <1>20, <1>21
  DEF Next, Progress, Terminated

(* When the queue offers nothing for a validated forward plan, every step  *)
(* has passed: the first one that had not would be unblocked.              *)
LEMMA ForwardPlansFinish ==
  ASSUME SeqInv, DataInv, ProvidedInv, ForwardPlan, NothingOffered
  PROVE  Unfinished = {}
<1>1. /\ pc = "loop" /\ NoneActive /\ Validated(plan) /\ plan \in PlanType
      /\ status = Recomputed(plan, status, globals)
      /\ status \in [Steps -> Status]
  BY DEF NothingOffered, SeqInv, PhaseInv, DataInv, ProvidedInv, BeforeStep, TInv, TypeOK
<1>2. passed \in 0 .. N /\ \A t \in Steps : status[t] = "passed" <=> t <= passed
  BY DEF SeqInv, CountInv
<1>3. ASSUME passed # N PROVE FALSE
  <2>1. PICK s \in Steps : s = passed + 1
    BY <1>2, <1>3, NAssumption DEF Steps
  <2>2. \A t \in Steps : t < s => status[t] = "passed"
    BY <1>2, <2>1 DEF Steps
  <2>3. status[s] \notin Settled
    BY <1>1, <1>2, <2>1 DEF SeqInv, OrderInv, NoneActive, Settled, Terminal
  <2>4. \A d \in plan.deps[s] : d \in Steps /\ status[d] = "passed"
    <3> SUFFICES ASSUME NEW d \in plan.deps[s] PROVE d \in Steps /\ status[d] = "passed"
      OBVIOUS
    <3>1. d \in Steps BY <1>1 DEF Validated
    <3>2. d < s BY <3>1 DEF ForwardPlan, Edge
    <3> QED BY <3>1, <3>2, <2>2
  <2>5. \A p \in plan.needs[s] : Resolves(globals, p)
    <3> SUFFICES ASSUME NEW p \in plan.needs[s] PROVE globals[p] # Absent
      BY DEF Resolves
    <3>1. p \in Vars /\ RootOf[p] = p BY PathsAssumption DEF ForwardPlan
    <3>2. CASE p \in plan.given
      BY <1>1, <3>1, <3>2 DEF ProvidedInv, Running, BeforeStep
    <3>3. CASE p \notin plan.given
      <4>1. PICK q \in Steps : Producers(plan, p) = {q}
        BY <1>1, <3>1, <3>3 DEF Validated
      <4>2. p \in plan.binds[q] BY <4>1 DEF Producers
      <4>3. q < s BY <3>1, <3>3, <4>1 DEF ForwardPlan, Edge, DataEdge
      <4>4. q \in HasBound BY <2>2, <4>3 DEF HasBound, PassedSteps
      <4> QED BY <1>1, <3>1, <4>2, <4>4 DEF ProvidedInv, Running, BeforeStep
    <3> QED BY <3>2, <3>3
  <2>6. Unblocked(plan, status, globals, s)
    BY <2>4, <2>5 DEF Unblocked
  <2>7. status[s] = "ready"
    <3>1. Recomputed(plan, status, globals)[s] = "ready"
      BY <2>3, <2>6 DEF Recomputed
    <3> QED BY <1>1, <3>1
  <2>8. Offered(status, s)
    BY <2>2, <2>3, <2>7 DEF Offered, IsHead, Settled, Terminal
  <2> QED BY <2>8 DEF NothingOffered
<1>4. \A t \in Steps : status[t] = "passed"
  BY <1>2, <1>3 DEF Steps
<1> QED BY <1>4 DEF Unfinished, Terminal

LEMMA NextStallInv ==
  SeqInv /\ DataInv /\ ProvidedInv /\ StallInv /\ [Next]_vars => StallInv'
<1> SUFFICES ASSUME SeqInv, DataInv, ProvidedInv, StallInv, [Next]_vars, ForwardPlan'
             PROVE  /\ pc' = "verdict" /\ exit' = NoExit => Unfinished' = {}
                    /\ exit' = 2 => status'[1] = "pending"
  BY DEF StallInv
<1> USE DEF Abort, NoExit, queueVars, resultVars, diskVars, Unfinished
<1>0. /\ plan' = plan /\ ForwardPlan /\ 1 \in Steps
      /\ pc = "verdict" /\ exit = NoExit => Unfinished = {}
      /\ exit = 2 => status[1] = "pending"
  <2>1. plan' = plan
    BY DEF Next, Progress, Terminated, vars, Reject, Qualify, StartBackend, HealthCheck,
           WriteExecutionState, StartStep, ResolveFails, NothingOffered, StepRaises,
           StepBinds, AwaitCompletion, CompleteStep, RecordFinished, FailStep,
           FailRaises, Verdict, StopBackend, Finalize, Interrupt, Crash
  <2>2. ForwardPlan BY <2>1 DEF ForwardPlan
  <2> QED BY <2>1, <2>2, NAssumption DEF StallInv, Steps
<1>1. CASE Reject       BY <1>1, <1>0 DEF Reject, SeqInv, PhaseInv
<1>2. CASE Qualify      BY <1>2, <1>0 DEF Qualify, SeqInv, PhaseInv
<1>3. CASE StartBackend BY <1>3, <1>0 DEF StartBackend
<1>4. CASE HealthCheck  BY <1>4, <1>0 DEF HealthCheck
<1>5. CASE WriteExecutionState
  BY <1>5, <1>0 DEF WriteExecutionState, AfterWrite, SeqInv, PhaseInv
<1>6. ASSUME NEW s \in Steps, StartStep(s)
      PROVE  /\ pc' = "verdict" /\ exit' = NoExit => Unfinished' = {}
             /\ exit' = 2 => status'[1] = "pending"
  BY <1>6, <1>0 DEF StartStep, SeqInv, PhaseInv, BeforeStep
<1>7. ASSUME NEW s \in Steps, ResolveFails(s)
      PROVE  /\ pc' = "verdict" /\ exit' = NoExit => Unfinished' = {}
             /\ exit' = 2 => status'[1] = "pending"
  BY <1>7 DEF ResolveFails
<1>8. CASE NothingOffered
  <2>1. Unfinished = {} BY <1>8, <1>0, ForwardPlansFinish
  <2> QED BY <1>8, <1>0, <2>1 DEF NothingOffered
<1>9. CASE StepRaises   BY <1>9, <1>0 DEF StepRaises
<1>10. ASSUME NEW keys \in SUBSET Paths, StepBinds(keys)
       PROVE  /\ pc' = "verdict" /\ exit' = NoExit => Unfinished' = {}
              /\ exit' = 2 => status'[1] = "pending"
  BY <1>10, <1>0 DEF StepBinds
<1>11. CASE AwaitCompletion BY <1>11, <1>0 DEF AwaitCompletion
<1>12. CASE CompleteStep
  BY <1>12, <1>0 DEF CompleteStep, SeqInv, PhaseInv, Executing
<1>13. CASE RecordFinished  BY <1>13, <1>0 DEF RecordFinished
<1>14. CASE FailStep        BY <1>14 DEF FailStep
<1>15. CASE FailRaises      BY <1>15 DEF FailRaises
<1>16. CASE Verdict         BY <1>16, <1>0 DEF Verdict
<1>17. CASE StopBackend     BY <1>17, <1>0 DEF StopBackend
<1>18. CASE Finalize        BY <1>18, <1>0 DEF Finalize
<1>19. CASE Interrupt       BY <1>19, <1>0 DEF Interrupt
<1>20. CASE Crash           BY <1>20, <1>0 DEF Crash
<1>21. CASE UNCHANGED vars  BY <1>21, <1>0 DEF vars
<1> QED
  BY <1>1, <1>2, <1>3, <1>4, <1>5, <1>6, <1>7, <1>8, <1>9, <1>10, <1>11,
     <1>12, <1>13, <1>14, <1>15, <1>16, <1>17, <1>18, <1>19, <1>20, <1>21
  DEF Next, Progress, Terminated

(* The verdict "execution graph stalled" is never about a plan whose steps *)
(* depend on earlier steps only and refer to whole variables.              *)
THEOREM NoForwardStall == Spec => []ForwardPlansDoNotStall
<1>1. Init => ProvidedInv /\ StallInv
  <2> SUFFICES ASSUME Init PROVE ProvidedInv /\ StallInv
    OBVIOUS
  <2>1. HasBound = {} BY DEF Init, HasBound, PassedSteps
  <2>2. \A v \in Vars : v \in plan.given => globals[v] # Absent
    BY PathsAssumption DEF Init, InitialValues, Initial, Absent
  <2> QED
    BY <2>1, <2>2
    DEF Init, ProvidedInv, StallInv, BeforeStep, Executing, AfterStep, NoExit
<1>2. StallInv => ForwardPlansDoNotStall
  BY DEF StallInv, ForwardPlansDoNotStall, Stalled
<1> QED
  BY QueueInvariant, NextProvidedInv, NextStallInv, <1>1, <1>2, PTL DEF Spec

-----------------------------------------------------------------------------
(***************************************************************************)
(* The artifacts. execution_state.json is exact when the loop is entered,  *)
(* and until the next write wrong about the current step at most.          *)
(***************************************************************************)
NothingWritten ==
  /\ cur = NoStep
  /\ \A s \in Steps : /\ file[s] = NotRecorded /\ events[s] = NotRecorded
                       /\ status[s] \in {"pending", "ready", "blocked"}

FileExact == \A s \in Steps : file[s] # NotRecorded /\ Shown(file[s]) = Shown(status[s])

FileTrails ==
  \A s \in Steps :
    /\ file[s] # NotRecorded
    /\ s # cur => Shown(file[s]) = Shown(status[s])
    /\ file[s] \in {"passed", "failed"} => file[s] = status[s]

FileInv ==
  /\ NothingWritten \/ FileTrails
  /\ pc \in {"qualify", "starting", "health", "writeInitial"} => NothingWritten
  /\ pc \in {"loop", "verdict"} => FileExact
  /\ pc \in {"stopping", "finalize"} /\ ~ interrupted /\ exit \in 0 .. 2
       => NothingWritten \/ FileExact
  /\ runJson \in 0 .. 2 => NothingWritten \/ FileExact

BackendInv ==
  /\ pc \in {"qualify", "starting", "finalize"} => backend = "down"
  /\ runJson # NoExit => backend = "down"

(* What the report shows of each status.                                   *)
LEMMA ShownAs ==
  ASSUME NEW st \in Status
  PROVE  /\ Shown(st) = "PASSED" <=> st = "passed"
         /\ Shown(st) = "FAILED" <=> st = "failed"
         /\ Shown(st) = "RUNNING" <=> st = "running"
         /\ Shown(st) = "NOT RUN" <=> st \in {"pending", "ready", "blocked"}
         /\ Shown(NotRecorded) = "NOT RUN"
<1>1. /\ Shown("pending") = "NOT RUN" /\ Shown("blocked") = "NOT RUN"
      /\ Shown("ready") = "NOT RUN" /\ Shown("none") = "NOT RUN"
      /\ Shown("running") = "RUNNING" /\ Shown("passed") = "PASSED"
      /\ Shown("failed") = "FAILED" /\ Shown("skipped") = "SKIPPED"
      /\ Shown("cancelled") = "CANCELLED"
  BY DEF Shown
<1>2. CASE st \in {"pending", "blocked", "ready"} BY <1>1, <1>2 DEF NotRecorded
<1>3. CASE st \in {"running", "passed", "failed"} BY <1>1, <1>3 DEF NotRecorded
<1>4. CASE st \in {"skipped", "cancelled"}        BY <1>1, <1>4 DEF NotRecorded
<1> QED BY <1>2, <1>3, <1>4 DEF Status

LEMMA ExactTrails ==
  ASSUME SeqInv, FileExact
  PROVE  FileTrails
<1> SUFFICES ASSUME NEW s \in Steps, file[s] \in {"passed", "failed"}
             PROVE  file[s] = status[s]
  BY DEF FileExact, FileTrails
<1>1. file[s] \in Status /\ status[s] \in Status
  BY DEF SeqInv, TInv, TypeOK, Status
<1>2. Shown(file[s]) = Shown(status[s]) BY DEF FileExact
<1>3. Shown(file[s]) \in {"PASSED", "FAILED"} BY <1>1, ShownAs
<1> QED BY <1>1, <1>2, <1>3, ShownAs

(* Actions that write neither the queue, the events nor the file.          *)
LEMMA FileKept ==
  ASSUME FileInv, UNCHANGED <<cur, status, events, file>>,
         pc' \in {"qualify", "starting", "health", "writeInitial"} =>
           pc \in {"qualify", "starting", "health", "writeInitial"},
         pc' \in {"loop", "verdict"} => pc \in {"loop", "verdict"},
         /\ pc' \in {"stopping", "finalize"} /\ ~ interrupted' /\ exit' \in 0 .. 2
           => \/ pc \in {"loop", "verdict", "qualify"}
              \/ pc \in {"stopping", "finalize"} /\ ~ interrupted /\ exit \in 0 .. 2,
         runJson' \in 0 .. 2 =>
           runJson' = runJson \/ (pc = "finalize" /\ ~ interrupted /\ exit \in 0 .. 2)
  PROVE  FileInv'
<1>1. /\ NothingWritten' <=> NothingWritten
      /\ FileExact' <=> FileExact
      /\ FileTrails' <=> FileTrails
  BY DEF NothingWritten, FileExact, FileTrails
<1> QED BY <1>1 DEF FileInv

LEMMA WriteFile ==
  ASSUME SeqInv, SeqInv', FileInv, WriteExecutionState
  PROVE  FileInv'
<1>1. UNCHANGED <<cur, status, events, interrupted, runJson>> /\ pc \in DOMAIN AfterWrite
  BY DEF WriteExecutionState, queueVars
<1>2. runJson = NoExit
  BY <1>1 DEF SeqInv, ExitInv, AfterWrite
<1>3. CASE file' = status /\ pc' = AfterWrite[pc]
  <2>1. FileExact'
    <3> SUFFICES ASSUME NEW s \in Steps PROVE status[s] # NotRecorded
      BY <1>1, <1>3 DEF FileExact
    <3> QED BY DEF SeqInv, TInv, TypeOK, Status, NotRecorded
  <2>2. FileTrails' 
    <3>1. \A s \in Steps : file'[s] # NotRecorded BY <2>1 DEF FileExact
    <3> QED BY <3>1, <1>1, <1>3 DEF FileTrails
  <2>3. pc' \in {"loop", "invoke", "verdict"} BY <1>1, <1>3 DEF AfterWrite
  <2> QED BY <1>1, <1>2, <2>1, <2>2, <2>3 DEF FileInv, NoExit
<1>4. CASE UNCHANGED file /\ Abort
  BY <1>1, <1>2, <1>4, FileKept DEF Abort, NoExit
<1> QED BY <1>3, <1>4 DEF WriteExecutionState

LEMMA QualifyFile == ASSUME SeqInv, FileInv, Qualify PROVE FileInv'
<1>1. /\ UNCHANGED <<cur, events, file, exit, runJson>> /\ exit = NoExit
      /\ pc = "qualify" /\ pc' \in {"starting", "escaped"}
      /\ runJson = NoExit
  BY DEF Qualify, resultVars, diskVars, SeqInv, PhaseInv, ExitInv
<1>2. \A s \in Steps : status'[s] \in {"ready", "blocked"}
  <2>1. \A s \in Steps : status[s] = "pending"
    BY DEF Qualify, SeqInv, PhaseInv
  <2> QED BY <2>1, RecomputedAt DEF Qualify, Settled, Terminal
<1>3. NothingWritten'
  BY <1>1, <1>2 DEF FileInv, NothingWritten
<1> QED BY <1>1, <1>3 DEF FileInv, NoExit

(* The step is shown as NOT RUN until its start is written.                *)
LEMMA StartStepFile ==
  ASSUME SeqInv, FileInv, NEW s \in Steps, StartStep(s)
  PROVE  FileInv'
<1>1. /\ pc = "loop" /\ cur' = s /\ UNCHANGED <<file, interrupted, runJson>>
      /\ status' = [status EXCEPT ![s] = "running"] /\ status \in [Steps -> Status]
      /\ status[s] = "ready"
      /\ pc' = "writeStarted" \/ (pc' = "stopping" /\ exit' = 3)
      /\ runJson = NoExit
  BY DEF StartStep, Abort, Offered, SeqInv, TInv, TypeOK, ExitInv
<1>2. FileExact /\ FileTrails BY <1>1, ExactTrails DEF FileInv
<1>3. FileTrails'
  <2> SUFFICES ASSUME NEW t \in Steps
               PROVE  /\ file[t] # NotRecorded
                      /\ t # s => Shown(file[t]) = Shown(status'[t])
                      /\ file[t] \in {"passed", "failed"} => file[t] = status'[t]
    BY <1>1 DEF FileTrails
  <2>1. CASE t = s
    <3>1. file[s] \notin {"passed", "failed"} BY <1>1, <1>2 DEF FileTrails
    <3> QED BY <2>1, <3>1, <1>2 DEF FileExact
  <2>2. CASE t # s
    <3>1. status'[t] = status[t] BY <1>1, <2>2
    <3> QED BY <3>1, <1>2 DEF FileExact, FileTrails
  <2> QED BY <2>1, <2>2
<1> QED BY <1>1, <1>3 DEF FileInv, NoExit

(* Settling the current step: only its own entry becomes stale.            *)
LEMMA SettleFile ==
  ASSUME SeqInv, SeqInv', FileInv, cur \in Steps, status[cur] = "running",
         NEW verdict \in {"passed", "failed"}, NEW values,
         status' = Recomputed(plan, [status EXCEPT ![cur] = verdict], values),
         UNCHANGED <<cur, file>>
  PROVE  FileTrails'
<1>1. FileTrails
  BY DEF FileInv, NothingWritten
<1>2. \A t \in Steps \ {cur} :
          /\ status[t] = "passed" <=> status'[t] = "passed"
          /\ status'[t] \notin {"running", "failed"}
          /\ status'[t] \notin {"skipped", "cancelled"}
  BY SettleSeq
<1>3. \A t \in Steps \ {cur} : status[t] \notin {"running", "failed", "skipped", "cancelled"}
  BY RunningStep DEF SeqInv, OrderInv
<1>4. /\ status \in [Steps -> Status] /\ status' \in [Steps -> Status]
      /\ file \in [Steps -> Status \cup {NotRecorded}]
  BY DEF SeqInv, TInv, TypeOK
<1>5. ASSUME NEW t \in Steps, t # cur
      PROVE  /\ Shown(file[t]) = Shown(status'[t])
             /\ file[t] \in {"passed", "failed"} => file[t] = status'[t]
  <2>1. /\ status[t] \in Status /\ status'[t] \in Status /\ file[t] \in Status
        /\ Shown(file[t]) = Shown(status[t])
    BY <1>1, <1>4, <1>5 DEF FileTrails
  <2>2. CASE status[t] = "passed"
    BY <1>1, <1>2, <1>5, <2>1, <2>2 DEF FileTrails
  <2>3. CASE status[t] # "passed"
    <3>1. /\ status[t] \in {"pending", "ready", "blocked"}
          /\ status'[t] \in {"pending", "ready", "blocked"}
      BY <1>2, <1>3, <1>5, <2>1, <2>3 DEF Status
    <3>2. Shown(status[t]) = Shown(status'[t]) BY <2>1, <3>1, ShownAs
    <3>3. file[t] \notin {"passed", "failed"} BY <1>1, <3>1 DEF FileTrails
    <3> QED BY <2>1, <3>2, <3>3
  <2> QED BY <2>2, <2>3
<1>6. file[cur] # NotRecorded /\ file[cur] \notin {"passed", "failed"}
  BY <1>1 DEF FileTrails
<1> QED BY <1>1, <1>5, <1>6 DEF FileTrails

LEMMA CompleteStepFile ==
  ASSUME SeqInv, SeqInv', FileInv, CompleteStep
  PROVE  FileInv'
<1>1. /\ pc = "commit" /\ pc' = "record" /\ UNCHANGED <<cur, file, runJson>>
      /\ cur \in Steps /\ status[cur] = "running"
      /\ status' = Recomputed(plan, [status EXCEPT ![cur] = "passed"], Staged)
      /\ runJson = NoExit
  BY DEF CompleteStep, diskVars, SeqInv, TInv, CurIsStep, AtStep, ExitInv
<1>2. FileTrails' BY <1>1, SettleFile
<1> QED BY <1>1, <1>2 DEF FileInv, NoExit

LEMMA FailStepFile ==
  ASSUME SeqInv, SeqInv', FileInv, FailStep
  PROVE  FileInv'
<1>1. /\ pc = "failing" /\ UNCHANGED <<cur, file, runJson>>
      /\ pc' = "writeFailed" \/ (pc' = "stopping" /\ exit' = 3)
      /\ cur \in Steps /\ status[cur] = "running"
      /\ status' = Recomputed(plan, [status EXCEPT ![cur] = "failed"], qvars)
      /\ runJson = NoExit
  BY DEF FailStep, Abort, SeqInv, TInv, CurIsStep, AtStep, ExitInv
<1>2. FileTrails' BY <1>1, SettleFile
<1> QED BY <1>1, <1>2 DEF FileInv, NoExit

LEMMA RecordFinishedFile ==
  ASSUME SeqInv, FileInv, RecordFinished
  PROVE  FileInv'
<1>1. /\ pc = "record" /\ pc' \in {"writePassed", "failing"}
      /\ UNCHANGED <<cur, status, file, runJson>>
      /\ cur \in Steps /\ runJson = NoExit
  BY DEF RecordFinished, queueVars, SeqInv, TInv, CurIsStep, AtStep, ExitInv
<1>2. FileTrails
  BY <1>1 DEF FileInv, NothingWritten, Steps, NoStep
<1>3. FileTrails' BY <1>1, <1>2 DEF FileTrails
<1> QED BY <1>1, <1>3 DEF FileInv, NoExit

LEMMA NextFileInv == SeqInv /\ SeqInv' /\ FileInv /\ [Next]_vars => FileInv'
<1> SUFFICES ASSUME SeqInv, SeqInv', FileInv, [Next]_vars PROVE FileInv'
  OBVIOUS
<1> USE DEF Stopped, queueVars, resultVars, diskVars, Abort
<1>1. CASE Reject       BY <1>1, FileKept DEF Reject
<1>2. CASE Qualify      BY <1>2, QualifyFile
<1>3. CASE StartBackend BY <1>3, FileKept DEF StartBackend
<1>4. CASE HealthCheck  BY <1>4, FileKept DEF HealthCheck
<1>5. CASE WriteExecutionState BY <1>5, WriteFile
<1>6. ASSUME NEW s \in Steps, StartStep(s) PROVE FileInv'
  BY <1>6, StartStepFile
<1>7. ASSUME NEW s \in Steps, ResolveFails(s) PROVE FileInv'
  BY <1>7, FileKept DEF ResolveFails
<1>8. CASE NothingOffered BY <1>8, FileKept DEF NothingOffered
<1>9. CASE StepRaises     BY <1>9, FileKept DEF StepRaises
<1>10. ASSUME NEW keys \in SUBSET Paths, StepBinds(keys) PROVE FileInv'
  BY <1>10, FileKept DEF StepBinds
<1>11. CASE AwaitCompletion BY <1>11, FileKept DEF AwaitCompletion
<1>12. CASE CompleteStep    BY <1>12, CompleteStepFile
<1>13. CASE RecordFinished  BY <1>13, RecordFinishedFile
<1>14. CASE FailStep        BY <1>14, FailStepFile
<1>15. CASE FailRaises      BY <1>15, FileKept DEF FailRaises
<1>16. CASE Verdict         BY <1>16, FileKept DEF Verdict
<1>17. CASE StopBackend     BY <1>17, FileKept DEF StopBackend
<1>18. CASE Finalize
  BY <1>18, FileKept DEF Finalize, SeqInv, PhaseInv
<1>19. CASE Interrupt       BY <1>19, FileKept DEF Interrupt
<1>20. CASE Crash           BY <1>20, FileKept DEF Crash
<1>21. CASE UNCHANGED vars  BY <1>21, FileKept DEF vars
<1> QED
  BY <1>1, <1>2, <1>3, <1>4, <1>5, <1>6, <1>7, <1>8, <1>9, <1>10, <1>11,
     <1>12, <1>13, <1>14, <1>15, <1>16, <1>17, <1>18, <1>19, <1>20, <1>21
  DEF Next, Progress, Terminated

LEMMA NextBackendInv == SeqInv /\ BackendInv /\ [Next]_vars => BackendInv'
BY DEF SeqInv, ExitInv, BackendInv, Next, Progress, Terminated, vars, queueVars,
       resultVars, diskVars, Abort, Stopped, AfterWrite, Reject, Qualify, StartBackend,
       HealthCheck, WriteExecutionState, StartStep, ResolveFails, NothingOffered,
       StepRaises, StepBinds, AwaitCompletion, CompleteStep, RecordFinished, FailStep,
       FailRaises, Verdict, StopBackend, Finalize, Interrupt, Crash

(* Whoever reads the run directory, also after a crash, is wrong about the *)
(* current step at most; a published report is exact, and published only   *)
(* once the backend is down.                                               *)
THEOREM Artifacts == Spec => []ArtifactsTruthful
<1>1. Init => FileInv /\ BackendInv
  BY DEF Init, FileInv, BackendInv, NothingWritten, NoExit
<1>2. SeqInv /\ FileInv /\ BackendInv => ArtifactsTruthful
  <2> SUFFICES ASSUME SeqInv, FileInv, BackendInv PROVE ArtifactsTruthful
    OBVIOUS
  <2>1. \A s \in Steps : /\ status[s] \in Status
                          /\ file[s] \in Status \cup {NotRecorded}
    BY DEF SeqInv, TInv, TypeOK
  <2>2. ASSUME NothingWritten PROVE \A s \in Steps : Report(s) = Shown(status[s])
    <3> SUFFICES ASSUME NEW s \in Steps PROVE Report(s) = Shown(status[s])
      OBVIOUS
    <3>1. Shown(status[s]) = "NOT RUN" /\ Shown(NotRecorded) = "NOT RUN"
      BY <2>1, <2>2, ShownAs DEF NothingWritten
    <3> QED BY <2>2, <3>1 DEF NothingWritten, Report
  <2>3. ASSUME FileExact PROVE \A s \in Steps : Report(s) = Shown(status[s])
    BY <2>3 DEF FileExact, Report
  <2>4. ReportLagsByOneStep
    <3>1. CASE NothingWritten
      BY <2>2, <3>1 DEF ReportLagsByOneStep
    <3>2. CASE FileTrails
      <4> SUFFICES ASSUME NEW s \in Steps
                   PROVE  /\ Report(s) # Shown(status[s]) => s = cur
                          /\ Report(s) \in {"PASSED", "FAILED"} => Report(s) = Shown(status[s])
        BY DEF ReportLagsByOneStep
      <4>1. Report(s) = Shown(file[s]) /\ file[s] \in Status
        BY <2>1, <3>2 DEF FileTrails, Report
      <4>2. Report(s) \in {"PASSED", "FAILED"} => file[s] \in {"passed", "failed"}
        BY <4>1, ShownAs
      <4> QED BY <3>2, <4>1, <4>2 DEF FileTrails
    <3> QED BY <3>1, <3>2 DEF FileInv
  <2>5. PublishedReportExact
    BY <2>2, <2>3 DEF FileInv, PublishedReportExact
  <2> QED BY <2>4, <2>5 DEF ArtifactsTruthful, BackendReleasedBeforeVerdict, BackendInv
<1> QED
  BY SeqInvariant, NextFileInv, NextBackendInv, <1>1, <1>2, PTL DEF Spec

=============================================================================
