------------------------------ MODULE MCServices ------------------------------
(***************************************************************************)
(* The services, and beside them the reusable steps of a plan, checked     *)
(* together: a behaviour belongs to one part, as in Services. Reusable     *)
(* steps are defined by recursion, which the proofs about the services     *)
(* must not reach.                                                         *)
(***************************************************************************)
EXTENDS Services

CONSTANTS PlanVars, Given, StepIds, MaxCalls, MaxSaves

VARIABLES given, calls, registry, was, saves

Reuse == INSTANCE ReusableSteps

onlyReuse == <<given, calls, registry, was, saves>>
NoReuse ==
  /\ given = Absent /\ calls = Absent /\ registry = Absent /\ was = Absent
  /\ saves = Absent
NoServices == NoRegistry /\ NoRecorder /\ NoRuntime /\ NoRuns

AllInit ==
  \/ ServicesInit /\ NoReuse
  \/ part = "reuse" /\ Reuse!Init /\ NoServices

AllNext ==
  \/ ServicesNext /\ UNCHANGED onlyReuse
  \/ part = "reuse" /\ Reuse!Next /\ UNCHANGED all

AllSpec == AllInit /\ [][AllNext]_<<all, onlyReuse>>

windowVars == Recorder!vars
runtimeVars == Runtime!runtimeVars
Fairness ==
  /\ \A w \in Windows : WF_windowVars(part = "window" /\ Recorder!CompletionReady(w))
  /\ WF_windowVars(part = "window" /\ \E k \in workers : Recorder!WorkerEnds(k))
  /\ \A s \in 1 .. MaxSessions : WF_runtimeVars(part = "runtime" /\ Runtime!Supervisor(s))
FairSpec == AllSpec /\ Fairness

-----------------------------------------------------------------------------
(* A plan with reusable steps expands to what calling them means, also     *)
(* when they were cut out of it or come from its own snapshots (see        *)
(* ReusableSteps).                                                         *)
ReusableIsFaithful == part = "reuse" => Reuse!ReusableIsFaithful

(* A stop of a recording comes to an end while its window exists, and a    *)
(* stop request of a session reaches the application unless it ends or     *)
(* loses its supervisor.                                                   *)
StopsComplete ==
  /\ \A w \in Windows :
       (part = "window" /\ win[w].pending) ~> (part = "window" => ~ win[w].pending \/ w \notin alive)
  /\ \A s \in 1 .. MaxSessions :
       (part = "runtime" /\ s \in stopFile) ~>
         (part = "runtime" => stopSent[s] \/ app[s] # "running" \/ supervisor[s] = "dead")
=============================================================================
