---------------------------- MODULE AtspiRegistry ----------------------------
(***************************************************************************)
(* drivers/atspi_registry.py: the process has one native AT-SPI registry   *)
(* whose dispatch loop is entered by at most one thread. Clients hold      *)
(* leases while they listen; an application that ends shuts the loop down  *)
(* once no client is left.                                                 *)
(*                                                                         *)
(* An action is what happens between two releases of the lock, or one call *)
(* of the native registry. Threads are numbered in the order in which they *)
(* are created.                                                            *)
(***************************************************************************)
EXTENDS Integers, FiniteSets

CONSTANTS
  Clients,
  MaxThreads          \* bound on the registry threads created

ASSUME ClientsAssumption == IsFiniteSet(Clients)
ASSUME ThreadsAssumption == MaxThreads \in Nat

Threads == 1 .. MaxThreads
NoThread == 0

VARIABLES
  users,              \* _users
  thread,             \* _thread
  started,            \* _started
  native,             \* where each registry thread is
  client,             \* what each client is doing
  lease,              \* the last lease of each client
  joining             \* the thread shutdown waits for

vars == <<users, thread, started, native, client, lease, joining>>

Init ==
  /\ users = 0 /\ thread = NoThread /\ started = FALSE
  /\ native = [t \in Threads |-> "unborn"]
  /\ client = [c \in Clients |-> "away"]
  /\ lease = [c \in Clients |-> "none"]
  /\ joining = NoThread

-----------------------------------------------------------------------------
(* acquire, close, release *)

Unborn == {t \in Threads : native[t] = "unborn" /\ \A s \in Threads : s < t => native[s] # "unborn"}

Acquire(c) ==
  /\ client[c] = "away"
  /\ client' = [client EXCEPT ![c] = "waiting"]
  /\ users' = users + 1
  /\ \/ /\ thread = NoThread
        /\ \E t \in Unborn :
             thread' = t /\ native' = [native EXCEPT ![t] = "spawned"]
        /\ started' = FALSE
     \/ thread # NoThread /\ UNCHANGED <<thread, native, started>>
  /\ UNCHANGED <<lease, joining>>

Granted(c) ==
  /\ client[c] = "waiting" /\ started
  /\ client' = [client EXCEPT ![c] = "working"]
  /\ lease' = [lease EXCEPT ![c] = "open"]
  /\ UNCHANGED <<users, thread, started, native, joining>>

AcquireTimesOut(c) ==
  /\ client[c] = "waiting" /\ ~ started
  /\ client' = [client EXCEPT ![c] = "releasing"]
  /\ UNCHANGED <<users, thread, started, native, lease, joining>>

(* Mutant: closing twice releases twice. *)
CloseAgain(c) ==
  /\ client[c] \in {"away", "working"} /\ lease[c] # "none"
  /\ lease' = [lease EXCEPT ![c] = "closed"]
  /\ client' = [client EXCEPT ![c] = "releasing"]
  /\ UNCHANGED <<users, thread, started, native, joining>>

(* AtspiRegistryLease.close; closing a closed lease does nothing. *)
Close(c) ==
  /\ client[c] \in {"away", "working"} /\ lease[c] = "open"
  /\ lease' = [lease EXCEPT ![c] = "closed"]
  /\ client' = [client EXCEPT ![c] = "releasing"]
  /\ UNCHANGED <<users, thread, started, native, joining>>

Release(c) ==
  /\ client[c] = "releasing"
  /\ client' = [client EXCEPT ![c] = "away"]
  /\ users' = IF users > 0 THEN users - 1 ELSE users
  /\ UNCHANGED <<thread, started, native, lease, joining>>

-----------------------------------------------------------------------------
(* The registry thread: _run. Registry.start() returns after a stop(); a   *)
(* stop() that finds no running loop has no effect.                        *)

Run(t) ==
  /\ native[t] = "spawned"
  /\ started' = TRUE
  /\ native' = [native EXCEPT ![t] = "entering"]
  /\ UNCHANGED <<users, thread, client, lease, joining>>

EnterLoop(t) ==
  /\ native[t] = "entering"
  /\ native' = [native EXCEPT ![t] = "dispatching"]
  /\ UNCHANGED <<users, thread, started, client, lease, joining>>

LeaveLoop(t) ==
  /\ native[t] = "unwinding"
  /\ native' = [native EXCEPT ![t] = "ended"]
  /\ UNCHANGED <<users, thread, started, client, lease, joining>>

RegistryStop ==
  native' = [t \in Threads |-> IF native[t] = "dispatching" THEN "unwinding" ELSE native[t]]

-----------------------------------------------------------------------------
(* shutdown *)

(* Mutant: a client that still holds a lease is ignored. *)
ShutdownUnderLease ==
  /\ joining = NoThread /\ thread # NoThread
  /\ RegistryStop /\ joining' = thread
  /\ UNCHANGED <<users, thread, started, client, lease>>

Shutdown ==
  /\ joining = NoThread /\ users = 0 /\ thread # NoThread
  /\ RegistryStop /\ joining' = thread
  /\ UNCHANGED <<users, thread, started, client, lease>>

(* Mutant: the thread is forgotten before it ended. *)
ForgetThread ==
  /\ joining # NoThread
  /\ thread' = IF thread = joining THEN NoThread ELSE thread
  /\ joining' = NoThread
  /\ UNCHANGED <<users, started, native, client, lease>>

Joined ==
  /\ joining # NoThread /\ native[joining] = "ended"
  /\ thread' = IF thread = joining THEN NoThread ELSE thread
  /\ joining' = NoThread
  /\ UNCHANGED <<users, started, native, client, lease>>

JoinTimesOut ==
  /\ joining # NoThread /\ native[joining] # "ended"
  /\ joining' = NoThread
  /\ UNCHANGED <<users, thread, started, native, client, lease>>

-----------------------------------------------------------------------------
Next ==
  \/ \E c \in Clients : \/ Acquire(c) \/ Granted(c) \/ AcquireTimesOut(c)
                        \/ Close(c) \/ Release(c)
  \/ \E t \in Threads : Run(t) \/ EnterLoop(t) \/ LeaveLoop(t)
  \/ Shutdown \/ Joined \/ JoinTimesOut

Spec == Init /\ [][Next]_vars

-----------------------------------------------------------------------------
(* Properties *)

Shape ==
  /\ users \in Nat
  /\ thread \in Threads \cup {NoThread} /\ joining \in Threads \cup {NoThread}
  /\ started \in BOOLEAN
  /\ native \in [Threads -> {"unborn", "spawned", "entering", "dispatching", "unwinding", "ended"}]
  /\ client \in [Clients -> {"away", "waiting", "working", "releasing"}]
  /\ lease \in [Clients -> {"none", "open", "closed"}]

LeasesOpenAtWork == \A c \in Clients : lease[c] = "open" => client[c] = "working"

(* Counter, thread, clients and leases stay within their values, and a     *)
(* client that is not working has no open lease.                           *)
TypeOK == Shape /\ LeasesOpenAtWork

Dispatchers == {t \in Threads : native[t] \in {"dispatching", "unwinding"}}

(* Registry.start() is never called while another thread is still in it,   *)
(* however acquire, shutdown and the threads interleave.                   *)
OneDispatcher == \A s, t \in Dispatchers : s = t

Using == {c \in Clients : client[c] \in {"waiting", "working", "releasing"}}

(* The reference count is the number of clients that still owe a release,  *)
(* whatever acquisitions time out and however often a lease is closed.     *)
UsersCounted == users = Cardinality(Using)

(* The native loop is never stopped while a client uses it.                *)
StopsOnlyIdleLoop ==
  [][(\E t \in Threads : native[t] = "dispatching" /\ native'[t] = "unwinding")
       => Using = {}]_vars
=============================================================================
