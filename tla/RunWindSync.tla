----------------------------- MODULE RunWindSync -----------------------------
(***************************************************************************)
(* run_wind_sync() and shutdown_executor() (core/executor.py) called from  *)
(* any number of threads: every tool of the server reaches Wind through    *)
(* run_wind_sync, and shutdown_executor is meant to be "safe to call from  *)
(* per-session teardown and multiple times".                               *)
(*                                                                         *)
(* _get_executor() and .submit() are two steps, as are the two halves of   *)
(* shutdown_executor(): other threads run in between.                      *)
(***************************************************************************)
EXTENDS Executor

CONSTANTS Terminators,   \* the threads that call shutdown_executor()
          MaxCalls       \* bound: calls begun in one behaviour

Callers == Jobs          \* a caller has one job at a time, named after it

ASSUME DisjointThreads == Callers \cap Terminators = {}
ASSUME CallsAssumption == MaxCalls \in Nat

Threads == Callers \cup Terminators

VARIABLES
  pc,
  handle,     \* the pool a thread got hold of
  calls,      \* calls begun so far
  overtaken   \* history: a shutdown has begun since this caller got its pool

vars == <<globals, pools, pc, handle, calls, overtaken>>

Init ==
  /\ ExecutorInit
  /\ pc = [t \in Threads |-> "idle"]
  /\ handle = [t \in Threads |-> None]
  /\ calls = 0
  /\ overtaken = {}

Goto(t, label) == pc' = [pc EXCEPT ![t] = label]

\* run_wind_sync: _get_executor() ...
CallerGets(c) ==
  /\ pc[c] \in {"idle", "rejected"}
  /\ calls < MaxCalls
  /\ calls' = calls + 1
  /\ \E e \in Executors : GetExecutor(e) /\ handle' = [handle EXCEPT ![c] = e]
  /\ overtaken' = overtaken \ {c}
  /\ Goto(c, "holding")
  /\ UNCHANGED pools

\* ... .submit(...), then it blocks in future.result() ...
CallerSubmits(c) ==
  /\ pc[c] = "holding"
  /\ Submit(handle[c], c)
  /\ Goto(c, "waiting")
  /\ UNCHANGED <<globals, handle, calls, overtaken>>

\* ... or RuntimeError: cannot schedule new futures after shutdown.
CallerRejected(c) ==
  /\ pc[c] = "holding"
  /\ handle[c] \in shut
  /\ Goto(c, "rejected")
  /\ UNCHANGED <<globals, pools, handle, calls, overtaken>>

WorkerTakes(e) == Take(e) /\ UNCHANGED <<globals, pc, handle, calls, overtaken>>

\* The wrapped call returns or raises; its caller wakes up with the outcome.
WorkerFinishes(e) ==
  \E c \in Callers :
    /\ Finish(e, c)
    /\ Goto(c, "idle")
    /\ UNCHANGED <<globals, handle, calls, overtaken>>

\* Mutant: no test for "no pool".
ShutdownBeginsUnchecked(x) ==
  /\ pc[x] = "idle"
  /\ calls < MaxCalls
  /\ calls' = calls + 1
  /\ Capture(current)
  /\ handle' = [handle EXCEPT ![x] = current]
  /\ overtaken' = overtaken \cup {c \in Callers : pc[c] = "holding"}
  /\ Goto(x, "closing")

\* shutdown_executor: under the lock ...
ShutdownBegins(x) ==
  /\ pc[x] = "idle"
  /\ calls < MaxCalls
  /\ calls' = calls + 1
  /\ Capture(current)
  /\ handle' = [handle EXCEPT ![x] = current]
  /\ overtaken' = overtaken \cup {c \in Callers : pc[c] = "holding"}
  /\ Goto(x, IF current = None THEN "idle" ELSE "closing")

\* ... then executor.shutdown(wait=True): no new jobs, join the worker.
ShutdownCloses(x) ==
  /\ pc[x] = "closing"
  /\ Close(handle[x])
  /\ Goto(x, "joining")
  /\ UNCHANGED <<globals, handle, calls, overtaken>>

ShutdownReturns(x) ==
  /\ pc[x] = "joining"
  /\ Drained(handle[x])
  /\ Goto(x, "idle")
  /\ UNCHANGED <<globals, pools, handle, calls, overtaken>>

Caller(c) == CallerGets(c) \/ CallerSubmits(c) \/ CallerRejected(c)
Worker(e) == WorkerTakes(e) \/ WorkerFinishes(e)
Terminator(x) == ShutdownBegins(x) \/ ShutdownCloses(x) \/ ShutdownReturns(x)

Next == \/ \E c \in Callers : Caller(c)
        \/ \E e \in Executors : Worker(e)
        \/ \E x \in Terminators : Terminator(x)

Spec == Init /\ [][Next]_vars

(* Wind calls return ("The executor waits for WindPy to return", README):
   a caller of run_wind_sync has no timeout of its own. *)
FairSpec ==
  /\ Spec
  /\ \A e \in Executors : WF_vars(Worker(e))
  /\ \A x \in Terminators : WF_vars(ShutdownCloses(x) \/ ShutdownReturns(x))

-----------------------------------------------------------------------------
TypeOK ==
  /\ ExecutorTypeOK
  /\ pc \in [Threads -> {"idle", "holding", "waiting", "rejected", "closing", "joining"}]
  /\ handle \in [Threads -> Executors \cup {None}]
  /\ calls \in 0..MaxCalls
  /\ overtaken \in SUBSET Callers

(* The pool that _get_executor() would return is open, and no thread half-way
   through shutdown_executor() is about to close it. *)
GetReturnsOpenPool ==
  running => /\ current # None
             /\ current \notin shut
             /\ \A x \in Terminators : pc[x] = "closing" => handle[x] # current

(* "The next Wind API call transparently creates a fresh executor": a call is
   refused only if a shutdown began after the call had got its pool.  One that
   began earlier, however far it has come, never costs a call. *)
RejectedOnlyIfOvertaken ==
  \A c \in Callers : pc[c] = "rejected" => c \in overtaken

(* A job that was accepted is run to its end although its pool is shut down
   meanwhile, and shutdown_executor() returns, although other threads create
   further pools and submit to them. *)
AcceptedAndJoined ==
  \A t \in Threads : pc[t] \in {"waiting", "joining"} ~> pc[t] = "idle"

(* executor.py: "Single-thread executor - guarantees WindPy calls are
   serialized": no two pools run a call at the same time. *)
CallsAreSerialized ==
  \A d, e \in Executors : job[d] # NoJob /\ job[e] # NoJob => d = e
=============================================================================
