------------------------------ MODULE Executor ------------------------------
(***************************************************************************)
(* The shared single-thread executor of core/executor.py: the globals      *)
(* _executor and _executor_running, and the thread pools they have         *)
(* referred to.  This module has the operations; RunWindSync and RunWind   *)
(* are the two kinds of client.                                            *)
(*                                                                         *)
(* Every critical section under _executor_lock is one step: nothing in it  *)
(* blocks.  Pools are numbered in the order of their creation.             *)
(*                                                                         *)
(* A pool (concurrent.futures.ThreadPoolExecutor with one worker) is       *)
(* external: it runs its jobs one by one in the order of submission,       *)
(* refuses jobs once it is shut down, and finishes those it has accepted.  *)
(***************************************************************************)
EXTENDS Naturals, Sequences

CONSTANTS Jobs,          \* what can be submitted
          NoJob,
          MaxExecutors   \* bound: pools created in one behaviour

Executors == 1..MaxExecutors
None == 0                \* no pool

ASSUME ExecutorsAssumption == MaxExecutors \in Nat
ASSUME NoJobAssumption == NoJob \notin Jobs

VARIABLES
  current,    \* _executor
  running,    \* _executor_running
  made,       \* number of pools created
  shut,       \* the pools that refuse new jobs
  queue,      \* jobs accepted and not yet taken, by pool
  job         \* what each pool's thread is running

globals == <<current, running, made>>
pools   == <<shut, queue, job>>

ExecutorInit ==
  /\ current = None
  /\ running = FALSE
  /\ made = 0
  /\ shut = {}
  /\ queue = [e \in Executors |-> <<>>]
  /\ job = [e \in Executors |-> NoJob]

\* Mutant: _executor_running is not looked at.
GetExecutorIgnoringRunning(e) ==
  IF current # None
  THEN e = current /\ UNCHANGED globals
  ELSE /\ made < MaxExecutors
       /\ e = made + 1
       /\ made' = e
       /\ current' = e
       /\ running' = TRUE

\* Mutant: the test of the flag is inverted, so every call makes a pool.
GetExecutorFlagInverted(e) ==
  IF ~running /\ current # None
  THEN e = current /\ UNCHANGED globals
  ELSE /\ made < MaxExecutors
       /\ e = made + 1
       /\ made' = e
       /\ current' = e
       /\ running' = TRUE

\* _get_executor() returns e.
GetExecutor(e) ==
  IF running /\ current # None
  THEN e = current /\ UNCHANGED globals
  ELSE /\ made < MaxExecutors
       /\ e = made + 1
       /\ made' = e
       /\ current' = e
       /\ running' = TRUE

\* Mutant: the flag is not lowered.
CaptureKeepsRunning(e) == e = current /\ UNCHANGED <<globals, pools>>

\* The first half of shutdown_executor(): _executor is remembered, not cleared.
Capture(e) ==
  /\ e = current
  /\ running' = FALSE
  /\ UNCHANGED <<current, made, pools>>

\* Mutant: no test for "no pool".
RecycleUnchecked(e) ==
  /\ e = current
  /\ current' = None
  /\ running' = FALSE
  /\ shut' = shut \cup {e}
  /\ UNCHANGED <<made, queue, job>>

\* Mutant: the old pool is shut down but stays the shared one.
RecycleKeepsPool(e) ==
  /\ e = current
  /\ shut' = shut \cup ({e} \ {None})
  /\ UNCHANGED <<globals, queue, job>>

\* _recycle_executor(); e is the pool it abandons, if there was one.
Recycle(e) ==
  /\ e = current
  /\ current' = None
  /\ running' = FALSE
  /\ shut' = shut \cup ({e} \ {None})
  /\ UNCHANGED <<made, queue, job>>

-----------------------------------------------------------------------------
(* Thread pools. *)

Submit(e, j) ==
  /\ e \notin shut
  /\ queue' = [queue EXCEPT ![e] = Append(@, j)]
  /\ UNCHANGED <<shut, job>>

\* Mutant: shutting a pool down drops the jobs it has accepted.
TakeUnlessShut(e) ==
  /\ e \notin shut
  /\ job[e] = NoJob
  /\ queue[e] # <<>>
  /\ job' = [job EXCEPT ![e] = Head(queue[e])]
  /\ queue' = [queue EXCEPT ![e] = Tail(@)]
  /\ UNCHANGED shut

Take(e) ==
  /\ job[e] = NoJob
  /\ queue[e] # <<>>
  /\ job' = [job EXCEPT ![e] = Head(queue[e])]
  /\ queue' = [queue EXCEPT ![e] = Tail(@)]
  /\ UNCHANGED shut

Finish(e, j) ==
  /\ job[e] = j
  /\ j # NoJob
  /\ job' = [job EXCEPT ![e] = NoJob]
  /\ UNCHANGED <<shut, queue>>

Close(e) == shut' = shut \cup {e} /\ UNCHANGED <<queue, job>>

Drained(e) == queue[e] = <<>> /\ job[e] = NoJob

Queued(e) == {queue[e][i] : i \in 1..Len(queue[e])}

ExecutorTypeOK ==
  /\ current \in Executors \cup {None}
  /\ running \in BOOLEAN
  /\ made \in 0..MaxExecutors
  /\ shut \in SUBSET Executors
  /\ queue \in [Executors -> Seq(Jobs)]
  /\ job \in [Executors -> Jobs \cup {NoJob}]
=============================================================================
