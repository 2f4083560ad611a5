------------------------------- MODULE RunWind -------------------------------
(***************************************************************************)
(* run_wind() (core/executor.py): many coroutines on one event loop share  *)
(* the single-thread executor, join each other's queries, and abandon      *)
(* them on timeout or cancellation.                                        *)
(*                                                                         *)
(* A coroutine runs on the event loop's thread until it awaits, so a step  *)
(* of this module is one run of a coroutine from await to await, cut where *)
(* it can block the whole loop: on _inflight_lock, which the dedup hit     *)
(* keeps while it awaits, and on the session's lock.  The worker threads   *)
(* of the pools run wind_call_with_resilience, of which the session's      *)
(* contract keeps what other threads see (SessionContract).                *)
(*                                                                         *)
(* Each caller makes one call; the asyncio task its call creates, if it    *)
(* does, has the caller's name.                                            *)
(***************************************************************************)
EXTENDS Executor

CONSTANTS Keys,
          KeyOf,     \* the dedup key of each caller's query
          Loop,      \* the event loop's thread
          NoThread

Callers == Jobs
NoTask == NoJob

ASSUME KeyAssumption == KeyOf \in [Callers -> Keys]
ASSUME LoopAssumption == Loop \notin Executors /\ NoThread \notin Executors \cup {Loop}

VARIABLES
  holder, usable, fresh, poisoned, owing   \* the session: see SessionContract

VARIABLES
  inflight,       \* _inflight: the task a key leads to
  inflightLock,   \* the coroutine that holds _inflight_lock across an await
  loop,           \* what the loop's thread is doing
  caller,         \* where each caller's coroutine is
  joined,         \* the task it awaits
  task,           \* the state of each asyncio task
  on,             \* the pool each task was submitted to
  stage,          \* how far each worker is in wind_call_with_resilience
  retried,        \* has the worker's call recovered once?
  abandoned       \* history: tasks somebody timed out on, or was cancelled

session == <<holder, usable, fresh, poisoned, owing>>
dedup   == <<inflight, inflightLock>>
coros   == <<loop, caller, joined, task, on, abandoned>>
workers == <<stage, retried>>
vars    == <<globals, pools, session, dedup, coros, workers>>

Session == INSTANCE SessionContract WITH Threads <- Executors \cup {Loop}

Init ==
  /\ ExecutorInit
  /\ Session!SessionInit
  /\ inflight = [k \in Keys |-> NoTask]
  /\ inflightLock = NoTask
  /\ loop = "free"
  /\ caller = [c \in Callers |-> "new"]
  /\ joined = [c \in Callers |-> NoTask]
  /\ task = [c \in Callers |-> "none"]
  /\ on = [c \in Callers |-> None]
  /\ stage = [e \in Executors |-> "off"]
  /\ retried = [e \in Executors |-> FALSE]
  /\ abandoned = {}

-----------------------------------------------------------------------------
(* The event loop. *)

\* `with _inflight_lock` finds it free; nobody else can be inside.
LoopRuns == loop = "free" /\ inflightLock = NoTask

\* The key is not in flight: a task is created and awaited.
NewQuery(c) ==
  /\ LoopRuns
  /\ caller[c] = "new"
  /\ inflight[KeyOf[c]] = NoTask
  /\ inflight' = [inflight EXCEPT ![KeyOf[c]] = c]
  /\ task' = [task EXCEPT ![c] = "created"]
  /\ joined' = [joined EXCEPT ![c] = c]
  /\ caller' = [caller EXCEPT ![c] = "waiting"]
  /\ UNCHANGED <<globals, pools, session, workers, inflightLock, loop, on, abandoned>>

\* Dedup hit: `return await ...` inside the `with`, so the lock stays taken.
DedupHit(c) ==
  /\ LoopRuns
  /\ caller[c] = "new"
  /\ inflight[KeyOf[c]] # NoTask
  /\ inflightLock' = c
  /\ joined' = [joined EXCEPT ![c] = inflight[KeyOf[c]]]
  /\ caller' = [caller EXCEPT ![c] = "waiting"]
  /\ UNCHANGED <<globals, pools, session, workers, inflight, loop, task, on, abandoned>>

(* _execute() starts: _get_executor() and the submission.  Only this thread
   replaces pools here (RunWindSync has the other case), so no pool is shut
   down in between. *)
TaskStarts(c) ==
  /\ loop = "free"
  /\ task[c] = "created"
  /\ \E e \in Executors :
       /\ GetExecutor(e)
       /\ Submit(e, c)
       /\ on' = [on EXCEPT ![c] = e]
  /\ task' = [task EXCEPT ![c] = "submitted"]
  /\ UNCHANGED <<session, dedup, workers, loop, caller, joined, abandoned>>

\* _execute() resumes with the worker's outcome; `finally` pops the key.
TaskCompletes(c) ==
  /\ LoopRuns
  /\ task[c] = "returned"
  /\ inflight' = [inflight EXCEPT ![KeyOf[c]] = NoTask]
  /\ task' = [task EXCEPT ![c] = "done"]
  /\ UNCHANGED <<globals, pools, session, workers, inflightLock, loop, caller, joined, on, abandoned>>

\* The awaited task is done: the caller returns, leaving the `with` of a hit.
CallerReturns(c) ==
  /\ loop = "free"
  /\ caller[c] = "waiting"
  /\ task[joined[c]] = "done"
  /\ caller' = [caller EXCEPT ![c] = "answered"]
  /\ inflightLock' = IF inflightLock = c THEN NoTask ELSE inflightLock
  /\ UNCHANGED <<globals, pools, session, workers, inflight, loop, joined, task, on, abandoned>>

(* The timeout expires or the client disconnects: _abandon_query pops the
   key, recycles the executor and goes on to invalidate the session.  The
   task has started by then (it is ahead of any timer or cancellation in the
   loop's queue); it may even be done, when a cancellation reaches a caller
   that has been woken but not run. *)
Impatient(c) == caller[c] = "waiting" /\ task[joined[c]] # "created"

\* Mutant: the abandoned task stays in _inflight.
AbandonKeepsEntry(c) ==
  /\ LoopRuns
  /\ Impatient(c)
  /\ Recycle(current)
  /\ Session!Blame(Loop)
  /\ loop' = "invalidating"
  /\ caller' = [caller EXCEPT ![c] = "abandoning"]
  /\ abandoned' = abandoned \cup {joined[c]}
  /\ UNCHANGED <<dedup, workers, joined, task, on>>

\* Mutant: the session is not invalidated.
AbandonKeepsSession(c) ==
  /\ LoopRuns
  /\ Impatient(c)
  /\ inflight' = [inflight EXCEPT ![KeyOf[c]] = NoTask]
  /\ Recycle(current)
  /\ poisoned' = TRUE
  /\ caller' = [caller EXCEPT ![c] = "gaveUp"]
  /\ abandoned' = abandoned \cup {joined[c]}
  /\ UNCHANGED <<holder, usable, fresh, owing, workers, inflightLock, loop, joined, task, on>>

CallerAbandons(c) ==
  /\ LoopRuns
  /\ Impatient(c)
  /\ inflight' = [inflight EXCEPT ![KeyOf[c]] = NoTask]
  /\ Recycle(current)
  /\ Session!Blame(Loop)
  /\ loop' = "invalidating"
  /\ caller' = [caller EXCEPT ![c] = "abandoning"]
  /\ abandoned' = abandoned \cup {joined[c]}
  /\ UNCHANGED <<workers, inflightLock, joined, task, on>>

\* WindSession.invalidate() on the loop's thread: waits for the session lock.
SessionInvalidated(c) ==
  /\ loop = "invalidating"
  /\ caller[c] = "abandoning"
  /\ Session!Invalidate(Loop)
  /\ loop' = "free"
  /\ caller' = [caller EXCEPT ![c] = "gaveUp"]
  /\ UNCHANGED <<globals, pools, dedup, workers, joined, task, on, abandoned>>

(* Any of these finds _inflight_lock taken: the loop's thread blocks in
   acquire(), and the coroutine that would release it needs that thread. *)
LoopBlocks ==
  /\ loop = "free"
  /\ inflightLock # NoTask
  /\ \E c \in Callers : caller[c] = "new" \/ task[c] = "returned" \/ Impatient(c)
  /\ loop' = "blocked"
  /\ UNCHANGED <<globals, pools, session, dedup, workers, caller, joined, task, on, abandoned>>

-----------------------------------------------------------------------------
(* A worker thread: wind_call_with_resilience for the job it has taken. *)

WorkerTakes(e) ==
  /\ Take(e)
  /\ stage' = [stage EXCEPT ![e] = "connecting"]
  /\ retried' = [retried EXCEPT ![e] = FALSE]
  /\ UNCHANGED <<globals, session, dedup, coros>>

\* get() finds a usable, connected session.
WorkerReady(e) ==
  /\ stage[e] = "connecting" /\ ~retried[e]
  /\ holder = NoThread /\ usable
  /\ stage' = [stage EXCEPT ![e] = "querying"]
  /\ UNCHANGED <<globals, pools, session, dedup, coros, retried>>

\* get() does not, or this is the reconnect after a transport error.
WorkerLocks(e) ==
  /\ stage[e] = "connecting"
  /\ Session!Acquire(e) /\ ~fresh'
  /\ stage' = [stage EXCEPT ![e] = "locked"]
  /\ UNCHANGED <<globals, pools, dedup, coros, retried>>

\* w.start() is called; of the attempts reconnect() makes under one lock, the last.
WorkerRestarts(e) ==
  /\ stage[e] = "locked"
  /\ Session!Restart(e)
  /\ UNCHANGED <<globals, pools, dedup, coros, workers>>

\* Mutant: the session lock is kept for the query.
WorkerKeepsLock(e) ==
  /\ stage[e] = "locked" /\ fresh
  /\ usable' = TRUE
  /\ fresh' = FALSE
  /\ stage' = [stage EXCEPT ![e] = "querying"]
  /\ UNCHANGED <<holder, poisoned, owing, globals, pools, dedup, coros, retried>>

WorkerConnected(e) ==
  /\ stage[e] = "locked"
  /\ Session!Release(e) /\ usable'
  /\ stage' = [stage EXCEPT ![e] = "querying"]
  /\ UNCHANGED <<globals, pools, dedup, coros, retried>>

\* The job is over; its outcome is posted to the loop.
Post(e) ==
  \E c \in Callers :
    /\ Finish(e, c)
    /\ task' = [task EXCEPT ![c] = "returned"]
    /\ stage' = [stage EXCEPT ![e] = "off"]
    /\ UNCHANGED <<globals, dedup, loop, caller, joined, on, abandoned, retried>>

\* start or reconnect gave up.
WorkerNotConnected(e) ==
  /\ stage[e] = "locked" /\ fresh
  /\ Session!Release(e) /\ ~usable'
  /\ Post(e)

QueryReturns(e) == stage[e] = "querying" /\ Post(e) /\ UNCHANGED session

QueryHitsTransportError(e) ==
  /\ stage[e] = "querying"
  /\ Session!Blame(e)
  /\ stage' = [stage EXCEPT ![e] = "blaming"]
  /\ UNCHANGED <<globals, pools, dedup, coros, retried>>

\* The first transport error is followed by one recovery.
WorkerRecovers(e) ==
  /\ stage[e] = "blaming" /\ ~retried[e]
  /\ Session!Invalidate(e)
  /\ stage' = [stage EXCEPT ![e] = "connecting"]
  /\ retried' = [retried EXCEPT ![e] = TRUE]
  /\ UNCHANGED <<globals, pools, dedup, coros>>

WorkerGivesUp(e) ==
  /\ stage[e] = "blaming" /\ retried[e]
  /\ Session!Invalidate(e)
  /\ Post(e)

-----------------------------------------------------------------------------
Coroutine(c) ==
  \/ NewQuery(c) \/ DedupHit(c) \/ TaskStarts(c) \/ TaskCompletes(c)
  \/ CallerReturns(c) \/ CallerAbandons(c) \/ SessionInvalidated(c)

Lifecycle(e) ==
  \/ WorkerTakes(e) \/ WorkerReady(e) \/ WorkerLocks(e)
  \/ WorkerRecovers(e) \/ WorkerGivesUp(e)

SdkRestart(e) == WorkerRestarts(e) \/ WorkerConnected(e) \/ WorkerNotConnected(e)

Query(e) == QueryReturns(e) \/ QueryHitsTransportError(e)

Next ==
  \/ LoopBlocks
  \/ \E c \in Callers : Coroutine(c)
  \/ \E e \in Executors : Lifecycle(e) \/ SdkRestart(e) \/ Query(e)

Spec == Init /\ [][Next]_vars

(* The event loop runs what is ready, every timeout is finite (_call_timeout
   is positive), worker threads run and w.start and w.stop return.  Nothing is
   assumed of queries: they may wedge.  Which of several callers or workers goes
   first is left open: each has finitely many steps to make. *)
FairSpec ==
  /\ Spec
  /\ WF_vars(\E c \in Callers : \/ TaskStarts(c) \/ TaskCompletes(c)
                                 \/ CallerReturns(c) \/ SessionInvalidated(c))
  /\ WF_vars(\E c \in Callers : CallerAbandons(c))
  /\ WF_vars(LoopBlocks)
  /\ WF_vars(\E e \in Executors : Lifecycle(e))
  /\ WF_vars(\E e \in Executors : SdkRestart(e))

-----------------------------------------------------------------------------
TypeOK ==
  /\ ExecutorTypeOK
  /\ Session!ContractTypeOK
  /\ inflight \in [Keys -> Callers \cup {NoTask}]
  /\ inflightLock \in Callers \cup {NoTask}
  /\ loop \in {"free", "invalidating", "blocked"}
  /\ caller \in [Callers -> {"new", "waiting", "abandoning", "answered", "gaveUp"}]
  /\ joined \in [Callers -> Callers \cup {NoTask}]
  /\ task \in [Callers -> {"none", "created", "submitted", "returned", "done"}]
  /\ on \in [Callers -> Executors \cup {None}]
  /\ stage \in [Executors -> {"off", "connecting", "locked", "querying", "blaming"}]
  /\ retried \in [Executors -> BOOLEAN]
  /\ abandoned \in SUBSET Callers

(* "The next identical request is resubmitted to a fresh executor instead of
   waiting on the wedged one" (_await_with_timeout): the pool new requests go
   to never has an abandoned query queued or running. *)
CurrentPoolIsClean ==
  \A t \in abandoned :
    current # None => t \notin Queued(current) /\ job[current] # t

(* "No later dedup hit may join it": what _inflight leads to is a task of that
   key which nobody has abandoned and which is not over, whoever else has
   popped or set that key meanwhile. *)
InflightIsLive ==
  \A k \in Keys : inflight[k] # NoTask =>
    LET t == inflight[k] IN
      /\ KeyOf[t] = k
      /\ t \notin abandoned
      /\ task[t] \in {"created", "submitted", "returned"}

(* "... so the next call rebuilds the Wind connection on the fresh executor
   instead of reusing a possibly poisoned one" (_abandon_query): a query
   never starts on a session that was blamed since its last restart, unless
   the one who blamed it has not come to invalidate it yet. *)
QueriesStartOnRebuiltSession ==
  [][\A e \in Executors :
       stage[e] # "querying" /\ stage'[e] = "querying" /\ poisoned' => owing # {}]_vars

(* "One stuck COM call cannot starve every later request forever" (run_wind):
   every call ends, with a result, an error or a timeout. *)
EveryCallEnds ==
  \A c \in Callers : caller[c] = "waiting" ~> caller[c] \in {"answered", "gaveUp"}

(* The same of any calls, whatever they share: nothing but a dedup hit, which
   awaits with _inflight_lock taken, keeps a call from ending. *)
OnlyDedupHitsBlock ==
  \A c \in Callers :
    caller[c] = "waiting" ~> caller[c] \in {"answered", "gaveUp"} \/ inflightLock # NoTask

(* "If the same query is already running, subsequent callers await the same
   Future instead of firing a duplicate" (executor.py, first lines). *)
NoDuplicateQuery ==
  \A s, t \in Callers :
    /\ s # t /\ KeyOf[s] = KeyOf[t]
    /\ task[s] = "submitted" /\ task[t] = "submitted"
    => s \in abandoned \/ t \in abandoned

(* "On timeout the wedged executor is abandoned" (run_wind).  What an
   abandonment shuts down is whatever pool is current; that it is another one
   than the abandoned query was submitted to happens only when the query's own
   pool is shut already, so no pool is lost to the first timeout on another. *)
LosesPoolOnlyToLateTimeout ==
  [][\A c \in Callers :
       caller[c] = "waiting" /\ caller'[c] = "abandoning" /\ on[joined[c]] \notin shut
         => shut' = shut \cup {on[joined[c]]}]_vars
=============================================================================
