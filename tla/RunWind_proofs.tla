---------------------------- MODULE RunWind_proofs ----------------------------
(***************************************************************************)
(* Proofs about RunWind, for any set of callers, any keys shared in any    *)
(* way, and any number of pools.                                           *)
(***************************************************************************)
EXTENDS RunWind, Executor_proofs

Begun == {"submitted", "returned", "done"}

\* A call that has not run has no task; one that waits, waits for a task of its key.
CallerInv ==
  \A c \in Callers :
    /\ caller[c] = "new" => task[c] = "none"
    /\ caller[c] = "waiting" =>
         joined[c] \in Callers /\ KeyOf[joined[c]] = KeyOf[c] /\ task[joined[c]] # "none"

\* A job is on the pool its task was submitted to, and nowhere before that.
JobInv ==
  \A e \in Executors : \A t \in Callers :
    t \in Queued(e) \/ job[e] = t => on[t] = e /\ task[t] \in Begun

\* Pools are numbered as they are made.
MadeInv == current <= made /\ \A t \in Callers : on[t] <= made

\* Whatever was abandoned had begun, on a pool that is not the shared one any more.
AbandonInv ==
  \A t \in abandoned : task[t] \in Begun /\ (current # None => on[t] # current)

\* The pool of a task that has begun is shut down, or still the shared one, which
\* is never replaced while it is there.
PoolsInv ==
  /\ current # None => running
  /\ \A t \in Callers : task[t] \in Begun => on[t] \in shut \cup ({current} \ {None})

IInv ==
  /\ TypeOK /\ CallerInv /\ JobInv /\ MadeInv /\ AbandonInv /\ PoolsInv
  /\ InflightIsLive

-----------------------------------------------------------------------------
(* What the steps do to the program's own variables, leaving the session aside:
   every worker step either takes a job, ends one, or moves only the worker. *)
WorkerStep(e) == Lifecycle(e) \/ SdkRestart(e) \/ Query(e)

(* A step of a worker leaves the loop's side alone but for the outcome it posts. *)
LEMMA WorkerEffect ==
  ASSUME NEW e \in Executors, WorkerStep(e)
  PROVE  /\ UNCHANGED <<globals, shut, dedup, loop, caller, joined, on, abandoned>>
         /\ \/ UNCHANGED <<queue, job, task>>
            \/ Take(e) /\ task' = task
            \/ \E c \in Callers : Finish(e, c) /\ task' = [task EXCEPT ![c] = "returned"]
<1> USE DEF pools, coros, Take, Finish
<1>1. CASE WorkerTakes(e)
  BY <1>1 DEF WorkerTakes
<1>2. CASE WorkerReady(e) \/ WorkerLocks(e) \/ WorkerRecovers(e)
  BY <1>2 DEF WorkerReady, WorkerLocks, WorkerRecovers
<1>3. CASE WorkerRestarts(e) \/ WorkerConnected(e)
  BY <1>3 DEF WorkerRestarts, WorkerConnected
<1>4. CASE QueryHitsTransportError(e)
  BY <1>4 DEF QueryHitsTransportError
<1>5. CASE WorkerGivesUp(e) \/ WorkerNotConnected(e) \/ QueryReturns(e)
  BY <1>5 DEF WorkerGivesUp, WorkerNotConnected, QueryReturns, Post
<1> QED
  BY <1>1, <1>2, <1>3, <1>4, <1>5 DEF WorkerStep, Lifecycle, SdkRestart, Query

-----------------------------------------------------------------------------
(* What RunWind does to the session is what its contract allows. *)
LEMMA SessionStep ==
  ASSUME TypeOK, [Next]_vars
  PROVE  [Session!SessionNext]_session
<1> USE DEF Session!SessionNext, session
<1>1. CASE UNCHANGED vars
  BY <1>1 DEF vars
<1>2. CASE LoopBlocks
  BY <1>2 DEF LoopBlocks
<1>3. ASSUME NEW c \in Callers, Coroutine(c)
      PROVE  [Session!SessionNext]_session
  <2>1. CASE CallerAbandons(c)
    BY <2>1 DEF CallerAbandons
  <2>2. CASE SessionInvalidated(c)
    BY <2>2 DEF SessionInvalidated
  <2>3. CASE NewQuery(c) \/ DedupHit(c) \/ TaskStarts(c) \/ TaskCompletes(c) \/ CallerReturns(c)
    BY <2>3 DEF NewQuery, DedupHit, TaskStarts, TaskCompletes, CallerReturns
  <2> QED
    BY <1>3, <2>1, <2>2, <2>3 DEF Coroutine
<1>4. ASSUME NEW e \in Executors, WorkerTakes(e) \/ WorkerReady(e) \/ QueryReturns(e)
      PROVE  UNCHANGED session
  BY <1>4 DEF WorkerTakes, WorkerReady, QueryReturns
<1>5. ASSUME NEW e \in Executors,
             \/ WorkerLocks(e) \/ WorkerRecovers(e) \/ WorkerGivesUp(e) \/ WorkerRestarts(e)
             \/ WorkerConnected(e) \/ WorkerNotConnected(e) \/ QueryHitsTransportError(e)
      PROVE  Session!SessionNext
  BY <1>5 DEF WorkerLocks, WorkerRecovers, WorkerGivesUp, WorkerRestarts, WorkerConnected,
              WorkerNotConnected, QueryHitsTransportError
<1> QED
  BY <1>1, <1>2, <1>3, <1>4, <1>5 DEF Next, Lifecycle, SdkRestart, Query

\* The contract's invariant: a restart under way is as innocent as the session it
\* will make usable.
SessionInv ==
  /\ Session!ContractTypeOK
  /\ fresh => holder # NoThread
  /\ usable => holder = NoThread
  /\ (usable \/ fresh) /\ poisoned => owing # {}

(* A step the contract allows keeps a blamed session from being usable, or about
   to be, unless somebody owes the invalidation. *)
LEMMA SessionInvStep ==
  ASSUME SessionInv, [Session!SessionNext]_session
  PROVE  SessionInv'
<1> USE LoopAssumption DEF SessionInv, Session!ContractTypeOK
<1> DEFINE Users == Executors \cup {Loop}
<1>0. NoThread \notin Users
  OBVIOUS
<1>1. CASE UNCHANGED session
  BY <1>1 DEF session
<1>2. ASSUME NEW t \in Users, Session!Acquire(t)
      PROVE  SessionInv'
  BY <1>0, <1>2 DEF Session!Acquire
<1>3. ASSUME NEW t \in Users, Session!Restart(t)
      PROVE  SessionInv'
  BY <1>0, <1>3 DEF Session!Restart
<1>4. ASSUME NEW t \in Users, Session!RestartFails(t)
      PROVE  SessionInv'
  BY <1>0, <1>4 DEF Session!RestartFails
<1>5. ASSUME NEW t \in Users, Session!Release(t)
      PROVE  SessionInv'
  <2>1. CASE usable' = FALSE
    BY <1>5, <2>1 DEF Session!Release
  <2>2. CASE fresh = TRUE /\ usable' = fresh
    BY <1>5, <2>2 DEF Session!Release
  <2> QED
    BY <1>5, <2>1, <2>2 DEF Session!Release
<1>6. ASSUME NEW t \in Users, Session!Blame(t)
      PROVE  SessionInv'
  BY <1>0, <1>6 DEF Session!Blame
<1>7. ASSUME NEW t \in Users, Session!Invalidate(t)
      PROVE  SessionInv'
  BY <1>0, <1>7 DEF Session!Invalidate
<1> QED
  BY <1>1, <1>2, <1>3, <1>4, <1>5, <1>6, <1>7 DEF Session!SessionNext

(* Every run of the contract keeps its promise, for any pools: a session that was
   blamed is usable only while somebody still owes the invalidation.  By
   KeepsTheContract this holds of RunWind. *)
THEOREM PromiseKept == Session!SessionSpec => []Session!BlameNotForgotten
<1>1. Session!SessionInit => SessionInv
  BY DEF Session!SessionInit, SessionInv, Session!ContractTypeOK
<1>2. SessionInv /\ [Session!SessionNext]_(Session!sessionVars) => SessionInv'
  BY SessionInvStep DEF session, Session!sessionVars
<1>3. SessionInv => Session!BlameNotForgotten
  BY DEF SessionInv, Session!BlameNotForgotten
<1> QED
  BY <1>1, <1>2, <1>3, PTL DEF Session!SessionSpec

(* A worker goes on to its query only through get() or a restart; both leave a
   session that nobody is left to blame, or that was not blamed. *)
LEMMA QueryStart ==
  ASSUME TypeOK, SessionInv, [Next]_vars, NEW e \in Executors,
         stage[e] # "querying", stage'[e] = "querying", poisoned'
  PROVE  owing # {}
<1> USE DEF TypeOK, SessionInv, Session!ContractTypeOK
<1>1. WorkerReady(e) \/ WorkerConnected(e)
  <2>1. ~UNCHANGED stage
    OBVIOUS
  <2>2. PICK d \in Executors : Lifecycle(d) \/ SdkRestart(d) \/ Query(d)
    BY <2>1 DEF Next, vars, workers, LoopBlocks, Coroutine, NewQuery, DedupHit, TaskStarts,
       TaskCompletes, CallerReturns, CallerAbandons, SessionInvalidated
  <2>3. CASE WorkerReady(d) \/ WorkerConnected(d)
    BY <2>3 DEF WorkerReady, WorkerConnected
  <2>4. CASE WorkerTakes(d) \/ WorkerLocks(d) \/ WorkerRecovers(d) \/ WorkerRestarts(d)
    BY <2>4 DEF WorkerTakes, WorkerLocks, WorkerRecovers, WorkerRestarts, workers
  <2>5. CASE WorkerGivesUp(d) \/ WorkerNotConnected(d) \/ QueryReturns(d) \/ QueryHitsTransportError(d)
    BY <2>5 DEF WorkerGivesUp, WorkerNotConnected, QueryReturns, QueryHitsTransportError, Post
  <2> QED
    BY <2>2, <2>3, <2>4, <2>5 DEF Lifecycle, SdkRestart, Query
<1>2. CASE WorkerReady(e)
  BY <1>2 DEF WorkerReady, session
<1>3. CASE WorkerConnected(e)
  BY <1>3 DEF WorkerConnected, Session!Release
<1> QED
  BY <1>1, <1>2, <1>3

-----------------------------------------------------------------------------
(* Every step keeps the types. *)
LEMMA TypeStep ==
  ASSUME TypeOK, CallerInv, SessionInv, [Next]_vars
  PROVE  TypeOK'
<1>0. Session!ContractTypeOK'
  BY SessionStep, SessionInvStep DEF SessionInv
<1>a. \A e \in Executors : GetExecutor(e) =>
        current' = e /\ running' = TRUE /\ made' \in 0..MaxExecutors
  <2>1. ExecutorTypeOK /\ made \in 0..MaxExecutors
    BY DEF TypeOK, ExecutorTypeOK
  <2>2. \A e \in Executors : GetExecutor(e) =>
          current' = e /\ running' = TRUE /\ (made' = made \/ made' = e)
    BY <2>1, GetExecutorResult
  <2>3. \A e \in Executors : e \in 0..MaxExecutors
    BY ExecutorsAssumption DEF Executors
  <2> QED
    BY <2>1, <2>2, <2>3
<1> USE <1>0, ExecutorsAssumption, NoJobAssumption, KeyAssumption
    DEF TypeOK, ExecutorTypeOK, Callers, NoTask, None, globals, pools, dedup, coros, workers
<1>1. CASE UNCHANGED vars
  BY <1>1 DEF vars
<1>2. CASE LoopBlocks
  BY <1>2 DEF LoopBlocks
<1>3. ASSUME NEW c \in Callers, NewQuery(c)
      PROVE  TypeOK'
  BY <1>3 DEF NewQuery
<1>4. ASSUME NEW c \in Callers, DedupHit(c)
      PROVE  TypeOK'
  BY <1>4 DEF DedupHit
<1>5. ASSUME NEW c \in Callers, TaskStarts(c)
      PROVE  TypeOK'
  <2>1. PICK e \in Executors : GetExecutor(e) /\ Submit(e, c) /\ on' = [on EXCEPT ![c] = e]
    BY <1>5 DEF TaskStarts
  <2>2. current' \in Executors \cup {None} /\ running' \in BOOLEAN
    BY <2>1, <1>a
  <2>5. made' \in 0..MaxExecutors
    BY <2>1, <1>a
  <2>3. queue' \in [Executors -> Seq(Jobs)] /\ shut' = shut /\ job' = job
    BY <2>1 DEF Submit
  <2>4. on' \in [Callers -> Executors \cup {None}]
    BY <2>1
  <2> QED
    BY <1>5, <2>2, <2>3, <2>4, <2>5 DEF TaskStarts
<1>6. ASSUME NEW c \in Callers, TaskCompletes(c)
      PROVE  TypeOK'
  BY <1>6 DEF TaskCompletes
<1>7. ASSUME NEW c \in Callers, CallerReturns(c)
      PROVE  TypeOK'
  BY <1>7 DEF CallerReturns
<1>8. ASSUME NEW c \in Callers, CallerAbandons(c)
      PROVE  TypeOK'
  <2>1. joined[c] \in Callers
    BY <1>8 DEF CallerAbandons, Impatient, CallerInv
  <2> QED
    BY <1>8, <2>1 DEF CallerAbandons, Recycle
<1>9. ASSUME NEW c \in Callers, SessionInvalidated(c)
      PROVE  TypeOK'
  BY <1>9 DEF SessionInvalidated
<1>10. ASSUME NEW e \in Executors, WorkerStep(e)
       PROVE  TypeOK'
  <2>1. stage' \in [Executors -> {"off", "connecting", "locked", "querying", "blaming"}]
    BY <1>10 DEF WorkerStep, Lifecycle, SdkRestart, Query, WorkerTakes, WorkerReady, WorkerLocks,
       WorkerRestarts, WorkerConnected, WorkerNotConnected, QueryReturns, QueryHitsTransportError,
       WorkerRecovers, WorkerGivesUp, Post
  <2>2. retried' \in [Executors -> BOOLEAN]
    BY <1>10 DEF WorkerStep, Lifecycle, SdkRestart, Query, WorkerTakes, WorkerReady, WorkerLocks,
       WorkerRestarts, WorkerConnected, WorkerNotConnected, QueryReturns, QueryHitsTransportError,
       WorkerRecovers, WorkerGivesUp, Post
  <2>3. task' \in [Callers -> {"none", "created", "submitted", "returned", "done"}]
    BY <1>10, WorkerEffect
  <2>4. queue' \in [Executors -> Seq(Jobs)] /\ job' \in [Executors -> Jobs \cup {NoJob}]
    <3>1. CASE Take(e)
      <4>1. queue[e] \in Seq(Jobs) /\ queue[e] # <<>>
        BY <3>1 DEF Take
      <4>2. Head(queue[e]) \in Jobs /\ Tail(queue[e]) \in Seq(Jobs)
        BY <4>1
      <4> QED
        BY <3>1, <4>2 DEF Take
    <3>2. CASE \E c \in Callers : Finish(e, c)
      BY <3>2 DEF Finish
    <3>3. CASE UNCHANGED <<queue, job>>
      BY <3>3
    <3> QED
      BY <1>10, WorkerEffect, <3>1, <3>2, <3>3
  <2>5. UNCHANGED <<globals, shut, dedup, loop, caller, joined, on, abandoned>>
    BY <1>10, WorkerEffect
  <2> QED
    BY <2>1, <2>2, <2>3, <2>4, <2>5
<1> QED
  BY <1>1, <1>2, <1>3, <1>4, <1>5, <1>6, <1>7, <1>8, <1>9, <1>10 DEF Next, Coroutine, WorkerStep

(* Every step keeps who waits for what. *)
LEMMA CallerStep ==
  ASSUME TypeOK, CallerInv, JobInv, InflightIsLive, [Next]_vars
  PROVE  CallerInv'
<1> USE NoJobAssumption, KeyAssumption
    DEF TypeOK, CallerInv, Callers, NoTask, dedup, coros
<1>1. CASE UNCHANGED vars
  BY <1>1 DEF vars
<1>2. CASE LoopBlocks
  BY <1>2 DEF LoopBlocks
<1>3. ASSUME NEW c \in Callers, NewQuery(c)
      PROVE  CallerInv'
  BY <1>3 DEF NewQuery
<1>4. ASSUME NEW c \in Callers, DedupHit(c)
      PROVE  CallerInv'
  BY <1>4 DEF DedupHit, InflightIsLive
<1>5. ASSUME NEW c \in Callers, TaskStarts(c) \/ TaskCompletes(c)
      PROVE  CallerInv'
  BY <1>5 DEF TaskStarts, TaskCompletes
<1>6. ASSUME NEW c \in Callers, CallerReturns(c) \/ CallerAbandons(c) \/ SessionInvalidated(c)
      PROVE  CallerInv'
  BY <1>6 DEF CallerReturns, CallerAbandons, SessionInvalidated
<1>7. ASSUME NEW e \in Executors, WorkerStep(e)
      PROVE  CallerInv'
  <2>1. UNCHANGED <<caller, joined>>
    BY <1>7, WorkerEffect
  <2>2. \A t \in Callers : task'[t] = task[t] \/ (task[t] # "none" /\ task'[t] # "none")
    BY <1>7, WorkerEffect DEF Finish, JobInv, Begun
  <2> QED
    BY <2>1, <2>2
<1> QED
  BY <1>1, <1>2, <1>3, <1>4, <1>5, <1>6, <1>7 DEF Next, Coroutine, WorkerStep

(* Every step keeps what _inflight leads to alive. *)
LEMMA InflightStep ==
  ASSUME TypeOK, CallerInv, JobInv, AbandonInv, InflightIsLive, [Next]_vars
  PROVE  InflightIsLive'
<1> USE NoJobAssumption, KeyAssumption
    DEF TypeOK, InflightIsLive, Callers, NoTask, dedup, coros
<1>1. CASE UNCHANGED vars
  BY <1>1 DEF vars
<1>2. CASE LoopBlocks
  BY <1>2 DEF LoopBlocks
<1>3. ASSUME NEW c \in Callers, NewQuery(c)
      PROVE  InflightIsLive'
  <2>1. c \notin abandoned
    BY <1>3 DEF NewQuery, CallerInv, AbandonInv, Begun
  <2> QED
    BY <1>3, <2>1 DEF NewQuery
<1>4. ASSUME NEW c \in Callers, DedupHit(c) \/ CallerReturns(c) \/ SessionInvalidated(c)
      PROVE  InflightIsLive'
  BY <1>4 DEF DedupHit, CallerReturns, SessionInvalidated
<1>5. ASSUME NEW c \in Callers, TaskStarts(c)
      PROVE  InflightIsLive'
  BY <1>5 DEF TaskStarts
<1>6. ASSUME NEW c \in Callers, TaskCompletes(c)
      PROVE  InflightIsLive'
  BY <1>6 DEF TaskCompletes
<1>7. ASSUME NEW c \in Callers, CallerAbandons(c)
      PROVE  InflightIsLive'
  BY <1>7 DEF CallerAbandons, Impatient, CallerInv
<1>8. ASSUME NEW e \in Executors, WorkerStep(e)
      PROVE  InflightIsLive'
  <2>1. UNCHANGED <<dedup, abandoned>>
    BY <1>8, WorkerEffect
  <2>2. \A t \in Callers : task'[t] = task[t] \/ (task[t] \in Begun /\ task'[t] = "returned")
    BY <1>8, WorkerEffect DEF Finish, JobInv
  <2> QED
    BY <2>1, <2>2 DEF Begun
<1> QED
  BY <1>1, <1>2, <1>3, <1>4, <1>5, <1>6, <1>7, <1>8 DEF Next, Coroutine, WorkerStep

(* Every step keeps each job on its task's pool. *)
LEMMA JobStep ==
  ASSUME TypeOK, CallerInv, JobInv, [Next]_vars
  PROVE  JobInv'
<1>t. ExecutorTypeOK
  BY DEF TypeOK
<1> USE NoJobAssumption DEF Callers
<1>1. ASSUME UNCHANGED <<queue, job, on>>,
             \A t \in Callers : task'[t] = task[t] \/ task'[t] \in Begun
      PROVE  JobInv'
  BY <1>1 DEF JobInv, Queued
<1>2. CASE UNCHANGED vars \/ LoopBlocks
  BY <1>1, <1>2 DEF vars, pools, coros, LoopBlocks
<1>3. ASSUME NEW c \in Callers, NewQuery(c)
      PROVE  JobInv'
  <2>1. task[c] = "none" /\ task' = [task EXCEPT ![c] = "created"]
    BY <1>3 DEF NewQuery, CallerInv
  <2>2. \A e \in Executors : c \notin Queued(e) /\ job[e] # c
    BY <2>1 DEF JobInv, Begun
  <2>3. UNCHANGED <<queue, job, on>>
    BY <1>3 DEF NewQuery, pools
  <2> QED
    BY <2>1, <2>2, <2>3 DEF JobInv, Queued, TypeOK
<1>4. ASSUME NEW c \in Callers, DedupHit(c) \/ CallerReturns(c) \/ SessionInvalidated(c)
      PROVE  JobInv'
  BY <1>1, <1>4 DEF DedupHit, CallerReturns, SessionInvalidated, pools
<1>5. ASSUME NEW c \in Callers, TaskStarts(c)
      PROVE  JobInv'
  <2>1. PICK e \in Executors : Submit(e, c) /\ on' = [on EXCEPT ![c] = e]
    BY <1>5 DEF TaskStarts
  <2>2. task[c] = "created" /\ task' = [task EXCEPT ![c] = "submitted"]
    BY <1>5 DEF TaskStarts
  <2>3. on'[c] = e /\ task'[c] \in Begun
    BY <2>1, <2>2 DEF TypeOK, Begun
  <2>4. ASSUME NEW d \in Executors, NEW t \in Callers, t \in Queued(d)' \/ job'[d] = t
        PROVE  on'[t] = d /\ task'[t] \in Begun
    <3>1. job' = job
      BY <2>1 DEF Submit
    <3>2. CASE d = e /\ t = c
      BY <2>3, <3>2
    <3>3. CASE t \in Queued(d) \/ job[d] = t
      <4>1. on[t] = d /\ task[t] \in Begun
        BY <3>3 DEF JobInv
      <4>2. t # c
        BY <2>2, <4>1 DEF Begun
      <4> QED
        BY <2>1, <2>2, <4>1, <4>2 DEF TypeOK
    <3> QED
      BY <1>t, <2>1, <2>4, <3>1, <3>2, <3>3, SubmitQueued
  <2> QED
    BY <2>4 DEF JobInv
<1>6. ASSUME NEW c \in Callers, TaskCompletes(c)
      PROVE  JobInv'
  BY <1>1, <1>6 DEF TaskCompletes, pools, Begun, TypeOK
<1>7. ASSUME NEW c \in Callers, CallerAbandons(c)
      PROVE  JobInv'
  BY <1>1, <1>7 DEF CallerAbandons, Recycle
<1>8. ASSUME NEW e \in Executors, WorkerStep(e)
      PROVE  JobInv'
  <2>1. on' = on
    BY <1>8, WorkerEffect
  <2>2. CASE UNCHANGED <<queue, job, task>>
    BY <1>1, <2>1, <2>2
  <2>3. CASE Take(e) /\ task' = task
    BY <1>t, <2>1, <2>3, TakeQueued DEF JobInv
  <2>4. CASE \E c \in Callers : Finish(e, c) /\ task' = [task EXCEPT ![c] = "returned"]
    BY <2>1, <2>4 DEF Finish, JobInv, Queued, TypeOK, ExecutorTypeOK, Begun
  <2> QED
    BY <1>8, WorkerEffect, <2>2, <2>3, <2>4
<1> QED
  BY <1>2, <1>3, <1>4, <1>5, <1>6, <1>7, <1>8 DEF Next, Coroutine, WorkerStep

(* Every step keeps what was abandoned off the shared pool. *)
LEMMA AbandonStep ==
  ASSUME TypeOK, CallerInv, JobInv, MadeInv, AbandonInv, [Next]_vars
  PROVE  MadeInv' /\ AbandonInv'
<1>t. ExecutorTypeOK
  BY DEF TypeOK
<1> USE NoJobAssumption DEF Callers
<1>1. ASSUME UNCHANGED <<current, made, on, abandoned>>,
             \A t \in Callers : task[t] \in Begun => task'[t] \in Begun
      PROVE  MadeInv' /\ AbandonInv'
  BY <1>1 DEF MadeInv, AbandonInv, TypeOK
<1>2. CASE UNCHANGED vars \/ LoopBlocks
  BY <1>1, <1>2 DEF vars, globals, coros, LoopBlocks
<1>3. ASSUME NEW c \in Callers, NewQuery(c)
      PROVE  MadeInv' /\ AbandonInv'
  <2>1. task[c] = "none"
    BY <1>3 DEF NewQuery, CallerInv
  <2>2. \A t \in Callers : task[t] \in Begun => task'[t] \in Begun
    BY <1>3, <2>1 DEF NewQuery, Begun, TypeOK
  <2> QED
    BY <1>1, <1>3, <2>2 DEF NewQuery, globals
<1>4. ASSUME NEW c \in Callers, DedupHit(c) \/ CallerReturns(c) \/ SessionInvalidated(c)
      PROVE  MadeInv' /\ AbandonInv'
  BY <1>1, <1>4 DEF DedupHit, CallerReturns, SessionInvalidated, globals
<1>5. ASSUME NEW c \in Callers, TaskStarts(c)
      PROVE  MadeInv' /\ AbandonInv'
  <2>1. PICK e \in Executors : GetExecutor(e) /\ on' = [on EXCEPT ![c] = e]
    BY <1>5 DEF TaskStarts
  <2>2. current' = e /\ ((running = TRUE /\ e = current /\ made' = made) \/ (e = made + 1 /\ made' = made + 1))
    BY <1>t, <2>1, GetExecutorResult
  <2>3. task[c] = "created" /\ task' = [task EXCEPT ![c] = "submitted"] /\ abandoned' = abandoned
    BY <1>5 DEF TaskStarts
  <2>4. c \notin abandoned
    BY <2>3 DEF AbandonInv, Begun
  <2>5. CASE e = current /\ made' = made
    <3>1. MadeInv'
      BY <2>1, <2>2, <2>5 DEF MadeInv, TypeOK
    <3> QED
      BY <2>1, <2>2, <2>3, <2>4, <2>5, <3>1 DEF AbandonInv, TypeOK
  <2>6. CASE e = made + 1 /\ made' = made + 1
    <3>1. made \in Nat /\ \A t \in Callers : on[t] \in Nat /\ on[t] <= made
      BY ExecutorsAssumption DEF TypeOK, ExecutorTypeOK, MadeInv, Executors, None
    <3>2. \A t \in Callers : t # c => on'[t] = on[t] /\ task'[t] = task[t]
      BY <2>1, <2>3 DEF TypeOK
    <3>3. on'[c] = e
      BY <2>1 DEF TypeOK
    <3>4. MadeInv'
      BY <2>2, <2>6, <3>1, <3>2, <3>3 DEF MadeInv
    <3>5. \A t \in abandoned : on'[t] # e /\ task'[t] \in Begun
      BY <2>4, <2>6, <3>1, <3>2 DEF AbandonInv, TypeOK
    <3> QED
      BY <2>2, <2>3, <3>4, <3>5 DEF AbandonInv
  <2> QED
    BY <2>2, <2>5, <2>6
<1>6. ASSUME NEW c \in Callers, TaskCompletes(c)
      PROVE  MadeInv' /\ AbandonInv'
  <2>1. \A t \in Callers : task[t] \in Begun => task'[t] \in Begun
    BY <1>6 DEF TaskCompletes, Begun, TypeOK
  <2> QED
    BY <1>1, <1>6, <2>1 DEF TaskCompletes, globals
<1>7. ASSUME NEW c \in Callers, CallerAbandons(c)
      PROVE  MadeInv' /\ AbandonInv'
  <2>1. task[joined[c]] \in Begun
    BY <1>7 DEF CallerAbandons, Impatient, CallerInv, TypeOK, Begun
  <2>2. current' = None /\ None <= made
    BY <1>7, ExecutorsAssumption DEF CallerAbandons, Recycle, TypeOK, ExecutorTypeOK, None
  <2>3. made' = made /\ on' = on /\ task' = task /\ abandoned' = abandoned \cup {joined[c]}
    BY <1>7 DEF CallerAbandons, Recycle
  <2> QED
    BY <1>7, <2>1, <2>2, <2>3 DEF MadeInv, AbandonInv
<1>8. ASSUME NEW e \in Executors, WorkerStep(e)
      PROVE  MadeInv' /\ AbandonInv'
  <2>1. UNCHANGED <<current, made, on, abandoned>>
    BY <1>8, WorkerEffect DEF globals
  <2>2. \A t \in Callers : task[t] \in Begun => task'[t] \in Begun
    BY <1>8, WorkerEffect DEF Begun, TypeOK
  <2> QED
    BY <1>1, <2>1, <2>2
<1> QED
  BY <1>2, <1>3, <1>4, <1>5, <1>6, <1>7, <1>8 DEF Next, Coroutine, WorkerStep

(* Every step keeps each pool shared until it is shut down. *)
LEMMA PoolsStep ==
  ASSUME TypeOK, CallerInv, JobInv, PoolsInv, [Next]_vars
  PROVE  PoolsInv'
<1> USE NoJobAssumption DEF TypeOK, PoolsInv, Callers, dedup, coros, globals, pools
<1>1. CASE UNCHANGED vars
  BY <1>1 DEF vars
<1>2. CASE LoopBlocks
  BY <1>2 DEF LoopBlocks
<1>3. ASSUME NEW c \in Callers, \/ NewQuery(c) \/ DedupHit(c)
                                \/ CallerReturns(c) \/ SessionInvalidated(c)
      PROVE  PoolsInv'
  BY <1>3 DEF NewQuery, DedupHit, CallerReturns, SessionInvalidated, Begun
<1>4. ASSUME NEW c \in Callers, TaskStarts(c)
      PROVE  PoolsInv'
  <2>1. PICK e \in Executors : GetExecutor(e) /\ Submit(e, c) /\ on' = [on EXCEPT ![c] = e]
    BY <1>4 DEF TaskStarts
  <2>2. current' = e /\ running' = TRUE /\ (current # None => e = current)
    BY <2>1, GetExecutorResult DEF GetExecutor
  <2>3. e # None /\ shut' = shut
    BY <2>1, ExecutorsAssumption DEF Submit, Executors, None
  <2> QED
    BY <1>4, <2>1, <2>2, <2>3 DEF TaskStarts
<1>5. ASSUME NEW c \in Callers, TaskCompletes(c)
      PROVE  PoolsInv'
  BY <1>5 DEF TaskCompletes, Begun
<1>6. ASSUME NEW c \in Callers, CallerAbandons(c)
      PROVE  PoolsInv'
  BY <1>6 DEF CallerAbandons, Recycle
<1>7. ASSUME NEW e \in Executors, WorkerStep(e)
      PROVE  PoolsInv'
  <2>1. UNCHANGED <<globals, shut, on>>
    BY <1>7, WorkerEffect
  <2>2. \A t \in Callers : task'[t] \in Begun => task[t] \in Begun
    BY <1>7, WorkerEffect DEF Finish, JobInv
  <2> QED
    BY <2>1, <2>2
<1> QED
  BY <1>1, <1>2, <1>3, <1>4, <1>5, <1>6, <1>7 DEF Next, Coroutine, WorkerStep

(* An abandonment whose own pool is open shuts down that pool and no other. *)
LEMMA AbandonedPool ==
  ASSUME TypeOK, CallerInv, PoolsInv, [Next]_vars,
         NEW c \in Callers, caller[c] = "waiting", caller'[c] = "abandoning",
         on[joined[c]] \notin shut
  PROVE  shut' = shut \cup {on[joined[c]]}
<1>1. PICK b \in Callers : CallerAbandons(b)
  <2> USE DEF TypeOK, Callers, coros
  <2>1. caller'[c] # caller[c]
    OBVIOUS
  <2>2. CASE UNCHANGED vars
    BY <2>1, <2>2 DEF vars
  <2>3. CASE LoopBlocks
    BY <2>1, <2>3 DEF LoopBlocks
  <2>4. ASSUME NEW b \in Callers, \/ NewQuery(b) \/ DedupHit(b) \/ TaskStarts(b)
                                  \/ TaskCompletes(b) \/ CallerReturns(b) \/ SessionInvalidated(b)
        PROVE  FALSE
    BY <2>1, <2>4 DEF NewQuery, DedupHit, TaskStarts, TaskCompletes, CallerReturns,
                      SessionInvalidated
  <2>5. ASSUME NEW e \in Executors, WorkerStep(e)
        PROVE  FALSE
    BY <2>1, <2>5, WorkerEffect
  <2> QED
    BY <2>2, <2>3, <2>4, <2>5 DEF Next, Coroutine, WorkerStep
<1>2. b = c
  BY <1>1 DEF CallerAbandons, TypeOK, Callers
<1>3. joined[c] \in Callers /\ task[joined[c]] \in Begun
  BY <1>1, <1>2 DEF CallerAbandons, Impatient, CallerInv, TypeOK, Begun
<1>4. on[joined[c]] = current /\ current # None
  BY <1>3 DEF PoolsInv
<1> QED
  BY <1>1, <1>4 DEF CallerAbandons, Recycle

-----------------------------------------------------------------------------
(* The inductive invariant holds in every state. *)
LEMMA Inductive == Spec => [](IInv /\ SessionInv)
<1>1. Init => IInv /\ SessionInv
  <2> SUFFICES ASSUME Init PROVE IInv /\ SessionInv
    OBVIOUS
  <2>1. 0 \in 0..MaxExecutors /\ <<>> \in Seq(Jobs)
    BY ExecutorsAssumption
  <2>2. ExecutorTypeOK
    BY <2>1 DEF Init, ExecutorInit, ExecutorTypeOK, None
  <2>3. SessionInv
    BY DEF Init, SessionInv, Session!SessionInit, Session!ContractTypeOK
  <2>4. TypeOK
    BY <2>2, <2>3 DEF Init, TypeOK, SessionInv, NoTask, None
  <2>5. CallerInv /\ AbandonInv /\ InflightIsLive
    BY DEF Init, CallerInv, AbandonInv, InflightIsLive
  <2>6. JobInv /\ MadeInv /\ PoolsInv
    BY NoJobAssumption
       DEF Init, ExecutorInit, JobInv, MadeInv, PoolsInv, Begun, Queued, None, Callers
  <2> QED
    BY <2>3, <2>4, <2>5, <2>6 DEF IInv
<1>2. IInv /\ SessionInv /\ [Next]_vars => (IInv /\ SessionInv)'
  BY TypeStep, CallerStep, JobStep, AbandonStep, PoolsStep, InflightStep,
      SessionStep, SessionInvStep DEF IInv
<1> QED
  BY <1>1, <1>2, PTL DEF Spec

(* The types hold: in particular no step acts on a pool or a task that does not
   exist. *)
THEOREM TypeCorrect == Spec => []TypeOK
<1>1. IInv => TypeOK
  BY DEF IInv
<1> QED
  BY <1>1, Inductive, PTL

(* After a timeout or a cancellation nothing queues behind the abandoned query:
   the pool new requests go to never has one queued or running. *)
THEOREM PoolClean == Spec => []CurrentPoolIsClean
<1>1. IInv => CurrentPoolIsClean
  <2> SUFFICES ASSUME IInv, NEW t \in abandoned, current # None,
                      t \in Queued(current) \/ job[current] = t
               PROVE  FALSE
    BY DEF CurrentPoolIsClean
  <2>1. current \in Executors /\ t \in Callers
    BY DEF IInv, TypeOK, ExecutorTypeOK
  <2>2. on[t] = current
    BY <2>1 DEF IInv, JobInv
  <2> QED
    BY <2>2 DEF IInv, AbandonInv
<1> QED
  BY <1>1, Inductive, PTL

(* A request never joins a query that was abandoned or is over, nor one of
   another key. *)
THEOREM JoinsAreLive == Spec => []InflightIsLive
<1>1. IInv => InflightIsLive
  BY DEF IInv
<1> QED
  BY <1>1, Inductive, PTL

(* Whatever the loop and the workers do to the session is a run of its contract. *)
THEOREM KeepsTheContract == Spec => Session!SessionSpec
<1>1. Init => Session!SessionInit
  BY DEF Init
<1>2. IInv /\ [Next]_vars => [Session!SessionNext]_session
  BY SessionStep DEF IInv
<1>3. [Session!SessionNext]_session => [Session!SessionNext]_(Session!sessionVars)
  BY DEF session, Session!sessionVars
<1> QED
  BY <1>1, <1>2, <1>3, Inductive, PTL DEF Spec, Session!SessionSpec

(* A timeout or cancellation whose own query's pool is still open abandons that
   pool: nobody loses one to the first timeout on another. *)
THEOREM FirstTimeoutSparesOthers == Spec => LosesPoolOnlyToLateTimeout
<1>1. IInv /\ [Next]_vars =>
        [\A c \in Callers :
           caller[c] = "waiting" /\ caller'[c] = "abandoning" /\ on[joined[c]] \notin shut
             => shut' = shut \cup {on[joined[c]]}]_vars
  BY AbandonedPool DEF IInv
<1> QED
  BY <1>1, Inductive, PTL DEF Spec, LosesPoolOnlyToLateTimeout

(* No query starts on a session blamed since its last restart, unless the one
   who blamed it is still on the way to invalidate it. *)
THEOREM QueriesOnRebuilt == Spec => QueriesStartOnRebuiltSession
<1>1. IInv /\ SessionInv /\ [Next]_vars =>
        [\A e \in Executors :
           stage[e] # "querying" /\ stage'[e] = "querying" /\ poisoned' => owing # {}]_vars
  BY QueryStart DEF IInv
<1> QED
  BY <1>1, Inductive, PTL DEF Spec, QueriesStartOnRebuiltSession
=============================================================================
