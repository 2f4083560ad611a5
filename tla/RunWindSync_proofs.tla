-------------------------- MODULE RunWindSync_proofs --------------------------
(***************************************************************************)
(* Proofs about RunWindSync, for any sets of callers and terminators and   *)
(* any number of calls.                                                    *)
(***************************************************************************)
EXTENDS RunWindSync, Executor_proofs

\* Who holds, closes or joins a pool has one.
HandleTypeInv ==
  \A t \in Threads : pc[t] \in {"holding", "closing", "joining"} => handle[t] \in Executors

\* Pools are numbered as they are made; none has been touched before.
MadeInv ==
  /\ current <= made
  /\ \A t \in Threads : handle[t] <= made
  /\ \A e \in shut : e <= made

(* A pool that a caller got, if no shutdown has begun since, is the shared one;
   so it is open, and nobody is about to close it. *)
HandleInv ==
  \A c \in Callers :
    pc[c] = "holding" /\ c \notin overtaken => running /\ handle[c] = current

IInv ==
  TypeOK /\ HandleTypeInv /\ MadeInv /\ GetReturnsOpenPool /\ HandleInv /\ RejectedOnlyIfOvertaken

-----------------------------------------------------------------------------
(* Every step keeps the types. *)
LEMMA TypeStep ==
  ASSUME TypeOK, HandleTypeInv, [Next]_vars
  PROVE  TypeOK' /\ HandleTypeInv'
<1>a. ExecutorTypeOK
  BY DEF TypeOK
<1>b. \A e \in Executors : GetExecutor(e) =>
        /\ current' = e /\ running' = TRUE
        /\ made' = made \/ (e = made + 1 /\ made' = e)
  BY <1>a, GetExecutorResult
<1> USE ExecutorsAssumption, NoJobAssumption, CallsAssumption
    DEF TypeOK, HandleTypeInv, ExecutorTypeOK, Threads, Callers, globals, pools
<1>0. None \in 0..0 /\ Executors \subseteq Nat
  BY DEF None, Executors
<1>1. CASE UNCHANGED vars
  BY <1>1 DEF vars
<1>2. ASSUME NEW c \in Callers, CallerGets(c)
      PROVE  TypeOK' /\ HandleTypeInv'
  <2>1. PICK e \in Executors : GetExecutor(e) /\ handle' = [handle EXCEPT ![c] = e]
    BY <1>2 DEF CallerGets
  <2>2. current' \in Executors \cup {None} /\ running' \in BOOLEAN
    BY <2>1, <1>b
  <2>5. made' \in 0..MaxExecutors
    BY <2>1, <1>b DEF Executors
  <2>3. calls' \in 0..MaxCalls
    BY <1>2 DEF CallerGets
  <2> QED
    BY <1>2, <2>1, <2>2, <2>3, <2>5 DEF CallerGets, Goto
<1>3. ASSUME NEW c \in Callers, CallerSubmits(c)
      PROVE  TypeOK' /\ HandleTypeInv'
  <2>1. queue' \in [Executors -> Seq(Jobs)]
    BY <1>3 DEF CallerSubmits, Submit
  <2> QED
    BY <1>3, <2>1 DEF CallerSubmits, Submit, Goto
<1>4. ASSUME NEW c \in Callers, CallerRejected(c)
      PROVE  TypeOK' /\ HandleTypeInv'
  BY <1>4 DEF CallerRejected, Goto
<1>5. ASSUME NEW e \in Executors, WorkerTakes(e)
      PROVE  TypeOK' /\ HandleTypeInv'
  <2>1. queue[e] \in Seq(Jobs) /\ queue[e] # <<>>
    BY <1>5 DEF WorkerTakes, Take
  <2>2. Head(queue[e]) \in Jobs /\ Tail(queue[e]) \in Seq(Jobs)
    BY <2>1
  <2> QED
    BY <1>5, <2>2 DEF WorkerTakes, Take
<1>6. ASSUME NEW e \in Executors, WorkerFinishes(e)
      PROVE  TypeOK' /\ HandleTypeInv'
  BY <1>6 DEF WorkerFinishes, Finish, Goto
<1>7. ASSUME NEW x \in Terminators, ShutdownBegins(x)
      PROVE  TypeOK' /\ HandleTypeInv'
  <2>1. calls' \in 0..MaxCalls
    BY <1>7 DEF ShutdownBegins
  <2> QED
    BY <1>7, <2>1 DEF ShutdownBegins, Capture, Goto
<1>8. ASSUME NEW x \in Terminators, ShutdownCloses(x)
      PROVE  TypeOK' /\ HandleTypeInv'
  BY <1>8 DEF ShutdownCloses, Close, Goto
<1>9. ASSUME NEW x \in Terminators, ShutdownReturns(x)
      PROVE  TypeOK' /\ HandleTypeInv'
  BY <1>9 DEF ShutdownReturns, Goto
<1> QED
  BY <1>1, <1>2, <1>3, <1>4, <1>5, <1>6, <1>7, <1>8, <1>9
     DEF Next, Caller, Worker, Terminator

(* Every step keeps pools numbered as they are made. *)
LEMMA MadeStep ==
  ASSUME TypeOK, HandleTypeInv, MadeInv, [Next]_vars
  PROVE  MadeInv'
<1>0. ExecutorTypeOK
  BY DEF TypeOK
<1>a. \A e \in Executors : GetExecutor(e) =>
        /\ current' = e
        /\ (e = current /\ made' = made) \/ (e = made + 1 /\ made' = e)
  BY <1>0, GetExecutorResult
<1> USE DEF TypeOK, ExecutorTypeOK, HandleTypeInv, MadeInv, Threads, Callers, Executors, None, globals, pools
<1>1. CASE UNCHANGED vars
  BY <1>1 DEF vars
<1>2. ASSUME NEW c \in Callers, CallerGets(c)
      PROVE  MadeInv'
  <2>1. PICK e \in Executors : GetExecutor(e) /\ handle' = [handle EXCEPT ![c] = e]
    BY <1>2 DEF CallerGets
  <2>2. current' = e /\ made <= made' /\ e <= made' /\ made' \in Nat
    BY <2>1, <1>a
  <2> QED
    BY <1>2, <2>1, <2>2 DEF CallerGets
<1>3. ASSUME NEW c \in Callers, CallerSubmits(c) \/ CallerRejected(c)
      PROVE  MadeInv'
  BY <1>3 DEF CallerSubmits, CallerRejected, Submit
<1>4. ASSUME NEW e \in Executors, Worker(e)
      PROVE  MadeInv'
  BY <1>4 DEF Worker, WorkerTakes, WorkerFinishes, Take, Finish
<1>5. ASSUME NEW x \in Terminators, Terminator(x)
      PROVE  MadeInv'
  BY <1>5 DEF Terminator, ShutdownBegins, ShutdownCloses, ShutdownReturns, Capture, Close
<1> QED
  BY <1>1, <1>2, <1>3, <1>4, <1>5 DEF Next, Caller

(* Every step keeps the shared pool open while the flag is up: the flag goes
   down in the step in which a terminator gets hold of the pool, and comes up
   only with a pool that nobody has. *)
LEMMA OpenStep ==
  ASSUME TypeOK, HandleTypeInv, MadeInv, GetReturnsOpenPool, [Next]_vars
  PROVE  GetReturnsOpenPool'
<1> USE DisjointThreads
    DEF TypeOK, ExecutorTypeOK, HandleTypeInv, MadeInv, GetReturnsOpenPool, Threads, Callers,
        Executors, None, globals, pools
<1>1. CASE UNCHANGED vars
  BY <1>1 DEF vars
<1>2. ASSUME NEW c \in Callers, CallerGets(c)
      PROVE  GetReturnsOpenPool'
  <2>1. PICK e \in Executors : GetExecutor(e) /\ handle' = [handle EXCEPT ![c] = e]
    BY <1>2 DEF CallerGets
  <2>2. current' = e /\ ((running /\ e = current) \/ e = made + 1)
    BY <2>1, GetExecutorResult
  <2>3. \A x \in Terminators : pc'[x] = pc[x] /\ handle'[x] = handle[x]
    BY <1>2, <2>1 DEF CallerGets, Goto
  <2>4. shut' = shut
    BY <1>2 DEF CallerGets
  <2> QED
    BY <2>2, <2>3, <2>4
<1>3. ASSUME UNCHANGED globals, shut' = shut, handle' = handle,
             \A x \in Terminators : pc'[x] = pc[x] \/ pc'[x] # "closing"
      PROVE  GetReturnsOpenPool'
  BY <1>3
<1>4. ASSUME NEW c \in Callers, CallerSubmits(c) \/ CallerRejected(c)
      PROVE  GetReturnsOpenPool'
  <2>1. \A x \in Terminators : pc'[x] = pc[x]
    BY <1>4 DEF CallerSubmits, CallerRejected, Goto
  <2>2. UNCHANGED globals /\ shut' = shut /\ handle' = handle
    BY <1>4 DEF CallerSubmits, CallerRejected, Submit
  <2> QED
    BY <1>3, <2>1, <2>2
<1>5. ASSUME NEW e \in Executors, Worker(e)
      PROVE  GetReturnsOpenPool'
  <2>1. \A x \in Terminators : pc'[x] = pc[x]
    BY <1>5 DEF Worker, WorkerTakes, WorkerFinishes, Goto
  <2>2. UNCHANGED globals /\ shut' = shut /\ handle' = handle
    BY <1>5 DEF Worker, WorkerTakes, WorkerFinishes, Take, Finish
  <2> QED
    BY <1>3, <2>1, <2>2
<1>6. ASSUME NEW x \in Terminators, ShutdownBegins(x)
      PROVE  GetReturnsOpenPool'
  BY <1>6 DEF ShutdownBegins, Capture
<1>7. ASSUME NEW x \in Terminators, ShutdownCloses(x)
      PROVE  GetReturnsOpenPool'
  <2>1. running => handle[x] # current
    BY <1>7 DEF ShutdownCloses
  <2>2. UNCHANGED globals /\ shut' = shut \cup {handle[x]} /\ handle' = handle
    BY <1>7 DEF ShutdownCloses, Close
  <2>3. \A y \in Terminators : pc'[y] = "closing" => pc[y] = "closing"
    BY <1>7 DEF ShutdownCloses, Goto
  <2> QED
    BY <2>1, <2>2, <2>3
<1>8. ASSUME NEW x \in Terminators, ShutdownReturns(x)
      PROVE  GetReturnsOpenPool'
  <2>1. \A y \in Terminators : pc'[y] = pc[y] \/ pc'[y] # "closing"
    BY <1>8 DEF ShutdownReturns, Goto
  <2>2. UNCHANGED globals /\ shut' = shut /\ handle' = handle
    BY <1>8 DEF ShutdownReturns
  <2> QED
    BY <1>3, <2>1, <2>2
<1> QED
  BY <1>1, <1>2, <1>4, <1>5, <1>6, <1>7, <1>8 DEF Next, Caller, Terminator

(* Every step keeps what a caller holds the shared pool until a shutdown begins. *)
LEMMA HandleStep ==
  ASSUME TypeOK, GetReturnsOpenPool, HandleInv, [Next]_vars
  PROVE  HandleInv'
<1>a. \A e \in Executors : GetExecutor(e) =>
        current' = e /\ running' = TRUE /\ (running => e = current)
  <2> SUFFICES ASSUME NEW e \in Executors, GetExecutor(e)
               PROVE  current' = e /\ running' = TRUE /\ (running => e = current)
    OBVIOUS
  <2>1. ExecutorTypeOK
    BY DEF TypeOK
  <2>2. current' = e /\ running' = TRUE
    BY <2>1, GetExecutorResult
  <2>3. running => e = current
    BY DEF GetReturnsOpenPool, GetExecutor
  <2> QED
    BY <2>2, <2>3
<1> USE DisjointThreads DEF TypeOK, ExecutorTypeOK, HandleInv, Threads, Callers, globals, pools
<1>1. CASE UNCHANGED vars
  BY <1>1 DEF vars
<1>2. ASSUME NEW c \in Callers, CallerGets(c)
      PROVE  HandleInv'
  <2>1. PICK e \in Executors : GetExecutor(e) /\ handle' = [handle EXCEPT ![c] = e]
    BY <1>2 DEF CallerGets
  <2>2. current' = e /\ running' = TRUE /\ (running => e = current)
    BY <2>1, <1>a
  <2>3. ASSUME NEW d \in Callers, d # c, pc'[d] = "holding", d \notin overtaken'
        PROVE  handle'[d] = current'
    <3>1. pc[d] = "holding" /\ d \notin overtaken /\ handle'[d] = handle[d]
      BY <1>2, <2>1, <2>3 DEF CallerGets, Goto
    <3> QED
      BY <2>2, <3>1
  <2>4. handle'[c] = e
    BY <2>1
  <2> QED
    BY <2>2, <2>3, <2>4
<1>3. ASSUME NEW c \in Callers, CallerSubmits(c) \/ CallerRejected(c)
      PROVE  HandleInv'
  BY <1>3 DEF CallerSubmits, CallerRejected, Submit, Goto
<1>4. ASSUME NEW e \in Executors, Worker(e)
      PROVE  HandleInv'
  BY <1>4 DEF Worker, WorkerTakes, WorkerFinishes, Take, Finish, Goto
<1>5. ASSUME NEW x \in Terminators, Terminator(x)
      PROVE  HandleInv'
  BY <1>5 DEF Terminator, ShutdownBegins, ShutdownCloses, ShutdownReturns, Capture, Close, Goto
<1> QED
  BY <1>1, <1>2, <1>3, <1>4, <1>5 DEF Next, Caller

(* Every step keeps refusals to callers that a shutdown has overtaken. *)
LEMMA RejectedStep ==
  ASSUME TypeOK, GetReturnsOpenPool, HandleInv, RejectedOnlyIfOvertaken, [Next]_vars
  PROVE  RejectedOnlyIfOvertaken'
<1> USE DisjointThreads
    DEF TypeOK, ExecutorTypeOK, RejectedOnlyIfOvertaken, Threads, Callers, globals, pools
<1>1. CASE UNCHANGED vars
  BY <1>1 DEF vars
<1>2. ASSUME NEW c \in Callers, CallerGets(c) \/ CallerSubmits(c)
      PROVE  RejectedOnlyIfOvertaken'
  BY <1>2 DEF CallerGets, CallerSubmits, Goto
<1>3. ASSUME NEW c \in Callers, CallerRejected(c)
      PROVE  RejectedOnlyIfOvertaken'
  <2>1. c \in overtaken
    BY <1>3 DEF CallerRejected, HandleInv, GetReturnsOpenPool
  <2> QED
    BY <1>3, <2>1 DEF CallerRejected, Goto
<1>4. ASSUME NEW e \in Executors, Worker(e)
      PROVE  RejectedOnlyIfOvertaken'
  BY <1>4 DEF Worker, WorkerTakes, WorkerFinishes, Take, Finish, Goto
<1>5. ASSUME NEW x \in Terminators, Terminator(x)
      PROVE  RejectedOnlyIfOvertaken'
  BY <1>5 DEF Terminator, ShutdownBegins, ShutdownCloses, ShutdownReturns, Goto
<1> QED
  BY <1>1, <1>2, <1>3, <1>4, <1>5 DEF Next, Caller

-----------------------------------------------------------------------------
(* The inductive invariant holds in every state. *)
LEMMA Inductive == Spec => []IInv
<1>1. Init => IInv
  <2> SUFFICES ASSUME Init PROVE IInv
    OBVIOUS
  <2>1. 0 \in 0..MaxExecutors /\ 0 \in 0..MaxCalls
    BY ExecutorsAssumption, CallsAssumption
  <2>2. ExecutorTypeOK
    <3>1. <<>> \in Seq(Jobs)
      OBVIOUS
    <3> QED
      BY <2>1, <3>1 DEF Init, ExecutorInit, ExecutorTypeOK, None
  <2>5. TypeOK
    BY <2>1, <2>2 DEF Init, TypeOK, None
  <2>3. HandleTypeInv /\ MadeInv
    BY DEF Init, ExecutorInit, HandleTypeInv, MadeInv, None
  <2>4. GetReturnsOpenPool /\ HandleInv /\ RejectedOnlyIfOvertaken
    BY DEF Init, ExecutorInit, GetReturnsOpenPool, HandleInv, RejectedOnlyIfOvertaken, Threads, Callers
  <2> QED
    BY <2>5, <2>3, <2>4 DEF IInv
<1>2. IInv /\ [Next]_vars => IInv'
  BY TypeStep, MadeStep, OpenStep, HandleStep, RejectedStep DEF IInv
<1> QED
  BY <1>1, <1>2, PTL DEF Spec

(* The types hold: in particular shutdown_executor never closes or joins "no
   pool". *)
THEOREM TypeCorrect == Spec => []TypeOK
<1>1. IInv => TypeOK
  BY DEF IInv
<1> QED
  BY <1>1, Inductive, PTL

(* However get, submit and the two halves of shutdown interleave, the pool that
   _get_executor() returns is open and nobody is about to close it. *)
THEOREM SharedPoolOpen == Spec => []GetReturnsOpenPool
<1>1. IInv => GetReturnsOpenPool
  BY DEF IInv
<1> QED
  BY <1>1, Inductive, PTL

(* A shutdown that began before a call never costs that call: only one that
   begins between its _get_executor() and its submit() does. *)
THEOREM RefusalsExplained == Spec => []RejectedOnlyIfOvertaken
<1>1. IInv => RejectedOnlyIfOvertaken
  BY DEF IInv
<1> QED
  BY <1>1, Inductive, PTL
=============================================================================
