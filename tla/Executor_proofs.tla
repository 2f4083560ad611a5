--------------------------- MODULE Executor_proofs ---------------------------
(* Lemmas about the operations on the shared executor. *)
EXTENDS Executor, TLAPS

(* What _get_executor() leaves behind: an open pool that is either the one it
   was or one nobody has seen before. *)
LEMMA GetExecutorResult ==
  ASSUME ExecutorTypeOK, NEW e \in Executors, GetExecutor(e)
  PROVE  /\ current' = e /\ running' = TRUE
         /\ \/ running = TRUE /\ e = current /\ made' = made
            \/ e = made + 1 /\ made' = made + 1
<1>1. CASE running /\ current # None
  BY <1>1 DEF GetExecutor, globals, ExecutorTypeOK
<1>2. CASE ~(running /\ current # None)
  BY <1>2 DEF GetExecutor
<1> QED
  BY <1>1, <1>2

(* Submitting puts the new job behind the others. *)
LEMMA SubmitQueued ==
  ASSUME ExecutorTypeOK, NEW e \in Executors, NEW j \in Jobs, Submit(e, j),
         NEW d \in Executors, NEW t \in Queued(d)'
  PROVE  t \in Queued(d) \/ (d = e /\ t = j)
<1>1. queue[e] \in Seq(Jobs) /\ queue[d] \in Seq(Jobs)
  BY DEF ExecutorTypeOK
<1>2. PICK i \in 1..Len(queue'[d]) : t = queue'[d][i]
  BY DEF Queued
<1>3. CASE d # e
  BY <1>2, <1>3 DEF Submit, Queued, ExecutorTypeOK
<1>4. CASE d = e
  <2>1. queue'[d] = Append(queue[d], j)
    BY <1>4 DEF Submit, ExecutorTypeOK
  <2>2. CASE i \in 1..Len(queue[d])
    BY <1>1, <1>2, <2>1, <2>2 DEF Queued
  <2>3. CASE i = Len(queue[d]) + 1
    BY <1>1, <1>2, <1>4, <2>1, <2>3
  <2> QED
    BY <1>1, <1>2, <2>1, <2>2, <2>3
<1> QED
  BY <1>3, <1>4

(* Taking a job moves it from the queue to the worker; no job appears. *)
LEMMA TakeQueued ==
  ASSUME ExecutorTypeOK, NEW e \in Executors, Take(e), NEW d \in Executors
  PROVE  /\ Queued(d)' \subseteq Queued(d)
         /\ job'[d] = job[d] \/ job'[d] \in Queued(d)
<1>1. queue[e] \in Seq(Jobs) /\ queue[e] # <<>> /\ queue[d] \in Seq(Jobs)
  BY DEF ExecutorTypeOK, Take
<1>2. CASE d # e
  BY <1>2 DEF Take, Queued, ExecutorTypeOK
<1>3. CASE d = e
  <2>1. queue'[d] = Tail(queue[d]) /\ job'[d] = Head(queue[d])
    BY <1>3 DEF Take, ExecutorTypeOK
  <2>2. Head(queue[d]) = queue[d][1] /\ 1 \in 1..Len(queue[d])
    BY <1>1, <1>3
  <2>3. ASSUME NEW i \in 1..Len(Tail(queue[d]))
        PROVE  Tail(queue[d])[i] = queue[d][i + 1] /\ i + 1 \in 1..Len(queue[d])
    BY <1>1, <1>3
  <2> QED
    BY <2>1, <2>2, <2>3 DEF Queued
<1> QED
  BY <1>2, <1>3
=============================================================================
