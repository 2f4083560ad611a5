---------------------------- MODULE Server_proofs ----------------------------
(***************************************************************************)
(* Proofs about Server, for any keys, files and environments, any number   *)
(* of requests, pools and retries.  What is known of the session comes     *)
(* from WindSession_proofs: a step of the process is a step of the session *)
(* with the worker and the main thread, or an interrupt that unwinds get().*)
(***************************************************************************)
EXTENDS Server, Executor_proofs, WellFoundedInduction

Proofs == INSTANCE WindSession_proofs WITH Workers <- {Worker}, Callers <- {Main}

SessionInv == Proofs!TypeOK /\ Proofs!LockInv /\ Proofs!DownInv

\* What the main thread is at says what it wants of the session.
MainInv ==
  /\ pc[Main] = "idle" \/ main \in {"warming", "connecting", "resolving", "stopping", "lastStop"}
  /\ main \in {"warming", "connecting", "resolving"} =>
       op[Main] = "get" /\ pc[Main] \in {"wantGet", "starting", "stopping", "restarting", "sleeping"}
  /\ main \in {"stopping", "lastStop"} =>
       op[Main] = "shutdown" /\ pc[Main] \in {"wantShutdown", "exiting"}

AllDrained == \A e \in Executors : Drained(e)

\* There is one job at most, in the shared pool, and none while the main thread
\* uses the session, unless the exit was interrupted while it joined the worker.
JobsInv ==
  /\ \A e \in Executors :
       /\ queue[e] = <<>> \/ queue[e] = <<Worker>>
       /\ queue[e] # <<>> => job[e] = NoJob /\ pc[Worker] = "idle"
       /\ ~Drained(e) => e = current
  /\ pc[Worker] # "idle" => \E e \in Executors : job[e] = Worker
  /\ main \in {"idle", "warming", "connecting", "screening", "resolving", "submitting"} => result = "none"
  /\ \/ AllDrained
     \/ result = "none" /\ main \in {"waiting", "leaving"}
     \/ result = "none" /\ hurried /\ main \in {"atexit", "stopping", "cleanup", "closing"}

\* With both flags down, as they are in the end, nobody has started the SDK, or
\* somebody has stopped it.
FlagsInv ==
  /\ ~started /\ ~needsReconnect => sdk = "stopped" \/ stopRaised \/ cutShort
  /\ main = "gone" => ~started /\ ~needsReconnect

\* A call that has looked in the cache, missed, and is not counted yet.
Pending ==
  /\ request \notin Screens
  /\ main \in {"submitting", "waiting"} \/ (main = "connecting" /\ request \notin Profiles)

\* The states before the process begins to end.
InService == {"idle", "warming", "connecting", "screening", "resolving", "submitting", "waiting"}

\* The call in progress, and the cache it has looked into.
CallInv ==
  /\ layering \in Layerings
  /\ main \in InService \ {"submitting", "waiting"} => leg = 1
  /\ main \in {"screening", "resolving"} => request \in Screens
  /\ main \in InService => lost = 0
  /\ Pending => limits # NoLimits

\* The counters, of which a pending call is in the misses only, and a screen is
\* in neither hits nor misses.
Counts == [total : Nat, errors : Nat, perTool : [ToolNames -> Nat], hits : Nat, misses : Nat]

ToolSum(counts) == counts.perTool.company_profile + counts.perTool.dynamic_screen + counts.perTool.others

Sums(counts, gone, pending) ==
  /\ counts.hits + counts.errors + gone <= counts.total
  /\ counts.hits + counts.misses + counts.perTool.dynamic_screen <= counts.total + pending
  /\ counts.total + pending <=
       counts.hits + counts.misses + counts.errors + gone + counts.perTool.dynamic_screen
  /\ counts.total = ToolSum(counts)

MetricsInv ==
  /\ metrics \in Counts
  /\ Sums(metrics, lost, IF Pending THEN 1 ELSE 0)

IInv == TypeOK /\ SessionInv /\ MainInv /\ JobsInv /\ FlagsInv /\ CallInv /\ MetricsInv

-----------------------------------------------------------------------------
(* The steps of a thread in the session, as WindSession_proofs knows them. *)
LEMMA SameSteps ==
  ASSUME NEW t \in {Main, Worker}
  PROVE
    /\ Session!CallGet(t) => Proofs!Next
    /\ Session!CallQuery(t) => Proofs!Next
    /\ Session!CallShutdown(t) => Proofs!Next
    /\ Session!GetReady(t) => Proofs!Next
    /\ Session!GetStarts(t) => Proofs!Next
    /\ Session!GetReconnects(t) => Proofs!Next
    /\ Session!StartSucceeds(t) => Proofs!Next
    /\ Session!StartFails(t) => Proofs!Next
    /\ Session!StopReturns(t) => Proofs!Next
    /\ Session!RestartSucceeds(t) => Proofs!Next
    /\ Session!RestartFails(t) => Proofs!Next
    /\ Session!WakesUp(t) => Proofs!Next
    /\ Session!ReconnectGivesUp(t) => Proofs!Next
    /\ Session!Invalidate(t) => Proofs!Next
    /\ Session!RecoverReconnects(t) => Proofs!Next
    /\ Session!ShutdownStops(t) => Proofs!Next
    /\ Session!ShutdownIdle(t) => Proofs!Next
    /\ Session!ShutdownDone(t) => Proofs!Next
    /\ Session!QueryReturns(t) => Proofs!Next
    /\ Session!QueryHitsTransportError(t) => Proofs!Next
<1>t. t \in Proofs!Threads
  BY DEF Proofs!Threads
<1>1. ASSUME Session!CallGet(t) PROVE Proofs!Next
  <2>1. Proofs!CallGet(t)
    BY <1>1 DEF Session!CallGet, Proofs!CallGet, Session!Begin, Proofs!Begin, Session!Goto, Proofs!Goto
  <2> QED
    BY <2>1, <1>t DEF Proofs!Next, Proofs!Calls
<1>2. ASSUME Session!CallQuery(t) PROVE Proofs!Next
  <2>1. Proofs!CallQuery(t)
    BY <1>2 DEF Session!CallQuery, Proofs!CallQuery, Session!Begin, Proofs!Begin, Session!Goto, Proofs!Goto
  <2> QED
    BY <2>1, <1>t DEF Proofs!Next, Proofs!Calls
<1>3. ASSUME Session!CallShutdown(t) PROVE Proofs!Next
  <2>1. Proofs!CallShutdown(t)
    BY <1>3 DEF Session!CallShutdown, Proofs!CallShutdown, Session!Begin, Proofs!Begin, Session!Goto, Proofs!Goto
  <2> QED
    BY <2>1, <1>t DEF Proofs!Next, Proofs!Calls
<1>4. ASSUME Session!GetReady(t) PROVE Proofs!Next
  <2>1. Proofs!GetReady(t)
    BY <1>4 DEF Session!GetReady, Proofs!GetReady, Session!AfterGet, Proofs!AfterGet, Session!IsConnected,
      Proofs!IsConnected, Session!Goto, Proofs!Goto
  <2> QED
    BY <2>1, <1>t DEF Proofs!Next, Proofs!Lifecycle
<1>5. ASSUME Session!GetStarts(t) PROVE Proofs!Next
  <2>1. Proofs!GetStarts(t)
    BY <1>5 DEF Session!GetStarts, Proofs!GetStarts, Session!Goto, Proofs!Goto
  <2> QED
    BY <2>1, <1>t DEF Proofs!Next, Proofs!Lifecycle
<1>6. ASSUME Session!GetReconnects(t) PROVE Proofs!Next
  <2>1. Proofs!GetReconnects(t)
    BY <1>6 DEF Session!GetReconnects, Proofs!GetReconnects, Session!EnterReconnect, Proofs!EnterReconnect,
      Session!IsConnected, Proofs!IsConnected, Session!Goto, Proofs!Goto
  <2> QED
    BY <2>1, <1>t DEF Proofs!Next, Proofs!Lifecycle
<1>7. ASSUME Session!StartSucceeds(t) PROVE Proofs!Next
  <2>1. Proofs!StartSucceeds(t)
    BY <1>7 DEF Session!StartSucceeds, Proofs!StartSucceeds, Session!AfterGet, Proofs!AfterGet, Session!Goto,
      Proofs!Goto
  <2> QED
    BY <2>1, <1>t DEF Proofs!Next, Proofs!Lifecycle
<1>8. ASSUME Session!StartFails(t) PROVE Proofs!Next
  <2>1. Proofs!StartFails(t)
    BY <1>8 DEF Session!StartFails, Proofs!StartFails, Session!Goto, Proofs!Goto
  <2> QED
    BY <2>1, <1>t DEF Proofs!Next, Proofs!Lifecycle
<1>9. ASSUME Session!StopReturns(t) PROVE Proofs!Next
  <2>1. Proofs!StopReturns(t)
    BY <1>9 DEF Session!StopReturns, Proofs!StopReturns, Session!Goto, Proofs!Goto
  <2> QED
    BY <2>1, <1>t DEF Proofs!Next, Proofs!Lifecycle
<1>10. ASSUME Session!RestartSucceeds(t) PROVE Proofs!Next
  <2>1. Proofs!RestartSucceeds(t)
    BY <1>10 DEF Session!RestartSucceeds, Proofs!RestartSucceeds, Session!AfterGet, Proofs!AfterGet, Session!Goto,
      Proofs!Goto
  <2> QED
    BY <2>1, <1>t DEF Proofs!Next, Proofs!Lifecycle
<1>11. ASSUME Session!RestartFails(t) PROVE Proofs!Next
  <2>1. Proofs!RestartFails(t)
    BY <1>11 DEF Session!RestartFails, Proofs!RestartFails, Session!Goto, Proofs!Goto
  <2> QED
    BY <2>1, <1>t DEF Proofs!Next, Proofs!Lifecycle
<1>12. ASSUME Session!WakesUp(t) PROVE Proofs!Next
  <2>1. Proofs!WakesUp(t)
    BY <1>12 DEF Session!WakesUp, Proofs!WakesUp, Session!Goto, Proofs!Goto
  <2> QED
    BY <2>1, <1>t DEF Proofs!Next, Proofs!Lifecycle
<1>13. ASSUME Session!ReconnectGivesUp(t) PROVE Proofs!Next
  <2>1. Proofs!ReconnectGivesUp(t)
    BY <1>13 DEF Session!ReconnectGivesUp, Proofs!ReconnectGivesUp, Session!Goto, Proofs!Goto
  <2> QED
    BY <2>1, <1>t DEF Proofs!Next, Proofs!Lifecycle
<1>14. ASSUME Session!Invalidate(t) PROVE Proofs!Next
  <2>1. Proofs!Invalidate(t)
    BY <1>14 DEF Session!Invalidate, Proofs!Invalidate, Session!Goto, Proofs!Goto
  <2> QED
    BY <2>1, <1>t DEF Proofs!Next, Proofs!Lifecycle
<1>15. ASSUME Session!RecoverReconnects(t) PROVE Proofs!Next
  <2>1. Proofs!RecoverReconnects(t)
    BY <1>15 DEF Session!RecoverReconnects, Proofs!RecoverReconnects, Session!Goto, Proofs!Goto
  <2> QED
    BY <2>1, <1>t DEF Proofs!Next, Proofs!Lifecycle
<1>16. ASSUME Session!ShutdownStops(t) PROVE Proofs!Next
  <2>1. Proofs!ShutdownStops(t)
    BY <1>16 DEF Session!ShutdownStops, Proofs!ShutdownStops, Session!Goto, Proofs!Goto
  <2> QED
    BY <2>1, <1>t DEF Proofs!Next, Proofs!Lifecycle
<1>17. ASSUME Session!ShutdownIdle(t) PROVE Proofs!Next
  <2>1. Proofs!ShutdownIdle(t)
    BY <1>17 DEF Session!ShutdownIdle, Proofs!ShutdownIdle, Session!Goto, Proofs!Goto
  <2> QED
    BY <2>1, <1>t DEF Proofs!Next, Proofs!Lifecycle
<1>18. ASSUME Session!ShutdownDone(t) PROVE Proofs!Next
  <2>1. Proofs!ShutdownDone(t)
    BY <1>18 DEF Session!ShutdownDone, Proofs!ShutdownDone, Session!Goto, Proofs!Goto
  <2> QED
    BY <2>1, <1>t DEF Proofs!Next, Proofs!Lifecycle
<1>19. ASSUME Session!QueryReturns(t) PROVE Proofs!Next
  <2>1. Proofs!QueryReturns(t)
    BY <1>19 DEF Session!QueryReturns, Proofs!QueryReturns, Session!Goto, Proofs!Goto
  <2> QED
    BY <2>1, <1>t DEF Proofs!Next, Proofs!Query
<1>20. ASSUME Session!QueryHitsTransportError(t) PROVE Proofs!Next
  <2>1. Proofs!QueryHitsTransportError(t)
    BY <1>20 DEF Session!QueryHitsTransportError, Proofs!QueryHitsTransportError, Session!Goto, Proofs!Goto
  <2> QED
    BY <2>1, <1>t DEF Proofs!Next, Proofs!Query
<1> QED
  BY <1>1, <1>2, <1>3, <1>4, <1>5, <1>6, <1>7, <1>8, <1>9, <1>10, <1>11, <1>12, <1>13, <1>14, <1>15, <1>16, <1>17,
    <1>18, <1>19, <1>20

(* A step of the process is a step of the session, or leaves it alone, or is
   an interrupt. *)
LEMMA SessionStep ==
  ASSUME [Next]_vars
  PROVE  Interrupted \/ [Proofs!Next]_(Proofs!vars)
<1> DEFINE Steps == Proofs!Next
<1> DEFINE Rests == UNCHANGED Proofs!vars
<1>s. ASSUME UNCHANGED session PROVE Rests
  BY <1>s DEF session, Proofs!vars
<1>c. ASSUME NEW t \in {Main, Worker}, Connected(t) PROVE Steps
  BY <1>c, SameSteps DEF Connected
<1>n. ASSUME NEW t \in {Main, Worker}, NotConnected(t) PROVE Steps
  BY <1>n, SameSteps DEF NotConnected
<1>g. ASSUME NEW t \in {Main, Worker}, SessionGoesOn(t) PROVE Steps
  BY <1>g, SameSteps DEF SessionGoesOn
<1>d. ASSUME SdkDrops PROVE Steps
  BY <1>d DEF SdkDrops, Session!SdkDrops, Proofs!Next, Proofs!SdkDrops
<1>m. Main \in {Main, Worker} /\ Worker \in {Main, Worker}
  OBVIOUS
<1>1. CASE UNCHANGED vars
  BY <1>1, <1>s DEF vars
<1>2. CASE Request
  <2>1. ASSUME ClientConnects PROVE Steps
    BY <2>1, <1>m, SameSteps DEF ClientConnects
  <2>2. ASSUME Observe PROVE Rests
    BY <2>2, <1>s DEF Observe
  <2>3. ASSUME NEW k \in ToolCalls, AnswersFromCache(k) \/ RefusesAtOnce(k) PROVE Rests
    BY <2>3, <1>s DEF AnswersFromCache, RefusesAtOnce
  <2>4. ASSUME NEW k \in ToolCalls, AsksWind(k) PROVE Steps
    BY <2>4, <1>m, SameSteps DEF AsksWind
  <2>5. ASSUME NEW k \in ToolCalls, AsksForSession(k) PROVE Steps
    BY <2>5, <1>m, SameSteps DEF AsksForSession
  <2> HIDE DEF Steps, Rests
  <2>6. Steps \/ Rests
    BY <1>2, <2>1, <2>2, <2>3, <2>4, <2>5 DEF Request
  <2> QED
    BY <2>6 DEF Steps, Rests
<1>3. CASE MainRuns
  <2>1. ASSUME SessionGoesOn(Main) PROVE Steps
    BY <2>1, <1>m, <1>g
  <2>2. ASSUME Warmed PROVE Steps
    BY <2>2, <1>m, <1>c, <1>n DEF Warmed
  <2>3. ASSUME SessionReady \/ SessionReadyForProfile \/ SessionReadyForScreen \/ UniverseReady PROVE Steps
    BY <2>3, <1>m, <1>c DEF SessionReady, SessionReadyForProfile, SessionReadyForScreen, UniverseReady
  <2>4. ASSUME SessionFails PROVE Steps
    BY <2>4, <1>m, <1>n DEF SessionFails
  <2>5. ASSUME Submits \/ NextSection \/ Answers \/ ScreenAnswers \/ CallFails \/ Joined \/ Cleanup PROVE Rests
    BY <2>5, <1>s DEF Submits, NextSection, Answers, ScreenAnswers, CallFails, Resumes, Joined, Cleanup
  <2>6. ASSUME SessionHook PROVE Steps \/ Rests
    BY <2>6, <1>m, <1>s, SameSteps DEF SessionHook
  <2>7. ASSUME CleanupStops \/ ResolvesUniverse PROVE Steps
    BY <2>7, <1>m, SameSteps DEF CleanupStops, ResolvesUniverse
  <2>8. ASSUME ShutdownReturns PROVE Steps
    BY <2>8, <1>m, SameSteps DEF ShutdownReturns
  <2> HIDE DEF Steps, Rests
  <2>9. Steps \/ Rests
    BY <1>3, <2>1, <2>2, <2>3, <2>4, <2>5, <2>6, <2>7, <2>8 DEF MainRuns
  <2> QED
    BY <2>9 DEF Steps, Rests
<1>4. CASE WorkerRuns
  <2>1. ASSUME WorkerTakes PROVE Steps
    BY <2>1, <1>m, SameSteps DEF WorkerTakes
  <2>2. ASSUME SessionGoesOn(Worker) \/ WorkerConnected PROVE Steps
    BY <2>2, <1>m, <1>g, <1>c DEF WorkerConnected
  <2>3. ASSUME QueryReturns \/ QueryHitsTransportError \/ RetryFails PROVE Steps
    BY <2>3, <1>m, SameSteps DEF QueryReturns, QueryHitsTransportError, RetryFails
  <2>4. ASSUME QueryImpossible PROVE Steps
    BY <2>4, <1>m, <1>n DEF QueryImpossible
  <2> HIDE DEF Steps, Rests
  <2>5. Steps
    BY <1>4, <2>1, <2>2, <2>3, <2>4 DEF WorkerRuns
  <2> QED
    BY <2>5 DEF Steps
<1>5. CASE Leaves \/ JoinInterrupted
  BY <1>5, <1>s DEF Leaves, JoinInterrupted
<1> QED
  BY <1>1, <1>2, <1>3, <1>4, <1>5, <1>d DEF Next

(* The session's assumptions are those of the process. *)
LEMMA SessionAssumptions == MaxCalls \in Nat /\ MaxRetries \in Nat \ {0} /\ NoThread \notin Proofs!Threads
  BY ServerThreads, ServerRetries, ServerBounds DEF Proofs!Threads

(* The session's own invariants hold however the process goes on: when get()
   is interrupted, `with` has given the lock back. *)
LEMMA SessionInvStep ==
  ASSUME SessionInv, [Next]_vars
  PROVE  SessionInv'
<1>1. CASE [Proofs!Next]_(Proofs!vars)
  <2>1. Proofs!TypeOK /\ Proofs!LockInv /\ Proofs!DownInv
    BY DEF SessionInv
  <2>2. Proofs!TypeOK'
    BY <1>1, <2>1, SessionAssumptions, Proofs!TypeStep
  <2>3. Proofs!LockInv'
    BY <1>1, <2>1, SessionAssumptions, Proofs!LockStep
  <2>4. Proofs!DownInv'
    BY <1>1, <2>1, SessionAssumptions, Proofs!DownStep
  <2> QED
    BY <2>2, <2>3, <2>4 DEF SessionInv
<1>2. CASE Interrupted
  <2> USE <1>2 DEF SessionInv, Interrupted, Unwinds, Proofs!Threads, Proofs!InLifecycle, Proofs!Waiting
  <2>1. Proofs!TypeOK'
    BY DEF Proofs!TypeOK, Proofs!SdkStates
  <2>2. Proofs!LockInv' /\ Proofs!DownInv'
    BY ServerThreads DEF Proofs!TypeOK, Proofs!LockInv, Proofs!DownInv
  <2> QED
    BY <2>1, <2>2
<1> QED
  BY <1>1, <1>2, SessionStep

-----------------------------------------------------------------------------
(* The worker's steps leave the main thread where it is ... *)
LEMMA WorkerKeepsMain ==
  ASSUME SessionInv, WorkerRuns
  PROVE  UNCHANGED <<main, pc[Main], op[Main]>>
<1> USE ServerThreads DEF SessionInv, Proofs!TypeOK, Proofs!Threads
<1>1. CASE WorkerTakes
  BY <1>1 DEF WorkerTakes, Session!CallQuery, Session!Begin, Session!Goto
<1>2. CASE SessionGoesOn(Worker)
  BY <1>2 DEF SessionGoesOn, Session!GetStarts, Session!GetReconnects, Session!EnterReconnect, Session!StopReturns,
    Session!RestartFails, Session!WakesUp, Session!Invalidate, Session!RecoverReconnects, Session!ShutdownStops,
    Session!Goto
<1>3. CASE WorkerConnected
  BY <1>3 DEF WorkerConnected, Connected, Session!GetReady, Session!StartSucceeds, Session!RestartSucceeds,
    Session!Goto
<1>4. CASE QueryReturns \/ RetryFails
  BY <1>4 DEF QueryReturns, RetryFails, Resolves, Session!QueryReturns, Session!Invalidate, Session!Goto
<1>5. CASE QueryHitsTransportError
  BY <1>5 DEF QueryHitsTransportError, Session!QueryHitsTransportError, Session!Goto
<1>6. CASE QueryImpossible
  BY <1>6 DEF QueryImpossible, NotConnected, Resolves, Session!StartFails, Session!ReconnectGivesUp, Session!Goto
<1> QED
  BY <1>1, <1>2, <1>3, <1>4, <1>5, <1>6 DEF WorkerRuns

(* ... and the other way round. *)
LEMMA MainKeepsWorker ==
  ASSUME SessionInv, Request \/ MainRuns \/ Leaves \/ Interrupted \/ JoinInterrupted \/ SdkDrops
  PROVE  UNCHANGED pc[Worker]
<1> USE ServerThreads DEF SessionInv, Proofs!TypeOK, Proofs!Threads
<1>1. CASE Request
  <2>1. CASE ClientConnects \/ Observe
    BY <2>1 DEF ClientConnects, Observe, session, Session!CallGet, Session!Begin, Session!Goto
  <2>2. CASE \E k \in ToolCalls : RefusesAtOnce(k) \/ AnswersFromCache(k) \/ AsksWind(k) \/ AsksForSession(k)
    BY <2>2 DEF RefusesAtOnce, AnswersFromCache, AsksWind, AsksForSession, session, Session!CallGet, Session!Begin,
      Session!Goto
  <2> QED
    BY <1>1, <2>1, <2>2 DEF Request
<1>2. CASE MainRuns
  <2>1. CASE SessionGoesOn(Main)
    BY <2>1 DEF SessionGoesOn, Session!GetStarts, Session!GetReconnects, Session!EnterReconnect, Session!StopReturns,
      Session!RestartFails, Session!WakesUp, Session!Invalidate, Session!RecoverReconnects, Session!ShutdownStops,
      Session!Goto
  <2>2. CASE Connected(Main)
    BY <2>2 DEF Connected, Session!GetReady, Session!StartSucceeds, Session!RestartSucceeds, Session!Goto
  <2>3. CASE NotConnected(Main)
    BY <2>3 DEF NotConnected, Session!StartFails, Session!ReconnectGivesUp, Session!Goto
  <2>4. CASE Submits \/ NextSection \/ Answers \/ ScreenAnswers \/ CallFails \/ Joined \/ Cleanup
    BY <2>4 DEF Submits, NextSection, Answers, ScreenAnswers, CallFails, Resumes, Joined, Cleanup, session
  <2>5. CASE SessionHook \/ CleanupStops \/ ResolvesUniverse
    BY <2>5 DEF SessionHook, CleanupStops, ResolvesUniverse, session, Session!CallGet, Session!CallShutdown,
      Session!Begin, Session!Goto
  <2>6. CASE ShutdownReturns
    BY <2>6 DEF ShutdownReturns, Session!ShutdownIdle, Session!ShutdownDone, Session!Goto
  <2> QED
    BY <1>2, <2>1, <2>2, <2>3, <2>4, <2>5, <2>6 DEF MainRuns, Warmed, SessionReady, SessionReadyForProfile,
      SessionReadyForScreen, ResolvesUniverse, UniverseReady, SessionFails
<1>3. CASE Leaves \/ JoinInterrupted \/ SdkDrops \/ Interrupted
  BY <1>3 DEF Leaves, JoinInterrupted, SdkDrops, Session!SdkDrops, session, Interrupted, Unwinds
<1> QED
  BY <1>1, <1>2, <1>3

(* A main thread that is at rest in the session is where nothing is wanted of
   it, and get() and _shutdown() take it only where they belong. *)
LEMMA MainStep ==
  ASSUME SessionInv, MainInv, [Next]_vars
  PROVE  MainInv'
<1> USE ServerThreads DEF SessionInv, Proofs!TypeOK, Proofs!Threads, MainInv
<1>c. ASSUME Connected(Main), op[Main] = "get" PROVE pc'[Main] = "idle"
  BY <1>c DEF Connected, Session!GetReady, Session!StartSucceeds, Session!RestartSucceeds, Session!AfterGet,
    Session!Goto
<1>n. ASSUME NotConnected(Main) PROVE pc'[Main] = "idle"
  BY <1>n DEF NotConnected, Session!StartFails, Session!ReconnectGivesUp, Session!Goto
<1>b. ASSUME Session!CallGet(Main) PROVE pc[Main] = "idle" /\ pc'[Main] = "wantGet" /\ op'[Main] = "get"
  BY <1>b DEF Session!CallGet, Session!Begin, Session!Goto
<1>d. ASSUME Session!CallShutdown(Main)
      PROVE  pc[Main] = "idle" /\ pc'[Main] = "wantShutdown" /\ op'[Main] = "shutdown"
  BY <1>d DEF Session!CallShutdown, Session!Begin, Session!Goto
<1>1. CASE UNCHANGED vars
  BY <1>1 DEF vars, session
<1>2. CASE Request
  <2>1. CASE ClientConnects
    BY <2>1, <1>b DEF ClientConnects
  <2>2. CASE Observe
    BY <2>2 DEF Observe, session
  <2>3. ASSUME NEW k \in ToolCalls, AnswersFromCache(k) \/ RefusesAtOnce(k) PROVE MainInv'
    BY <2>3 DEF AnswersFromCache, RefusesAtOnce, session
  <2>4. ASSUME NEW k \in ToolCalls, AsksWind(k) \/ AsksForSession(k) PROVE MainInv'
    BY <2>4, <1>b DEF AsksWind, AsksForSession
  <2> QED
    BY <1>2, <2>1, <2>2, <2>3, <2>4 DEF Request
<1>3. CASE MainRuns
  <2>1. CASE SessionGoesOn(Main)
    BY <2>1 DEF SessionGoesOn, Session!GetStarts, Session!GetReconnects, Session!EnterReconnect, Session!StopReturns,
      Session!RestartFails, Session!WakesUp, Session!Invalidate, Session!RecoverReconnects, Session!ShutdownStops,
      Session!Goto
  <2>2. CASE Warmed
    BY <2>2, <1>c, <1>n DEF Warmed
  <2>3. CASE SessionReady \/ SessionReadyForProfile \/ SessionReadyForScreen \/ UniverseReady
    BY <2>3, <1>c DEF SessionReady, SessionReadyForProfile, SessionReadyForScreen, UniverseReady
  <2>4. CASE SessionFails
    BY <2>4, <1>n DEF SessionFails
  <2>5. CASE Submits \/ NextSection \/ Answers \/ ScreenAnswers \/ CallFails \/ Joined \/ Cleanup
    BY <2>5 DEF Submits, NextSection, Answers, ScreenAnswers, CallFails, Resumes, Joined, Cleanup, session
  <2>6. CASE SessionHook
    BY <2>6, <1>d DEF SessionHook, session
  <2>7. CASE CleanupStops \/ ResolvesUniverse
    BY <2>7, <1>b, <1>d DEF CleanupStops, ResolvesUniverse
  <2>8. CASE ShutdownReturns
    BY <2>8 DEF ShutdownReturns, Session!ShutdownIdle, Session!ShutdownDone, Session!Goto
  <2> QED
    BY <1>3, <2>1, <2>2, <2>3, <2>4, <2>5, <2>6, <2>7, <2>8 DEF MainRuns
<1>4. CASE WorkerRuns
  BY <1>4, WorkerKeepsMain
<1>5. CASE Leaves \/ JoinInterrupted \/ SdkDrops
  BY <1>5 DEF Leaves, JoinInterrupted, SdkDrops, Session!SdkDrops, session
<1>6. CASE Interrupted
  BY <1>6 DEF Interrupted, Unwinds
<1> QED
  BY <1>1, <1>2, <1>3, <1>4, <1>5, <1>6 DEF Next

-----------------------------------------------------------------------------
(* What a step may do to the pools. *)
LEMMA PoolSteps ==
  ASSUME [Next]_vars
  PROVE  \/ UNCHANGED executor
         \/ Submits \/ WorkerTakes \/ Cleanup \/ CleanupStops
         \/ \E e \in Executors : Finish(e, Worker) /\ UNCHANGED globals
<1>1. CASE UNCHANGED vars
  BY <1>1 DEF vars
<1>2. CASE Request
  BY <1>2 DEF Request, ClientConnects, Observe, RefusesAtOnce, AnswersFromCache, AsksWind, AsksForSession, Arrives
<1>3. CASE MainRuns
  BY <1>3 DEF MainRuns, SessionGoesOn, Warmed, SessionReady, SessionReadyForProfile, SessionReadyForScreen,
    ResolvesUniverse, UniverseReady, SessionFails,
    NextSection, Answers, ScreenAnswers, CallFails, Resumes, Joined, SessionHook, ShutdownReturns
<1>4. CASE WorkerRuns
  BY <1>4 DEF WorkerRuns, SessionGoesOn, WorkerConnected, QueryReturns, QueryHitsTransportError,
    QueryImpossible, RetryFails, Resolves
<1>5. CASE Leaves \/ Interrupted \/ JoinInterrupted \/ SdkDrops
  BY <1>5 DEF Leaves, Interrupted, JoinInterrupted, SdkDrops
<1> QED
  BY <1>1, <1>2, <1>3, <1>4, <1>5 DEF Next

(* Every step keeps the executor's types. *)
LEMMA PoolTypeStep ==
  ASSUME ExecutorTypeOK, [Next]_vars
  PROVE  ExecutorTypeOK'
<1> USE ExecutorsAssumption DEF ExecutorTypeOK, Executors, None
<1>1. CASE UNCHANGED executor
  BY <1>1 DEF executor, globals, pools
<1>2. CASE Submits
  <2>1. PICK e \in Executors : GetExecutor(e) /\ Submit(e, Worker)
    BY <1>2 DEF Submits
  <2>2. Worker \in Jobs
    BY ServerJobs
  <2>3. queue' \in [Executors -> Seq(Jobs)] /\ UNCHANGED <<shut, job>>
    BY <2>1, <2>2 DEF Submit
  <2>4. current' = e /\ running' = TRUE /\ (made' = made \/ made' = e)
    <3>1. CASE running /\ current # None
      BY <2>1, <3>1 DEF GetExecutor, globals
    <3>2. CASE ~(running /\ current # None)
      BY <2>1, <3>2 DEF GetExecutor
    <3> QED
      BY <3>1, <3>2
  <2> QED
    BY <2>3, <2>4
<1>3. CASE WorkerTakes
  <2>1. PICK e \in Executors : Take(e)
    BY <1>3 DEF WorkerTakes
  <2>2. queue[e] \in Seq(Jobs) /\ queue[e] # <<>>
    BY <2>1 DEF Take
  <2>3. Head(queue[e]) \in Jobs /\ Tail(queue[e]) \in Seq(Jobs)
    BY <2>2
  <2> QED
    BY <1>3, <2>1, <2>3 DEF WorkerTakes, Take, globals
<1>4. CASE Cleanup
  BY <1>4 DEF Cleanup, Capture, pools
<1>5. CASE CleanupStops
  BY <1>5 DEF CleanupStops, Close, globals, pools
<1>6. CASE \E e \in Executors : Finish(e, Worker) /\ UNCHANGED globals
  BY <1>6 DEF Finish, globals
<1> QED
  BY <1>1, <1>2, <1>3, <1>4, <1>5, <1>6, PoolSteps

(* The worker acts on the session only for the job it has taken. *)
LEMMA WorkerAtWork ==
  ASSUME SessionInv, WorkerRuns, ~WorkerTakes
  PROVE  pc[Worker] # "idle"
<1>1. CASE SessionGoesOn(Worker)
  BY <1>1 DEF SessionGoesOn, Session!GetStarts, Session!GetReconnects, Session!StopReturns,
    Session!RestartFails, Session!WakesUp, Session!Invalidate, Session!RecoverReconnects, Session!ShutdownStops
<1>2. CASE Connected(Worker) \/ NotConnected(Worker)
  BY <1>2 DEF Connected, NotConnected, Session!GetReady, Session!StartSucceeds, Session!RestartSucceeds,
    Session!StartFails, Session!ReconnectGivesUp
<1>3. CASE QueryReturns \/ QueryHitsTransportError \/ RetryFails
  BY <1>3 DEF QueryReturns, QueryHitsTransportError, RetryFails, Session!QueryReturns,
    Session!QueryHitsTransportError, Session!Invalidate
<1> QED
  BY <1>1, <1>2, <1>3 DEF WorkerRuns, WorkerConnected, QueryImpossible

(* There is never a second job, nor one behind the back of the main thread. *)
LEMMA JobsStep ==
  ASSUME SessionInv, ExecutorTypeOK, MainInv, JobsInv, [Next]_vars
  PROVE  JobsInv'
<1> USE DEF JobsInv, AllDrained, Drained
<1> DEFINE Calm == UNCHANGED <<queue, job, current, pc[Worker]>>
<1>w. Worker \in Jobs /\ Worker # NoJob
  BY ServerJobs, NoJobAssumption
<1>1. CASE UNCHANGED vars
  BY <1>1 DEF vars, executor, globals, pools, session, call, history
<1>2. CASE Request
  <2>1. UNCHANGED <<executor, result, hurried>> /\ main = "idle" /\ main' \in {"idle", "warming", "connecting"}
    BY <1>2 DEF Request, ClientConnects, Observe, RefusesAtOnce, AnswersFromCache, AsksWind, AsksForSession,
      Arrives, history
  <2>2. Calm
    BY <1>2, <2>1, MainKeepsWorker DEF executor, globals, pools
  <2> QED
    BY <2>1, <2>2
<1>3. CASE MainRuns
  <2>p. UNCHANGED pc[Worker]
    BY <1>3, MainKeepsWorker
  <2>1. CASE \/ SessionGoesOn(Main) \/ Warmed \/ SessionReady \/ SessionReadyForProfile
             \/ SessionReadyForScreen \/ ResolvesUniverse \/ UniverseReady \/ SessionFails
    <3>1. /\ UNCHANGED <<executor, result, history>>
          /\ \/ main' = main
             \/ /\ main \in {"warming", "connecting", "screening", "resolving"}
                /\ main' \in {"idle", "screening", "resolving", "submitting"}
      BY <2>1 DEF SessionGoesOn, Warmed, SessionReady, SessionReadyForProfile, SessionReadyForScreen,
        ResolvesUniverse, UniverseReady, SessionFails, call
    <3>2. Calm /\ UNCHANGED <<result, hurried>>
      BY <3>1, <2>p DEF executor, globals, pools, history
    <3> QED
      BY <3>1, <3>2
  <2>2. CASE Submits
    <3>1. PICK e \in Executors : GetExecutor(e) /\ Submit(e, Worker)
      BY <2>2 DEF Submits
    <3>2. main = "submitting" /\ main' = "waiting" /\ UNCHANGED result
      BY <2>2 DEF Submits, call
    <3>3. current' = e
      BY <3>1, GetExecutorResult
    <3>4. /\ \A d \in Executors : queue[d] = <<>> /\ job[d] = NoJob
          /\ result = "none" /\ pc[Worker] = "idle"
      BY <3>2, <1>w
    <3>5. queue' = [queue EXCEPT ![e] = Append(queue[e], Worker)] /\ job' = job
      BY <3>1 DEF Submit
    <3>6. queue'[e] = <<Worker>>
      <4>1. queue'[e] = Append(<<>>, Worker)
        BY <3>4, <3>5 DEF ExecutorTypeOK
      <4> QED
        BY <4>1
    <3>7. \A d \in Executors : d # e => queue'[d] = <<>>
      BY <3>4, <3>5 DEF ExecutorTypeOK
    <3> QED
      BY <3>2, <3>3, <3>4, <3>5, <3>6, <3>7, <2>p
  <2>3. CASE NextSection \/ Answers \/ ScreenAnswers \/ CallFails
    <3>1. UNCHANGED executor /\ result # "none" /\ result' = "none"
      BY <2>3 DEF NextSection, Answers, ScreenAnswers, CallFails, Resumes
    <3>2. Calm
      BY <3>1, <2>p DEF executor, globals, pools
    <3> QED
      BY <3>1, <3>2
  <2>4. CASE Joined \/ SessionHook \/ ShutdownReturns
    <3>1. /\ UNCHANGED <<executor, call, hurried>>
          /\ \/ main = "leaving" /\ main' = "atexit" /\ AllDrained
             \/ main = "atexit" /\ main' \in {"stopping", "cleanup"}
             \/ main = "stopping" /\ main' = "cleanup"
             \/ main = "lastStop" /\ main' = "gone"
      BY <2>4 DEF Joined, SessionHook, ShutdownReturns, history
    <3>2. Calm /\ UNCHANGED <<result, hurried>>
      BY <3>1, <2>p DEF executor, globals, pools, call
    <3> QED
      BY <3>1, <3>2
  <2>5. CASE Cleanup
    <3>1. main = "cleanup" /\ main' = "closing" /\ Calm /\ UNCHANGED <<result, hurried>>
      BY <2>5, <2>p DEF Cleanup, Capture, pools, call, history
    <3> QED
      BY <3>1
  <2>6. CASE CleanupStops
    <3>1. main = "closing" /\ main' = "lastStop" /\ Calm /\ UNCHANGED <<result, hurried>>
      BY <2>6, <2>p DEF CleanupStops, Close, pools, globals, call, history
    <3>2. AllDrained
      BY <2>6 DEF CleanupStops, None, Executors
    <3> QED
      BY <3>1, <3>2
  <2> QED
    BY <1>3, <2>1, <2>2, <2>3, <2>4, <2>5, <2>6 DEF MainRuns
<1>4. CASE WorkerRuns
  <2>m. main' = main
    BY <1>4, WorkerKeepsMain
  <2>1. CASE WorkerTakes
    <3>1. PICK e \in Executors : Take(e)
      BY <2>1 DEF WorkerTakes
    <3>2. queue[e] = <<Worker>> /\ job[e] = NoJob /\ e = current
      BY <3>1 DEF Take
    <3>3. job' = [job EXCEPT ![e] = Worker] /\ queue' = [queue EXCEPT ![e] = <<>>]
      BY <3>1, <3>2 DEF Take
    <3>4. UNCHANGED <<current, result, hurried>>
      BY <2>1 DEF WorkerTakes, globals, call, history
    <3>5. \A d \in Executors : d # e => queue'[d] = <<>> /\ job'[d] = NoJob
      BY <3>2, <3>3 DEF ExecutorTypeOK
    <3>6. queue'[e] = <<>> /\ job'[e] = Worker
      BY <3>3 DEF ExecutorTypeOK
    <3>7. ~AllDrained
      BY <3>2
    <3> QED
      BY <3>2, <3>4, <3>5, <3>6, <3>7, <2>m
  <2>2. CASE ~WorkerTakes /\ (SessionGoesOn(Worker) \/ WorkerConnected \/ QueryHitsTransportError)
    <3>1. UNCHANGED <<queue, job, current, result, hurried>>
      BY <2>2 DEF SessionGoesOn, WorkerConnected, QueryHitsTransportError, executor, globals, pools, call, history
    <3>2. pc[Worker] # "idle"
      BY <1>4, <2>2, WorkerAtWork
    <3> QED
      BY <3>1, <3>2, <2>m
  <2>3. CASE QueryReturns \/ QueryImpossible \/ RetryFails
    <3>1. PICK e \in Executors : Finish(e, Worker)
      BY <2>3 DEF QueryReturns, QueryImpossible, RetryFails, Resolves
    <3>2. UNCHANGED <<current, hurried>> /\ result' \in {"data", "error"}
      BY <2>3 DEF QueryReturns, QueryImpossible, RetryFails, Resolves, globals, history
    <3>3. job[e] = Worker /\ e = current /\ queue[e] = <<>>
      BY <3>1, <1>w DEF Finish
    <3>4. \A d \in Executors : queue'[d] = <<>> /\ job'[d] = NoJob
      BY <3>1, <3>3 DEF Finish, ExecutorTypeOK
    <3>5. pc'[Worker] = "idle"
      BY <2>3 DEF QueryReturns, QueryImpossible, RetryFails, NotConnected, Session!QueryReturns, Session!StartFails,
        Session!ReconnectGivesUp, Session!Invalidate, Session!Goto, SessionInv, Proofs!TypeOK, Proofs!Threads
    <3>6. ~AllDrained
      BY <3>3, <1>w
    <3> QED
      BY <3>2, <3>4, <3>5, <3>6, <2>m
  <2> QED
    BY <1>4, <2>1, <2>2, <2>3 DEF WorkerRuns
<1>5. CASE Leaves \/ Interrupted \/ JoinInterrupted \/ SdkDrops
  <2>1. /\ UNCHANGED <<executor, call>>
        /\ \/ main \in InService /\ main' = "leaving"
           \/ main = "leaving" /\ main' = "atexit" /\ hurried'
           \/ main' = main /\ hurried' = hurried
    BY <1>5 DEF Leaves, Interrupted, JoinInterrupted, SdkDrops, history, InService
  <2>2. Calm /\ UNCHANGED result
    BY <1>5, <2>1, MainKeepsWorker DEF executor, globals, pools, call
  <2> QED
    BY <2>1, <2>2 DEF InService
<1> QED
  BY <1>1, <1>2, <1>3, <1>4, <1>5 DEF Next

-----------------------------------------------------------------------------
(* A thread that goes on in the session raises a flag, or leaves both down and
   the SDK as it was. *)
LEMMA FlagsRaised ==
  ASSUME SessionInv, NEW t \in {Main, Worker}, Connected(t) \/ NotConnected(t) \/ SessionGoesOn(t),
         ~started', ~needsReconnect'
  PROVE  ~started /\ ~needsReconnect /\ sdk' = sdk
<1> USE DEF SessionInv, Proofs!TypeOK, Proofs!DownInv, Proofs!Threads
<1>1. CASE Connected(t)
  BY <1>1 DEF Connected, Session!GetReady, Session!StartSucceeds, Session!RestartSucceeds
<1>2. CASE NotConnected(t)
  BY <1>2 DEF NotConnected, Session!StartFails, Session!ReconnectGivesUp
<1>3. CASE SessionGoesOn(t)
  BY <1>3 DEF SessionGoesOn, Session!GetStarts, Session!GetReconnects, Session!EnterReconnect, Session!StopReturns,
    Session!RestartFails, Session!WakesUp, Session!Invalidate, Session!RecoverReconnects, Session!ShutdownStops
<1> QED
  BY <1>1, <1>2, <1>3

(* Nothing happens once the process is gone. *)
LEMMA NothingAfterGone ==
  ASSUME SessionInv, MainInv, JobsInv, main = "gone", [Next]_vars
  PROVE  UNCHANGED vars
<1>1. pc[Main] = "idle" /\ pc[Worker] = "idle" /\ \A e \in Executors : queue[e] = <<>>
  <2>1. AllDrained
    BY DEF JobsInv
  <2>2. \A e \in Executors : queue[e] = <<>> /\ job[e] # Worker
    BY <2>1, ServerJobs, NoJobAssumption DEF AllDrained, Drained
  <2> QED
    BY <2>2 DEF JobsInv, MainInv
<1>2. ~Request
  BY DEF Request, ClientConnects, Observe, RefusesAtOnce, AnswersFromCache, AsksWind, AsksForSession, Arrives
<1>3. ~SessionGoesOn(Main)
  BY <1>1 DEF SessionGoesOn, Session!GetStarts, Session!GetReconnects, Session!StopReturns,
    Session!RestartFails, Session!WakesUp, Session!Invalidate, Session!RecoverReconnects, Session!ShutdownStops
<1>4. ~MainRuns
  BY <1>3 DEF MainRuns, Warmed, SessionReady, SessionReadyForProfile, SessionReadyForScreen, ResolvesUniverse,
    UniverseReady, SessionFails, Submits, NextSection, Answers,
    ScreenAnswers, CallFails, Resumes, Joined, SessionHook, Cleanup, CleanupStops, ShutdownReturns
<1>5. ~WorkerRuns
  <2>1. ~WorkerTakes
    BY <1>1 DEF WorkerTakes, Take
  <2> QED
    BY <1>1, <2>1, WorkerAtWork
<1>6. ~Leaves /\ ~Interrupted /\ ~JoinInterrupted /\ ~SdkDrops
  BY DEF Leaves, Interrupted, JoinInterrupted, SdkDrops
<1> QED
  BY <1>2, <1>4, <1>5, <1>6 DEF Next

(* The flags tell what has become of the SDK, unless the histories say why not. *)
LEMMA FlagsStep ==
  ASSUME SessionInv, MainInv, JobsInv, FlagsInv, [Next]_vars
  PROVE  FlagsInv'
<1> DEFINE Same == UNCHANGED <<started, needsReconnect, sdk, stopRaised, cutShort>>
<1>s. ASSUME UNCHANGED session PROVE UNCHANGED <<started, needsReconnect, sdk>>
  BY <1>s DEF session
<1>1. CASE main = "gone"
  BY <1>1, NothingAfterGone DEF FlagsInv, vars, session, history
<1>2. CASE main # "gone" /\ UNCHANGED vars
  BY <1>2 DEF FlagsInv, vars, session, history
<1>3. CASE main # "gone" /\ Request
  <2>1. Same /\ main' # "gone"
    BY <1>3, <1>s DEF Request, ClientConnects, Observe, RefusesAtOnce, AnswersFromCache, AsksWind, AsksForSession,
      Arrives, history,
      Session!CallGet, Session!Begin
  <2> QED
    BY <2>1 DEF FlagsInv
<1>4. CASE main # "gone" /\ MainRuns
  <2>m. Main \in {Main, Worker}
    OBVIOUS
  <2>1. CASE \/ SessionGoesOn(Main) \/ Warmed \/ SessionReady \/ SessionReadyForProfile
             \/ SessionReadyForScreen \/ UniverseReady \/ SessionFails
    <3>1. UNCHANGED <<stopRaised, cutShort>> /\ main' # "gone"
      BY <1>4, <2>1 DEF SessionGoesOn, Warmed, SessionReady, SessionReadyForProfile, SessionReadyForScreen,
        ResolvesUniverse, UniverseReady, SessionFails, history
    <3>2. Connected(Main) \/ NotConnected(Main) \/ SessionGoesOn(Main)
      BY <2>1 DEF Warmed, SessionReady, SessionReadyForProfile, SessionReadyForScreen, ResolvesUniverse,
        UniverseReady, SessionFails
    <3>3. ~started' /\ ~needsReconnect' => ~started /\ ~needsReconnect /\ sdk' = sdk
      BY <2>m, <3>2, FlagsRaised
    <3> QED
      BY <3>1, <3>3 DEF FlagsInv
  <2>2. CASE Submits \/ NextSection \/ Answers \/ ScreenAnswers \/ CallFails \/ Joined \/ Cleanup
    <3>1. Same /\ main' # "gone"
      BY <2>2, <1>s DEF Submits, NextSection, Answers, ScreenAnswers, CallFails, Resumes, Joined, Cleanup, history
    <3> QED
      BY <3>1 DEF FlagsInv
  <2>3. CASE SessionHook \/ CleanupStops \/ ResolvesUniverse
    <3>1. Same /\ main' # "gone"
      BY <2>3, <1>s DEF SessionHook, CleanupStops, ResolvesUniverse, history, Session!CallGet, Session!CallShutdown,
        Session!Begin
    <3> QED
      BY <3>1 DEF FlagsInv
  <2>4. CASE ShutdownReturns
    <3>1. ~started' /\ ~needsReconnect' /\ cutShort' = cutShort
      BY <2>4 DEF ShutdownReturns, Session!ShutdownIdle, Session!ShutdownDone
    <3>2. \/ ~started /\ ~needsReconnect /\ UNCHANGED <<sdk, stopRaised>>
          \/ stopRaised' = (stopRaised \/ sdk' # "stopped")
      BY <2>4 DEF ShutdownReturns, Session!ShutdownIdle, Session!ShutdownDone
    <3>3. sdk' = "stopped" \/ stopRaised' \/ cutShort'
      <4>1. CASE ~started /\ ~needsReconnect /\ UNCHANGED <<sdk, stopRaised>>
        BY <3>1, <4>1 DEF FlagsInv
      <4>2. CASE stopRaised' = (stopRaised \/ sdk' # "stopped")
        BY <4>2
      <4> QED
        BY <3>2, <4>1, <4>2
    <3> QED
      BY <3>1, <3>3 DEF FlagsInv
  <2> QED
    BY <1>4, <2>1, <2>2, <2>3, <2>4 DEF MainRuns
<1>5. CASE main # "gone" /\ WorkerRuns
  <2>m. Worker \in {Main, Worker}
    OBVIOUS
  <2>1. main' = main
    BY <1>5, WorkerKeepsMain
  <2>2. UNCHANGED <<stopRaised, cutShort>>
    BY <1>5 DEF WorkerRuns, WorkerTakes, SessionGoesOn, WorkerConnected, QueryReturns, QueryHitsTransportError,
      QueryImpossible, RetryFails, Resolves, history
  <2>3. ~started' /\ ~needsReconnect' => ~started /\ ~needsReconnect /\ sdk' = sdk
    <3>1. CASE SessionGoesOn(Worker) \/ WorkerConnected \/ QueryImpossible
      BY <2>m, <3>1, FlagsRaised DEF WorkerConnected, QueryImpossible
    <3>2. CASE WorkerTakes \/ QueryReturns \/ QueryHitsTransportError \/ RetryFails
      BY <3>2 DEF WorkerTakes, Session!CallQuery, Session!Begin, QueryReturns, Session!QueryReturns,
        QueryHitsTransportError, Session!QueryHitsTransportError, RetryFails, Session!Invalidate
    <3> QED
      BY <1>5, <3>1, <3>2 DEF WorkerRuns
  <2> QED
    BY <1>5, <2>1, <2>2, <2>3 DEF FlagsInv
<1>6. CASE Leaves \/ JoinInterrupted
  <2>1. Same /\ main' # "gone"
    BY <1>6, <1>s DEF Leaves, JoinInterrupted, history
  <2> QED
    BY <2>1 DEF FlagsInv
<1>7. CASE Interrupted
  BY <1>7 DEF Interrupted, Unwinds, FlagsInv, SessionInv, Proofs!TypeOK, Proofs!DownInv, Proofs!Threads
<1>8. CASE SdkDrops
  BY <1>8 DEF SdkDrops, Session!SdkDrops, FlagsInv, history
<1> QED
  BY <1>1, <1>2, <1>3, <1>4, <1>5, <1>6, <1>7, <1>8 DEF Next

-----------------------------------------------------------------------------
\* A cache that is wanted has its limits.
LEMMA Loaded ==
  ASSUME layering \in Layerings, LoadLimits
  PROVE  limits' # NoLimits
BY ServerLimits DEF LoadLimits

(* Every step keeps the types, and what is known of the call in progress. *)
LEMMA CallStep ==
  ASSUME TypeOK, SessionInv, JobsInv, CallInv, [Next]_vars
  PROVE  TypeOK' /\ CallInv'
<1> DEFINE Rest ==
      /\ main \in {"idle", "warming", "connecting", "screening", "resolving", "submitting", "waiting",
                   "leaving", "atexit", "stopping", "cleanup", "closing", "lastStop", "gone"}
      /\ request \in ToolCalls /\ leg \in 1..Legs(request) /\ result \in {"none", "data", "error"}
      /\ kept \subseteq Keys
      /\ kept # {} => limits # NoLimits
      /\ requests \in 0..MaxRequests /\ lost \in 0..1
      /\ CallInv
<1>r. Rest
  BY DEF TypeOK
<1>t. Session!TypeOK' /\ ExecutorTypeOK'
  <2>1. SessionInv'
    BY SessionInvStep
  <2>2. Session!TypeOK'
    BY <2>1 DEF SessionInv, Session!TypeOK, Proofs!TypeOK, Session!Threads, Proofs!Threads, Session!SdkStates,
      Proofs!SdkStates, Session!Ops, Proofs!Ops, Session!InLifecycle, Proofs!InLifecycle, Session!Waiting,
      Proofs!Waiting
  <2>3. ExecutorTypeOK'
    BY PoolTypeStep DEF TypeOK
  <2> QED
    BY <2>2, <2>3
<1>l. \A k \in ToolCalls : Legs(k) \in Nat /\ Legs(k) >= 1 /\ (k \in Screens => Legs(k) = 2)
  BY ServerKeys DEF Legs
<1> HIDE DEF TypeOK, SessionInv
<1> USE DEF CallInv, InService, Pending
<1> SUFFICES Rest'
  BY <1>t DEF TypeOK
<1>1. CASE UNCHANGED vars
  BY <1>1, <1>r DEF vars, call, cache, history
<1>2. CASE Request
  <2> SUFFICES ASSUME Arrives, UNCHANGED <<leg, result, layering, lost>>, main = "idle"
               PROVE  Rest'
    BY <1>2 DEF Request, ClientConnects, Observe, RefusesAtOnce, AnswersFromCache, AsksWind, AsksForSession,
      Arrives, history
  <2>r. requests' \in 0..MaxRequests
    BY <1>r, ServerBounds DEF Arrives
  <2>g. leg = 1 /\ lost = 0 /\ \A k \in ToolCalls : 1 \in 1..Legs(k)
    BY <1>r, <1>l
  <2>1. CASE ClientConnects
    BY <2>1, <1>r, <2>r, <2>g DEF ClientConnects
  <2>2. CASE Observe
    BY <2>2, <1>r, <2>r, <2>g, Loaded DEF Observe
  <2>0. ASSUME NEW k \in ToolCalls, RefusesAtOnce(k) PROVE Rest'
    BY <2>0, <1>r, <2>r, <2>g DEF RefusesAtOnce
  <2>3. ASSUME NEW k \in ToolCalls, AnswersFromCache(k) PROVE Rest'
    BY <2>3, <1>r, <2>r, <2>g, Loaded DEF AnswersFromCache, LookupRaises, LookupHits
  <2>4. ASSUME NEW k \in ToolCalls, AsksWind(k) PROVE Rest'
    BY <2>4, <1>r, <2>r, <2>g, Loaded DEF AsksWind, LookupMisses
  <2>5. ASSUME NEW k \in ToolCalls, AsksForSession(k) PROVE Rest'
    BY <2>5, <1>r, <2>r, <2>g DEF AsksForSession
  <2> QED
    BY <1>2, <2>0, <2>1, <2>2, <2>3, <2>4, <2>5 DEF Request
<1>3. CASE MainRuns
  <2>1. CASE SessionGoesOn(Main)
    BY <2>1, <1>r DEF SessionGoesOn, call, cache, history
  <2>2. CASE Warmed \/ SessionFails
    BY <2>2, <1>r DEF Warmed, SessionFails, call, cache, history
  <2>3. CASE SessionReady \/ SessionReadyForScreen \/ ResolvesUniverse
    BY <2>3, <1>r, ServerKeys DEF SessionReady, SessionReadyForScreen, ResolvesUniverse, call, cache, history
  <2>u. CASE UniverseReady
    BY <2>u, <1>r, <1>l DEF UniverseReady, cache, history
  <2>4. CASE SessionReadyForProfile
    BY <2>4, <1>r, ServerKeys, Loaded DEF SessionReadyForProfile, LookupRaises, LookupHits, LookupMisses, call,
      history
  <2>5. CASE Submits
    BY <2>5, <1>r DEF Submits, call, cache, history
  <2>6. CASE NextSection
    BY <2>6, <1>r, <1>l DEF NextSection, Resumes, history
  <2>7. CASE Answers
    <3>1. kept' \subseteq kept \cup {request}
      BY <2>7 DEF Answers, Stores
    <3>2. request \in Keys /\ request \notin Screens /\ main = "waiting" /\ limits' = limits
      BY <2>7, ServerKeys DEF Answers, Resumes
    <3>3. kept' \subseteq Keys /\ limits # NoLimits
      BY <3>1, <3>2, <1>r
    <3> QED
      BY <2>7, <3>2, <3>3, <1>r, <1>l DEF Answers, Resumes, history
  <2>8. CASE ScreenAnswers \/ CallFails
    <3>1. /\ UNCHANGED <<request, cache, requests, lost>>
          /\ main = "waiting" /\ main' = "idle" /\ leg' = 1 /\ result' = "none"
      BY <2>8 DEF ScreenAnswers, CallFails, Resumes, cache, history
    <3>2. request' \in ToolCalls /\ 1 \in 1..Legs(request')
      BY <3>1, <1>r, <1>l
    <3> QED
      BY <3>1, <3>2, <1>r DEF cache
  <2>9. CASE Joined \/ SessionHook \/ CleanupStops
    BY <2>9, <1>r DEF Joined, SessionHook, CleanupStops, call, cache, history
  <2>10. CASE Cleanup
    BY <2>10, <1>r, Loaded DEF Cleanup, call, history
  <2>11. CASE ShutdownReturns
    BY <2>11, <1>r DEF ShutdownReturns, call, cache
  <2> QED
    BY <1>3, <2>1, <2>2, <2>3, <2>u, <2>4, <2>5, <2>6, <2>7, <2>8, <2>9, <2>10, <2>11 DEF MainRuns
<1>4. CASE WorkerRuns
  <2>1. main' = main
    BY <1>4, WorkerKeepsMain
  <2>2. UNCHANGED <<request, leg, cache, requests, lost>> /\ result' \in {result, "data", "error"}
    BY <1>4 DEF WorkerRuns, WorkerTakes, SessionGoesOn, WorkerConnected, QueryReturns, QueryHitsTransportError,
      QueryImpossible, RetryFails, Resolves, call, history
  <2> QED
    BY <1>r, <2>1, <2>2 DEF cache
<1>5. CASE Leaves \/ JoinInterrupted \/ SdkDrops
  BY <1>5, <1>r DEF Leaves, JoinInterrupted, SdkDrops, call, cache, history
<1>6. CASE Interrupted
  <2>1. lost' \in 0..1
    <3>1. lost = 0
      BY <1>6, <1>r DEF Interrupted
    <3>2. lost' = lost \/ lost' = lost + 1
      <4>1. CASE main = "warming"
        BY <1>6, <4>1 DEF Interrupted
      <4>2. CASE main # "warming"
        BY <1>6, <4>2 DEF Interrupted
      <4> QED
        BY <4>1, <4>2
    <3> QED
      BY <3>1, <3>2
  <2>2. main' = "leaving" /\ UNCHANGED <<call, cache, requests>>
    BY <1>6 DEF Interrupted
  <2> QED
    BY <2>1, <2>2, <1>r DEF call, cache
<1> QED
  BY <1>1, <1>2, <1>3, <1>4, <1>5, <1>6 DEF Next

-----------------------------------------------------------------------------
\* What the counters are.
LEMMA CountsTypes ==
  ASSUME NEW c \in Counts
  PROVE  /\ c.total \in Nat /\ c.errors \in Nat /\ c.hits \in Nat /\ c.misses \in Nat
         /\ c.perTool \in [ToolNames -> Nat]
         /\ c.perTool.company_profile \in Nat /\ c.perTool.others \in Nat /\ c.perTool.dynamic_screen \in Nat
         /\ ToolSum(c) \in Nat
BY DEF Counts, ToolNames, ToolSum

(* record_tool_call() counts one call, under one tool. *)
LEMMA Recorded ==
  ASSUME NEW c \in Counts, NEW k, NEW error \in BOOLEAN
  PROVE  LET d == Record(c, k, error) IN
         /\ d \in Counts
         /\ d.total = c.total + 1 /\ d.hits = c.hits /\ d.misses = c.misses
         /\ d.errors = c.errors + IF error THEN 1 ELSE 0
         /\ d.perTool.dynamic_screen =
              c.perTool.dynamic_screen + IF ToolOf(k) = "dynamic_screen" THEN 1 ELSE 0
         /\ ToolSum(d) = ToolSum(c) + 1
<1> DEFINE d == Record(c, k, error)
           b == ToolOf(k)
           f == [c.perTool EXCEPT ![b] = @ + 1]
           i == IF error THEN 1 ELSE 0
           s == IF b = "dynamic_screen" THEN 1 ELSE 0
<1>1. /\ f \in [ToolNames -> Nat]
      /\ f.dynamic_screen = c.perTool.dynamic_screen + s
      /\ f.company_profile + f.dynamic_screen + f.others = ToolSum(c) + 1
  <2>1. b = "company_profile" \/ b = "dynamic_screen" \/ b = "others"
    BY DEF ToolOf
  <2> HIDE DEF b
  <2> QED
    BY <2>1, CountsTypes DEF ToolNames, ToolSum
<1>2. d = [c EXCEPT !.total = @ + 1, !.errors = @ + i, !.perTool = f]
  <2>1. CASE error
    BY <2>1 DEF Record
  <2>2. CASE ~error
    BY <2>2 DEF Record
  <2> QED
    BY <2>1, <2>2
<1>3. i \in Nat
  OBVIOUS
<1> HIDE DEF d, f, i, s
<1>4. /\ d \in Counts /\ d.perTool = f
      /\ d.total = c.total + 1 /\ d.hits = c.hits /\ d.misses = c.misses /\ d.errors = c.errors + i
  <2>1. d = [c EXCEPT !.total = c.total + 1, !.errors = c.errors + i, !.perTool = f]
    BY <1>2
  <2>2. c.total + 1 \in Nat /\ c.errors + i \in Nat
    BY <1>3, CountsTypes
  <2>3. d \in Counts
    BY <1>1, <2>1, <2>2 DEF Counts
  <2>4. /\ d.perTool = f /\ d.total = c.total + 1 /\ d.errors = c.errors + i
        /\ d.hits = c.hits /\ d.misses = c.misses
    BY <2>1 DEF Counts
  <2> QED
    BY <2>3, <2>4
<1>5. ToolSum(d) = f.company_profile + f.dynamic_screen + f.others
  BY <1>4 DEF ToolSum
<1> QED
  BY <1>1, <1>4, <1>5 DEF d, i, s

(* What is counted of a call that is not a screen, and of a screen. *)
LEMMA RecordedTool ==
  ASSUME NEW c \in Counts, NEW k, NEW error \in BOOLEAN
  PROVE  LET d == Record(c, k, error)
         IN  /\ d \in Counts
             /\ d.total = c.total + 1 /\ d.hits = c.hits /\ d.misses = c.misses
             /\ d.errors = c.errors \/ d.errors = c.errors + 1
             /\ error <=> d.errors = c.errors + 1
             /\ d.perTool.dynamic_screen \in {c.perTool.dynamic_screen, c.perTool.dynamic_screen + 1}
             /\ k \in Keys => d.perTool.dynamic_screen = c.perTool.dynamic_screen
             /\ k \in Screens => d.perTool.dynamic_screen = c.perTool.dynamic_screen + 1
             /\ ToolSum(d) = ToolSum(c) + 1
<1> DEFINE d == Record(c, k, error)
<1>1. /\ d \in Counts
      /\ d.total = c.total + 1 /\ d.hits = c.hits /\ d.misses = c.misses
      /\ d.errors = c.errors + IF error THEN 1 ELSE 0
      /\ d.perTool.dynamic_screen =
           c.perTool.dynamic_screen + IF ToolOf(k) = "dynamic_screen" THEN 1 ELSE 0
      /\ ToolSum(d) = ToolSum(c) + 1
  BY Recorded
<1>2. /\ k \in Keys => ToolOf(k) # "dynamic_screen"
      /\ k \in Screens => ToolOf(k) = "dynamic_screen"
  BY ServerKeys DEF ToolOf
<1> HIDE DEF d
<1> QED
  BY <1>1, <1>2, CountsTypes DEF d

(* A call that ends with an error, pending or not. *)
LEMMA CountsError ==
  ASSUME NEW c \in Counts, NEW k \in ToolCalls, NEW gone \in Nat, NEW pending \in {0, 1},
         Sums(c, gone, pending), pending = 1 => k \in Keys
  PROVE  Record(c, k, TRUE) \in Counts /\ Sums(Record(c, k, TRUE), gone, 0)
<1> DEFINE d == Record(c, k, TRUE)
<1>1. /\ d \in Counts
      /\ d.total = c.total + 1 /\ d.hits = c.hits /\ d.misses = c.misses
      /\ d.errors = c.errors + 1
      /\ d.perTool.dynamic_screen \in {c.perTool.dynamic_screen, c.perTool.dynamic_screen + 1}
      /\ k \in Keys => d.perTool.dynamic_screen = c.perTool.dynamic_screen
      /\ ToolSum(d) = ToolSum(c) + 1
  BY RecordedTool, ServerKeys DEF ToolCalls
<1> HIDE DEF d
<1>2. Sums(d, gone, 0)
  BY <1>1, CountsTypes DEF Sums
<1> QED
  BY <1>1, <1>2 DEF d

(* A pending call that is answered, or whose answer cannot be stored. *)
LEMMA CountsAnswer ==
  ASSUME NEW c \in Counts, NEW k \in ToolCalls, NEW gone \in Nat, NEW error \in BOOLEAN,
         Sums(c, gone, 1), k \in Keys
  PROVE  Record(c, k, error) \in Counts /\ Sums(Record(c, k, error), gone, 0)
<1> DEFINE d == Record(c, k, error)
<1>1. /\ d \in Counts
      /\ d.total = c.total + 1 /\ d.hits = c.hits /\ d.misses = c.misses
      /\ d.errors = c.errors \/ d.errors = c.errors + 1
      /\ d.perTool.dynamic_screen = c.perTool.dynamic_screen
      /\ ToolSum(d) = ToolSum(c) + 1
  BY RecordedTool, ServerKeys DEF ToolCalls
<1> HIDE DEF d
<1>2. Sums(d, gone, 0)
  BY <1>1, CountsTypes DEF Sums
<1> QED
  BY <1>1, <1>2 DEF d

(* A screen that ends, with an error or without. *)
LEMMA CountsScreen ==
  ASSUME NEW c \in Counts, NEW k \in ToolCalls, NEW gone \in Nat, NEW error \in BOOLEAN,
         Sums(c, gone, 0), k \in Screens
  PROVE  Record(c, k, error) \in Counts /\ Sums(Record(c, k, error), gone, 0)
<1> DEFINE d == Record(c, k, error)
<1>1. /\ d \in Counts
      /\ d.total = c.total + 1 /\ d.hits = c.hits /\ d.misses = c.misses
      /\ d.errors = c.errors \/ d.errors = c.errors + 1
      /\ d.perTool.dynamic_screen = c.perTool.dynamic_screen + 1
      /\ ToolSum(d) = ToolSum(c) + 1
  BY RecordedTool, ServerKeys DEF ToolCalls
<1> HIDE DEF d
<1>2. Sums(d, gone, 0)
  BY <1>1, CountsTypes DEF Sums
<1> QED
  BY <1>1, <1>2 DEF d

(* An interrupted call, pending or not. *)
LEMMA CountsLost ==
  ASSUME NEW c \in Counts, NEW k \in ToolCalls, NEW gone \in Nat, NEW pending \in {0, 1},
         Sums(c, gone, pending), pending = 1 => k \in Keys
  PROVE  Record(c, k, FALSE) \in Counts /\ Sums(Record(c, k, FALSE), gone + 1, 0)
<1> DEFINE d == Record(c, k, FALSE)
<1>1. /\ d \in Counts
      /\ d.total = c.total + 1 /\ d.hits = c.hits /\ d.misses = c.misses
      /\ d.errors = c.errors
      /\ d.perTool.dynamic_screen \in {c.perTool.dynamic_screen, c.perTool.dynamic_screen + 1}
      /\ k \in Keys => d.perTool.dynamic_screen = c.perTool.dynamic_screen
      /\ ToolSum(d) = ToolSum(c) + 1
  BY RecordedTool, ServerKeys DEF ToolCalls
<1> HIDE DEF d
<1>2. Sums(d, gone + 1, 0)
  BY <1>1, CountsTypes DEF Sums
<1> QED
  BY <1>1, <1>2 DEF d

(* A hit, which is a call without error. *)
LEMMA CountsHit ==
  ASSUME NEW c \in Counts, NEW k \in Keys, NEW gone \in Nat, Sums(c, gone, 0)
  PROVE  LET d == Record([c EXCEPT !.hits = @ + 1], k, FALSE) IN d \in Counts /\ Sums(d, gone, 0)
<1> DEFINE h == [c EXCEPT !.hits = @ + 1]
           d == Record(h, k, FALSE)
<1>1. /\ h \in Counts
      /\ h.total = c.total /\ h.hits = c.hits + 1 /\ h.misses = c.misses /\ h.errors = c.errors
      /\ h.perTool = c.perTool
  BY DEF Counts
<1> HIDE DEF h
<1>2. /\ d \in Counts
      /\ d.total = h.total + 1 /\ d.hits = h.hits /\ d.misses = h.misses /\ d.errors = h.errors
      /\ d.perTool.dynamic_screen = h.perTool.dynamic_screen
      /\ ToolSum(d) = ToolSum(h) + 1
  BY <1>1, RecordedTool
<1>3. ToolSum(h) = ToolSum(c)
  BY <1>1 DEF ToolSum
<1> HIDE DEF d
<1>4. Sums(d, gone, 0)
  BY <1>1, <1>2, <1>3, CountsTypes DEF Sums
<1> QED
  BY <1>2, <1>4 DEF d, h

(* A miss, with which a call becomes pending. *)
LEMMA CountsMiss ==
  ASSUME NEW c \in Counts, NEW gone \in Nat, Sums(c, gone, 0)
  PROVE  LET d == [c EXCEPT !.misses = @ + 1] IN d \in Counts /\ Sums(d, gone, 1)
<1> DEFINE d == [c EXCEPT !.misses = @ + 1]
<1>1. /\ d \in Counts
      /\ d.total = c.total /\ d.hits = c.hits /\ d.misses = c.misses + 1 /\ d.errors = c.errors
      /\ d.perTool = c.perTool
  BY DEF Counts
<1> HIDE DEF d
<1>2. ToolSum(d) = ToolSum(c)
  BY <1>1 DEF ToolSum
<1>3. Sums(d, gone, 1)
  BY <1>1, <1>2, CountsTypes DEF Sums
<1> QED
  BY <1>1, <1>3 DEF d

(* What wind_metrics reports adds up after every step. *)
LEMMA MetricsStep ==
  ASSUME TypeOK, SessionInv, CallInv, MetricsInv, [Next]_vars
  PROVE  MetricsInv'
<1>c. metrics \in Counts /\ lost \in Nat /\ request \in ToolCalls
  BY DEF MetricsInv, TypeOK
<1>0. ASSUME ~Pending PROVE Sums(metrics, lost, 0)
  BY <1>0 DEF MetricsInv
<1>1. ASSUME Pending PROVE Sums(metrics, lost, 1)
  BY <1>1 DEF MetricsInv
<1>k. Pending => request \in Keys
  BY <1>c DEF Pending, ToolCalls
<1>a. PICK pending \in {0, 1} : Sums(metrics, lost, pending) /\ (pending = 1 => Pending)
  BY <1>0, <1>1
<1>e. ASSUME NEW k \in ToolCalls, metrics' = Record(metrics, k, TRUE), lost' = lost, Pending => k \in Keys, ~Pending'
      PROVE  MetricsInv'
  BY <1>c, <1>a, <1>e, CountsError DEF MetricsInv
<1>s. ASSUME UNCHANGED <<metrics, lost>>, Pending' <=> Pending
      PROVE  MetricsInv'
  BY <1>s DEF MetricsInv
<1>n. ASSUME NEW error \in BOOLEAN, metrics' = Record(metrics, request, error), lost' = lost,
             request \in Screens, ~Pending, ~Pending'
      PROVE  MetricsInv'
  BY <1>c, <1>0, <1>n, CountsScreen DEF MetricsInv
<1> HIDE DEF TypeOK, MetricsInv
<1>2. CASE UNCHANGED vars
  BY <1>2, <1>s DEF vars, call, history, Pending
<1>3. CASE Request
  <2>p. main = "idle" /\ ~Pending /\ lost' = lost
    BY <1>3 DEF Request, ClientConnects, Observe, RefusesAtOnce, AnswersFromCache, AsksWind, AsksForSession,
      Arrives, history, Pending
  <2>1. CASE ClientConnects \/ Observe
    <3>1. UNCHANGED metrics /\ ~Pending'
      BY <2>1, <2>p DEF ClientConnects, Observe, Pending
    <3> QED
      BY <3>1, <2>p, <1>s
  <2>0. ASSUME NEW k \in ToolCalls, RefusesAtOnce(k) PROVE MetricsInv'
    <3>1. ~Pending' /\ metrics' = Record(metrics, k, TRUE)
      BY <2>0, <2>p DEF RefusesAtOnce, Pending
    <3> QED
      BY <3>1, <2>p, <1>e
  <2>2. ASSUME NEW k \in ToolCalls, AnswersFromCache(k) PROVE MetricsInv'
    <3>0. k \in Keys
      BY <2>2 DEF AnswersFromCache
    <3>1. ~Pending'
      BY <2>2, <2>p DEF AnswersFromCache, Pending
    <3>2. CASE LookupRaises(k)
      BY <3>1, <3>2, <2>p, <1>e DEF LookupRaises
    <3>3. CASE LookupHits(k)
      BY <3>0, <3>1, <3>3, <2>p, <1>c, <1>0, CountsHit DEF LookupHits, MetricsInv
    <3> QED
      BY <2>2, <3>2, <3>3 DEF AnswersFromCache
  <2>3. ASSUME NEW k \in ToolCalls, AsksWind(k) PROVE MetricsInv'
    <3>1. Pending'
      BY <2>3, ServerKeys DEF AsksWind, Pending
    <3>2. metrics' = [metrics EXCEPT !.misses = @ + 1]
      BY <2>3 DEF AsksWind, LookupMisses
    <3> QED
      BY <3>1, <3>2, <2>p, <1>c, <1>0, CountsMiss DEF MetricsInv
  <2>4. ASSUME NEW k \in ToolCalls, AsksForSession(k) PROVE MetricsInv'
    <3>1. UNCHANGED metrics /\ ~Pending'
      BY <2>4 DEF AsksForSession, Pending
    <3> QED
      BY <3>1, <2>p, <1>s
  <2> QED
    BY <1>3, <2>0, <2>1, <2>2, <2>3, <2>4 DEF Request
<1>4. CASE MainRuns
  <2>1. CASE \/ SessionGoesOn(Main) \/ Warmed \/ SessionReadyForScreen \/ ResolvesUniverse
             \/ Submits \/ NextSection
    <3>1. UNCHANGED <<metrics, lost, request>>
      BY <2>1 DEF SessionGoesOn, Warmed, SessionReadyForScreen, ResolvesUniverse, Submits, NextSection, Resumes,
        call, history
    <3>2. Pending' <=> Pending
      BY <2>1, <3>1 DEF SessionGoesOn, Warmed, SessionReadyForScreen, ResolvesUniverse, Submits, NextSection,
        Resumes, Pending
    <3> QED
      BY <3>1, <3>2, <1>s
  <2>r. CASE SessionReady
    <3>1. UNCHANGED <<lost, request>> /\ Pending /\ request \notin Screens
      BY <2>r, ServerKeys DEF SessionReady, call, history, Pending
    <3>2. CASE main' = "submitting" /\ UNCHANGED metrics
      BY <3>1, <3>2, <1>s DEF Pending
    <3>3. CASE main' = "idle" /\ metrics' = Record(metrics, request, TRUE)
      <4>1. ~Pending'
        BY <3>3 DEF Pending
      <4> QED
        BY <3>1, <3>3, <4>1, <1>c, <1>k, <1>e
    <3> QED
      BY <2>r, <3>2, <3>3 DEF SessionReady
  <2>u. CASE UniverseReady
    <3>1. UNCHANGED <<lost, request>> /\ ~Pending /\ ~Pending' /\ request \in Screens
      BY <2>u DEF UniverseReady, history, Pending, CallInv
    <3> QED
      BY <2>u, <3>1, <1>s, <1>n DEF UniverseReady
  <2>a. CASE ScreenAnswers
    <3>1. UNCHANGED lost /\ ~Pending /\ ~Pending' /\ request \in Screens
      BY <2>a DEF ScreenAnswers, Resumes, history, Pending
    <3> QED
      BY <2>a, <3>1, <1>n DEF ScreenAnswers
  <2>2. CASE SessionReadyForProfile
    <3>1. ~Pending /\ lost' = lost /\ request' = request /\ request \in Keys
      BY <2>2, ServerKeys DEF SessionReadyForProfile, Pending, history, call
    <3>2. CASE LookupRaises(request) /\ main' = "idle"
      BY <3>1, <3>2, <1>c, <1>e DEF LookupRaises, Pending
    <3>3. CASE LookupHits(request) /\ main' = "idle"
      <4>1. ~Pending'
        BY <3>3 DEF Pending
      <4> QED
        BY <4>1, <3>1, <3>3, <1>c, <1>0, CountsHit DEF LookupHits, MetricsInv
    <3>4. CASE LookupMisses(request) /\ main' = "submitting"
      <4>1. Pending'
        BY <3>1, <3>4, ServerKeys DEF Pending
      <4> QED
        BY <4>1, <3>1, <3>4, <1>c, <1>0, CountsMiss DEF LookupMisses, MetricsInv
    <3> QED
      BY <2>2, <3>2, <3>3, <3>4 DEF SessionReadyForProfile
  <2>3. CASE SessionFails \/ CallFails
    <3>1. metrics' = Record(metrics, request, TRUE) /\ lost' = lost /\ ~Pending'
      BY <2>3 DEF SessionFails, CallFails, Resumes, history, Pending
    <3> QED
      BY <3>1, <1>c, <1>k, <1>e
  <2>4. CASE Answers
    <3>1. Pending /\ ~Pending' /\ lost' = lost /\ request \in Keys
      BY <2>4, ServerKeys DEF Answers, Resumes, Pending, history
    <3>2. PICK error \in BOOLEAN : metrics' = Record(metrics, request, error)
      <4>1. (~IsNumber(limits.maxsize)) \in BOOLEAN
        OBVIOUS
      <4> QED
        BY <2>4, <4>1 DEF Answers, Stores
    <3> QED
      BY <3>1, <3>2, <1>c, <1>1, CountsAnswer DEF MetricsInv
  <2>5. CASE Joined \/ SessionHook \/ Cleanup \/ CleanupStops \/ ShutdownReturns
    <3>1. UNCHANGED <<metrics, lost>>
      BY <2>5 DEF Joined, SessionHook, Cleanup, CleanupStops, ShutdownReturns, history
    <3>2. ~Pending /\ ~Pending'
      BY <2>5 DEF Joined, SessionHook, Cleanup, CleanupStops, ShutdownReturns, Pending
    <3> QED
      BY <3>1, <3>2, <1>s
  <2> QED
    BY <1>4, <2>1, <2>r, <2>u, <2>a, <2>2, <2>3, <2>4, <2>5 DEF MainRuns
<1>5. CASE WorkerRuns
  <2>1. main' = main
    BY <1>5, WorkerKeepsMain
  <2>2. UNCHANGED <<metrics, lost, request>>
    BY <1>5 DEF WorkerRuns, WorkerTakes, SessionGoesOn, WorkerConnected, QueryReturns, QueryHitsTransportError,
      QueryImpossible, RetryFails, Resolves, call, history
  <2> QED
    BY <2>1, <2>2, <1>s DEF Pending
<1>6. CASE Leaves \/ JoinInterrupted \/ SdkDrops
  <2>1. UNCHANGED <<metrics, lost, request>>
    BY <1>6 DEF Leaves, JoinInterrupted, SdkDrops, call, history
  <2>2. Pending' <=> Pending
    BY <1>6, <2>1 DEF Leaves, JoinInterrupted, SdkDrops, Pending
  <2> QED
    BY <2>1, <2>2, <1>s
<1>7. CASE Interrupted
  <2>1. main' = "leaving" /\ ~Pending'
    BY <1>7 DEF Interrupted, Pending
  <2>2. CASE main = "warming"
    BY <1>7, <2>1, <2>2, <1>s DEF Interrupted, Pending
  <2>3. CASE main # "warming"
    <3>1. metrics' = Record(metrics, request, FALSE) /\ lost' = lost + 1
      BY <1>7, <2>3 DEF Interrupted
    <3> QED
      BY <3>1, <2>1, <1>c, <1>a, <1>k, CountsLost DEF MetricsInv
  <2> QED
    BY <2>2, <2>3
<1> QED
  BY <1>2, <1>3, <1>4, <1>5, <1>6, <1>7 DEF Next

-----------------------------------------------------------------------------
(* The inductive invariant holds in every state. *)
LEMMA Inductive == Spec => []IInv
<1>1. Init => IInv
  <2> SUFFICES ASSUME Init PROVE IInv
    OBVIOUS
  <2>1. SessionInv
    <3>1. 0 \in 0..MaxRetries /\ 0 \in 0..MaxCalls
      BY SessionAssumptions
    <3>2. Proofs!TypeOK
      BY <3>1 DEF Init, Session!Init, Session!Threads, Proofs!Threads, Proofs!TypeOK, Proofs!Ops, Proofs!SdkStates
    <3>3. Proofs!LockInv /\ Proofs!DownInv
      BY SessionAssumptions DEF Init, Session!Init, Session!Threads, Proofs!Threads, Proofs!LockInv, Proofs!DownInv,
        Proofs!InLifecycle
    <3> QED
      BY <3>2, <3>3 DEF SessionInv
  <2>2. Session!TypeOK
    BY <2>1 DEF SessionInv, Session!TypeOK, Proofs!TypeOK, Session!Threads, Proofs!Threads, Session!SdkStates,
      Proofs!SdkStates, Session!Ops, Proofs!Ops, Session!InLifecycle, Proofs!InLifecycle, Session!Waiting,
      Proofs!Waiting
  <2>3. ExecutorTypeOK
    <3>1. <<>> \in Seq(Jobs) /\ 0 \in 0..MaxExecutors
      BY ExecutorsAssumption
    <3> QED
      BY <3>1 DEF Init, ExecutorInit, ExecutorTypeOK, None
  <2>4. TypeOK /\ CallInv
    BY <2>2, <2>3, ServerBounds DEF Init, TypeOK, CallInv, Legs, InService, Pending
  <2>5. pc[Main] = "idle" /\ pc[Worker] = "idle"
    BY DEF Init, Session!Init, Session!Threads
  <2>6. MainInv /\ FlagsInv
    BY <2>5 DEF Init, Session!Init, MainInv, FlagsInv
  <2>7. JobsInv
    BY <2>5 DEF Init, ExecutorInit, JobsInv, AllDrained, Drained
  <2>8. MetricsInv
    BY DEF Init, MetricsInv, Counts, Sums, ToolSum, ToolNames, Pending
  <2> QED
    BY <2>1, <2>4, <2>6, <2>7, <2>8 DEF IInv
<1>2. IInv /\ [Next]_vars => IInv'
  <2> SUFFICES ASSUME IInv, [Next]_vars PROVE IInv'
    OBVIOUS
  <2>1. TypeOK /\ ExecutorTypeOK /\ SessionInv /\ MainInv /\ JobsInv /\ FlagsInv /\ CallInv /\ MetricsInv
    BY DEF IInv, TypeOK
  <2>2. SessionInv' /\ MainInv' /\ JobsInv'
    BY <2>1, SessionInvStep, MainStep, JobsStep
  <2>3. TypeOK' /\ CallInv' /\ FlagsInv' /\ MetricsInv'
    BY <2>1, CallStep, FlagsStep, MetricsStep
  <2> QED
    BY <2>2, <2>3 DEF IInv
<1> QED
  BY <1>1, <1>2, PTL DEF Spec

(* The types hold in every state: a cache that holds anything has its limits,
   no section is asked for beyond the last, and at most one call is lost. *)
THEOREM TypeCorrect == Spec => []TypeOK
<1>1. IInv => TypeOK
  BY DEF IInv
<1> QED
  BY <1>1, Inductive, PTL

(* Wind's SDK, which is not thread-safe, is never entered by the main thread
   and the worker at once: the lock keeps their starts and stops apart, and no
   query runs while the main thread uses the session, because run_wind_sync
   waits for the worker and the exit joins it. *)
THEOREM OneThreadInSdk == Spec => []SdkUsedByOneThread
<1>1. IInv => SdkUsedByOneThread
  <2> SUFFICES ASSUME IInv, InSdk(Main), InSdk(Worker) PROVE hurried
    BY DEF SdkUsedByOneThread
  <2>1. pc[Main] # "idle" /\ pc[Worker] # "idle"
    BY DEF InSdk
  <2>2. ~AllDrained
    BY <2>1, ServerJobs, NoJobAssumption DEF IInv, JobsInv, AllDrained, Drained
  <2> QED
    BY <2>1, <2>2 DEF IInv, MainInv, JobsInv
<1> QED
  BY <1>1, Inductive, PTL

(* The process does not end with the SDK started, unless w.stop() raised at
   exit or the first w.start() was interrupted. *)
THEOREM SdkReleased == Spec => []StoppedWhenGone
<1>1. IInv => StoppedWhenGone
  BY DEF IInv, FlagsInv, StoppedWhenGone
<1> QED
  BY <1>1, Inductive, PTL

(* What wind_metrics reports adds up at any moment: hits are calls without
   error, looks belong to calls that are counted or in progress and are no
   dynamic_screen, and a call that is no dynamic_screen and neither failed nor
   was interrupted has looked. *)
THEOREM MetricsTruthful == Spec => []MetricsAddUp
<1>1. IInv => MetricsAddUp
  <2> SUFFICES ASSUME IInv PROVE MetricsAddUp
    OBVIOUS
  <2> DEFINE looking == IF main \in {"connecting", "submitting", "waiting"} /\ request \in Keys THEN 1 ELSE 0
             pending == IF Pending THEN 1 ELSE 0
  <2>1. metrics \in Counts /\ Sums(metrics, lost, pending) /\ lost \in Nat /\ request \in ToolCalls
    BY DEF IInv, MetricsInv, TypeOK
  <2>2. pending \in Nat /\ looking \in Nat /\ pending <= looking
    BY <2>1 DEF Pending, ToolCalls
  <2> HIDE DEF looking, pending
  <2>3. /\ metrics.hits + metrics.errors + lost <= metrics.total
        /\ metrics.hits + metrics.misses + metrics.perTool.dynamic_screen <= metrics.total + looking
        /\ metrics.total <=
             metrics.hits + metrics.misses + metrics.errors + lost + metrics.perTool.dynamic_screen
        /\ metrics.total =
             metrics.perTool.company_profile + metrics.perTool.dynamic_screen + metrics.perTool.others
    BY <2>1, <2>2, CountsTypes DEF Sums, ToolSum
  <2> QED
    BY <2>3 DEF MetricsAddUp, looking
<1> QED
  BY <1>1, Inductive, PTL

-----------------------------------------------------------------------------
(* The configuration.  What a loop computes is a recursive function; that it
   exists, and what it comes to, is shown by induction on the loop's length. *)

(* Induction, over a set of numbers. *)
LEMMA Induction ==
  ASSUME NEW G, 0 \in G, \A k \in Nat : k \in G => k + 1 \in G
  PROVE  Nat \subseteq G
  <1> DEFINE Smaller == {ss \in Nat \X Nat : ss[1] < ss[2]}
             Rest == Nat \ G
  <1>1. IsWellFoundedOn(Smaller, Nat)
    BY NatLessThanWellFounded DEF OpToRel
  <1>2. SUFFICES ASSUME Rest # {} PROVE FALSE
    BY DEF Rest
  <1>3. PICK n \in Rest : \A m \in Rest : <<m, n>> \notin Smaller
    <2> HIDE DEF Smaller
    <2> QED BY <1>1, <1>2, WFMin
  <1>4. n # 0 /\ n - 1 \in Nat /\ n - 1 \notin G
    <2>1. n \in Nat /\ n # 0
      OBVIOUS
    <2>2. n - 1 \in Nat /\ (n - 1) + 1 = n
      BY <2>1
    <2> QED
      BY <2>1, <2>2
  <1>5. <<n - 1, n>> \in Smaller
    BY <1>4
  <1> QED
    BY <1>3, <1>4, <1>5

(* Going on from one value to the next. *)
Iterates(f, n, V, base, step) ==
  f \in [0..n -> V] /\ f[0] = base /\ \A i \in 1..n : f[i] = step[i][f[i - 1]]

LEMMA Iteration ==
  ASSUME NEW n \in Nat, NEW V, NEW base \in V, NEW step \in [1..n -> [V -> V]]
  PROVE  \E f : Iterates(f, n, V, base, step)
  <1> DEFINE Good(k, f) == Iterates(f, k, V, base, step)
             G == {k \in Nat : k <= n => \E f : Good(k, f)}
  <1>1. 0 \in G
    <2>1. Good(0, [i \in 0..0 |-> base])
      BY DEF Iterates
    <2> QED BY <2>1
  <1>2. ASSUME NEW k \in G, k + 1 <= n PROVE \E f : Good(k + 1, f)
    <2>1. PICK f : Good(k, f)
      BY <1>2
    <2> DEFINE g == [i \in 0..(k + 1) |-> IF i = k + 1 THEN step[k + 1][f[k]] ELSE f[i]]
    <2>2. Good(k + 1, g)
      BY <1>2, <2>1 DEF Iterates
    <2> QED BY <2>2
  <1>3. Nat \subseteq G
    <2>1. \A k \in Nat : k \in G => k + 1 \in G
      BY <1>2
    <2> HIDE DEF G
    <2> QED BY <1>1, <2>1, Induction
  <1> QED BY <1>3

\* A list of settings of values in W.
SettingsIn(W, settings) ==
  /\ Len(settings) \in Nat /\ DOMAIN settings = 1..Len(settings)
  /\ \A i \in DOMAIN settings : settings[i].value \in W

\* The configuration with the last setting of each field in place of the field.
Overlaid(overlaid, config, D, W, settings) ==
  /\ overlaid \in [D -> W]
  /\ \A name \in D : overlaid[name] = LastOf(settings, name, config[name])

(* setattr() in a loop: a field ends up with the last setting of its name. *)
LEMMA LastSettingWins ==
  ASSUME NEW W, NEW D, NEW config \in [D -> W], NEW settings, SettingsIn(W, settings)
  PROVE  Overlaid(Apply(config, settings), config, D, W, settings)
  <1>0. /\ Len(settings) \in Nat /\ DOMAIN settings = 1..Len(settings)
        /\ \A i \in DOMAIN settings : settings[i].value \in W
    BY DEF SettingsIn
  <1> DEFINE n == Len(settings)
             V == [D -> W]
             next(i, c) == IF settings[i].name \in DOMAIN config
                           THEN [c EXCEPT ![settings[i].name] = settings[i].value]
                           ELSE c
             step == [i \in 1..n |-> [c \in V |-> next(i, c)]]
             after[i \in 0..n] == IF i = 0 THEN config ELSE next(i, after[i - 1])
  <1>1. n \in Nat
    BY <1>0
  <1>2. step \in [1..n -> [V -> V]]
    <2>1. \A i \in 1..n : \A c \in V : next(i, c) \in V
      BY <1>0
    <2> QED
      BY <2>1
  <1>3. PICK f : Iterates(f, n, V, config, step)
    <2> HIDE DEF step, n, V
    <2>1. config \in V
      BY DEF V
    <2> QED
      BY <1>1, <1>2, <2>1, Iteration
  <1>4. f = [i \in 0..n |-> IF i = 0 THEN config ELSE next(i, f[i - 1])]
    <2>1. ASSUME NEW i \in 1..n PROVE f[i] = next(i, f[i - 1])
      <3>1. i - 1 \in 0..n
        BY <1>1
      <3>2. f[i - 1] \in V
        BY <1>3, <3>1 DEF Iterates
      <3> HIDE DEF next, V
      <3> QED
        BY <1>3, <3>2 DEF Iterates
    <2>2. 0..n = {0} \cup 1..n
      BY <1>1
    <2> HIDE DEF next, V, n
    <2> QED
      BY <1>3, <2>1, <2>2 DEF Iterates
  <1>5. after = [i \in 0..n |-> IF i = 0 THEN config ELSE next(i, after[i - 1])]
    <2> HIDE DEF next, n
    <2> QED
      BY <1>4
  <1>6. Apply(config, settings) = after[n]
    BY DEF Apply
  <1> HIDE DEF after, n
  <1> DEFINE given(i, name) == {j \in 1..i : settings[j].name = name}
             Done == {i \in Nat : i <= n =>
                        /\ after[i] \in V
                        /\ \A name \in D :
                             \/ given(i, name) = {} /\ after[i][name] = config[name]
                             \/ \E j \in given(i, name) :
                                  /\ \A k \in given(i, name) : k <= j
                                  /\ after[i][name] = settings[j].value}
  <1>7. 0 \in Done
    <2>1. after[0] = config
      BY <1>1, <1>5
    <2> QED
      BY <2>1
  <1>8. ASSUME NEW i \in Nat, i \in Done PROVE i + 1 \in Done
    <2> SUFFICES ASSUME i + 1 <= n
                 PROVE  /\ after[i + 1] \in V
                        /\ \A name \in D :
                             \/ given(i + 1, name) = {} /\ after[i + 1][name] = config[name]
                             \/ \E j \in given(i + 1, name) :
                                  /\ \A k \in given(i + 1, name) : k <= j
                                  /\ after[i + 1][name] = settings[j].value
      OBVIOUS
    <2>1. i <= n /\ i + 1 \in 1..n /\ (i + 1) - 1 = i
      BY <1>1
    <2>2. after[i + 1] = next(i + 1, after[i])
      <3> HIDE DEF next
      <3> QED
        BY <1>5, <2>1
    <2>3. after[i] \in V
      BY <1>8, <2>1
    <2>4. ASSUME NEW name \in D, settings[i + 1].name = name
          PROVE  /\ i + 1 \in given(i + 1, name)
                 /\ \A k \in given(i + 1, name) : k <= i + 1
                 /\ after[i + 1][name] = settings[i + 1].value
      BY <1>0, <2>1, <2>2, <2>3, <2>4
    <2>5. ASSUME NEW name \in D, settings[i + 1].name # name
          PROVE  given(i + 1, name) = given(i, name) /\ after[i + 1][name] = after[i][name]
      BY <2>1, <2>2, <2>3, <2>5
    <2>6. after[i + 1] \in V
      BY <1>0, <2>1, <2>2, <2>3 DEF n
    <2> HIDE DEF given, next, V
    <2> QED
      BY <1>8, <2>1, <2>4, <2>5, <2>6
  <1>9. n \in Done
    <2> HIDE DEF Done
    <2> QED
      BY <1>1, <1>7, <1>8, Induction
  <1>10. \A name \in D : given(n, name) = {i \in DOMAIN settings : settings[i].name = name}
    BY <1>0 DEF n
  <1> HIDE DEF V, given
  <1>11. \A name \in D : after[n][name] = LastOf(settings, name, config[name])
    <2> TAKE name \in D
    <2>1. CASE given(n, name) = {} /\ after[n][name] = config[name]
      BY <1>10, <2>1 DEF LastOf
    <2>2. CASE \E j \in given(n, name) : /\ \A k \in given(n, name) : k <= j
                                         /\ after[n][name] = settings[j].value
      <3>1. PICK j \in given(n, name) : /\ \A k \in given(n, name) : k <= j
                                        /\ after[n][name] = settings[j].value
        BY <2>2
      <3>2. given(n, name) \subseteq Nat
        BY <1>1 DEF given
      <3>3. j = CHOOSE i \in given(n, name) : \A k \in given(n, name) : k <= i
        BY <3>1, <3>2
      <3> QED
        BY <1>10, <3>1, <3>3 DEF LastOf
    <2> QED
      BY <1>1, <1>9, <2>1, <2>2
  <1> QED
    BY <1>1, <1>6, <1>9, <1>11 DEF V, Overlaid

(* load_config(): the environment, else the file, else the default, for any
   settings in either. *)
LEMMA LoadPriority ==
  ASSUME NEW file, NEW env, NEW name \in DOMAIN Default,
         Len(file) \in Nat, DOMAIN file = 1..Len(file),
         Len(env) \in Nat, DOMAIN env = 1..Len(env)
  PROVE  LoadConfig(file, env)[name] = Chosen(file, env, name, Default[name])
<1> DEFINE W == {Default[n] : n \in DOMAIN Default}
                \cup {FromFile(file)[i].value : i \in DOMAIN FromFile(file)}
                \cup {FromEnv(env)[i].value : i \in DOMAIN FromEnv(env)}
           D == DOMAIN Default
           layered == Apply(Default, FromFile(file))
<1>1. Default \in [D -> W]
  BY DefaultAssumption
<1>2. SettingsIn(W, FromFile(file)) /\ SettingsIn(W, FromEnv(env))
  <2>1. /\ Len(FromFile(file)) \in Nat /\ DOMAIN FromFile(file) = 1..Len(FromFile(file))
        /\ Len(FromEnv(env)) \in Nat /\ DOMAIN FromEnv(env) = 1..Len(FromEnv(env))
    BY DEF FromFile, FromEnv
  <2> QED
    BY <2>1 DEF SettingsIn
<1> HIDE DEF W, D, layered
<1>4. Overlaid(layered, Default, D, W, FromFile(file))
  BY <1>1, <1>2, LastSettingWins DEF layered
<1>5. Overlaid(Apply(layered, FromEnv(env)), layered, D, W, FromEnv(env))
  <2>1. layered \in [D -> W]
    BY <1>4 DEF Overlaid
  <2> QED
    BY <1>2, <2>1, LastSettingWins
<1>6. name \in D
  BY DEF D
<1> QED
  BY <1>4, <1>5, <1>6 DEF LoadConfig, Chosen, Overlaid, layered

\* The settings stay, and the limits are loaded or stay.
LEMMA LimitsOnlyLoaded ==
  ASSUME [Next]_vars
  PROVE  UNCHANGED layering /\ (UNCHANGED limits \/ LoadLimits)
<1>1. CASE Request
  BY <1>1 DEF Request, ClientConnects, Observe, RefusesAtOnce, AnswersFromCache, AsksWind, AsksForSession, Arrives
<1>2. CASE MainRuns
  BY <1>2 DEF MainRuns, SessionGoesOn, Warmed, SessionReady, SessionReadyForProfile, SessionReadyForScreen,
    ResolvesUniverse, UniverseReady, SessionFails,
              Submits, NextSection, Answers, ScreenAnswers, CallFails, Resumes, Joined, SessionHook, Cleanup,
              CleanupStops, ShutdownReturns, cache
<1>3. CASE WorkerRuns
  BY <1>3 DEF WorkerRuns, WorkerTakes, SessionGoesOn, WorkerConnected, QueryReturns,
              QueryHitsTransportError, QueryImpossible, RetryFails, Resolves, cache
<1>4. CASE Leaves \/ Interrupted \/ JoinInterrupted \/ SdkDrops
  BY <1>4 DEF Leaves, Interrupted, JoinInterrupted, SdkDrops, cache
<1>5. CASE UNCHANGED vars
  BY <1>5 DEF vars, cache
<1> QED
  BY <1>1, <1>2, <1>3, <1>4, <1>5 DEF Next

(* The documented priority of the layers holds for any file, any environment
   and whichever call is the first to want the cache. *)
THEOREM SettingsHonoured == Spec => []CacheObeysSettings
<1> DEFINE LimitsInv ==
             /\ layering \in Layerings
             /\ limits # NoLimits => limits = Configured(layering.file, layering.env)
<1>1. Init => LimitsInv
  BY DEF Init
<1>2. LimitsInv /\ [Next]_vars => LimitsInv'
  BY LimitsOnlyLoaded DEF LoadLimits
<1>3. LimitsInv => CacheObeysSettings
  <2> SUFFICES ASSUME LimitsInv, limits # NoLimits
               PROVE  /\ limits.maxsize = Chosen(layering.file, layering.env, MaxSizeName,
                                                 Default[MaxSizeName])
                      /\ limits.ttl = Chosen(layering.file, layering.env, TtlName,
                                             Default[TtlName])
    BY DEF CacheObeysSettings
  <2>1. /\ limits.maxsize = LoadConfig(layering.file, layering.env)[MaxSizeName]
        /\ limits.ttl = LoadConfig(layering.file, layering.env)[TtlName]
    BY DEF Configured
  <2>2. /\ Len(layering.file) \in Nat /\ DOMAIN layering.file = 1..Len(layering.file)
        /\ Len(layering.env) \in Nat /\ DOMAIN layering.env = 1..Len(layering.env)
    BY ServerLayerings
  <2> QED
    BY <2>1, <2>2, LoadPriority, ServerFields
<1> QED
  BY <1>1, <1>2, <1>3, PTL DEF Spec
=============================================================================
