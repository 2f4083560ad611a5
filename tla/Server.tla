------------------------------- MODULE Server -------------------------------
(***************************************************************************)
(* The process as it is wired (server.py): the tools and the lifespan run  *)
(* on the event loop's thread one after the other, queries on the          *)
(* executor's worker, and both use the session.  It composes WindSession   *)
(* and Executor with the metrics, the lazily configured cache, and the     *)
(* interpreter's exit.                                                     *)
(*                                                                         *)
(* A request is a client's arrival (the lifespan), or a tool's call.  Of   *)
(* the tools, company_profile (Profiles) has three queries, as in Serving, *)
(* and dynamic_screen (Screens) up to two, and no use of the cache.  An    *)
(* interrupt is a KeyboardInterrupt, raised in the main thread.            *)
(***************************************************************************)
EXTENDS Executor, Config, FiniteSets

CONSTANTS
  Main, Worker, NoThread,
  MaxRetries,    \* reconnect's default max_retries
  MaxCalls,      \* bound of WindSession, never reached here
  Keys,          \* calls whose answers the cache keeps, with their arguments
  Profiles,      \* those of company_profile
  Screens,       \* calls of dynamic_screen
  Layerings,     \* what file and environment may hold
  MaxSizeName, TtlName,   \* fields of the configuration
  NoLimits,
  MaxRequests    \* bound: requests

ASSUME ServerThreads == Main # Worker /\ NoThread \notin {Main, Worker}
ASSUME ServerRetries == MaxRetries \in Nat \ {0}
ASSUME ServerBounds == MaxRequests \in Nat /\ MaxCalls \in Nat /\ MaxCalls >= 4 * MaxRequests + 2
ASSUME ServerKeys == Profiles \subseteq Keys /\ IsFiniteSet(Keys) /\ Screens \cap Keys = {}
ASSUME ServerJobs == Jobs = {Worker}
ASSUME ServerLayerings ==
  \A l \in Layerings : \A settings \in {l.file, l.env} :
    Len(settings) \in Nat /\ DOMAIN settings = 1..Len(settings)
ASSUME ServerFields == {MaxSizeName, TtlName} \subseteq DOMAIN Default

VARIABLES
  started, needsReconnect, lock, pc, op, attempts, sdk, calls, poisoned   \* see WindSession

VARIABLES
  registered,   \* _atexit_registered
  main,         \* what the main thread is at
  request,      \* the call in progress, or the last one
  leg,          \* which of the call's queries
  result,       \* the outcome of the worker's call
  kept,         \* the keys in the cache
  limits,       \* maxsize and time to live in force, once there is a cache
  layering,     \* the file and the environment
  metrics,      \* MetricsRegistry, and the cache's counters
  requests

VARIABLES
  cutShort,     \* history: was the first w.start() interrupted?
  stopRaised,   \* history: has w.stop() raised at exit?
  hurried,      \* history: was the exit interrupted while it joined the worker?
  lost          \* history: calls ended by an interrupt

Session == INSTANCE WindSession WITH Workers <- {Worker}, Callers <- {Main}

session  == <<started, needsReconnect, lock, pc, op, attempts, sdk, calls, poisoned, registered>>
executor == <<globals, pools>>
call     == <<request, leg, result>>
cache    == <<kept, limits, layering>>
history  == <<cutShort, stopRaised, hurried, lost>>
vars == <<session, executor, main, call, cache, metrics, requests, history>>

ToolCalls == Keys \cup Screens

\* A profile's sections; the universe of a screen, and its fields.
Legs(k) ==
  CASE k \in Profiles -> 3
    [] k \in Screens  -> 2
    [] OTHER          -> 1

ToolNames == {"company_profile", "dynamic_screen", "others"}
ToolOf(k) ==
  CASE k \in Profiles -> "company_profile"
    [] k \in Screens  -> "dynamic_screen"
    [] OTHER          -> "others"

Init ==
  /\ Session!Init
  /\ ExecutorInit
  /\ registered = FALSE
  /\ main = "idle"
  /\ request \in ToolCalls /\ leg = 1 /\ result = "none"
  /\ kept = {} /\ limits = NoLimits /\ layering \in Layerings
  /\ metrics = [total |-> 0, errors |-> 0, perTool |-> [tool \in ToolNames |-> 0],
                hits |-> 0, misses |-> 0]
  /\ requests = 0
  /\ cutShort = FALSE /\ stopRaised = FALSE /\ hurried = FALSE /\ lost = 0

-----------------------------------------------------------------------------
(* Metrics and the cache. *)

\* Mutant: a failed call is not counted as a call.
RecordSuccesses(counts, k, error) ==
  [counts EXCEPT !.total = @ + IF error THEN 0 ELSE 1,
                 !.errors = @ + IF error THEN 1 ELSE 0,
                 !.perTool[ToolOf(k)] = @ + 1]

\* _timed_call's `finally`: record_tool_call.
Record(counts, k, error) ==
  [counts EXCEPT !.total = @ + 1,
                 !.errors = @ + IF error THEN 1 ELSE 0,
                 !.perTool[ToolOf(k)] = @ + 1]

\* What get_cache() takes from the configuration.
Configured(file, env) ==
  LET config == LoadConfig(file, env)
  IN  [maxsize |-> config[MaxSizeName], ttl |-> config[TtlName]]

ASSUME ServerLimits == \A l \in Layerings : Configured(l.file, l.env) # NoLimits

\* get_cache(): the first call creates the cache.
LoadLimits ==
  limits' = IF limits = NoLimits THEN Configured(layering.file, layering.env) ELSE limits

\* cache.get(k) by a tool: `now - timestamp > ttl` raises for a ttl that is a text.
LookupRaises(k) ==
  /\ k \in kept /\ ~IsNumber(limits'.ttl)
  /\ metrics' = Record(metrics, k, TRUE)
  /\ UNCHANGED kept

LookupHits(k) ==
  /\ k \in kept /\ IsNumber(limits'.ttl)
  /\ metrics' = Record([metrics EXCEPT !.hits = @ + 1], k, FALSE)
  /\ UNCHANGED kept

\* Absent, or expired and deleted; when it expires is Serving's matter.
LookupMisses(k) ==
  /\ k \in kept => IsNumber(limits'.ttl)
  /\ metrics' = [metrics EXCEPT !.misses = @ + 1]
  /\ kept' = kept \ {k}

\* cache.set(k): stores, then evicts; comparing with a text raises.
Stores(k) ==
  LET all  == kept \cup {k}
      size == Cardinality(all)
      goes == IF size <= limits.maxsize[2] THEN 0 ELSE IF size \div 5 > 1 THEN size \div 5 ELSE 1
  IN  /\ IF IsNumber(limits.maxsize)
         THEN \E left \in SUBSET all : Cardinality(left) = size - goes /\ kept' = left
         ELSE kept' = all
      /\ metrics' = Record(metrics, k, ~IsNumber(limits.maxsize))

-----------------------------------------------------------------------------
(* Requests, on the main thread. *)

Arrives ==
  /\ main = "idle"
  /\ requests < MaxRequests
  /\ requests' = requests + 1
  /\ UNCHANGED <<executor, leg, result, layering, history>>

\* The lifespan of a new client warms the session up.  Its end changes nothing.
ClientConnects ==
  /\ Arrives
  /\ Session!CallGet(Main)
  /\ main' = "warming"
  /\ UNCHANGED <<registered, request, kept, limits, metrics>>

\* wind_metrics and wind://health read, but may be the first to want the cache.
Observe ==
  /\ Arrives
  /\ LoadLimits
  /\ UNCHANGED <<session, main, request, kept, metrics>>

\* A tool may refuse its arguments before anything else.
RefusesAtOnce(k) ==
  /\ Arrives /\ k \in Keys \ Profiles
  /\ metrics' = Record(metrics, k, TRUE)
  /\ request' = k
  /\ UNCHANGED <<session, main, kept, limits>>

\* Else it looks in the cache first ...
AnswersFromCache(k) ==
  /\ Arrives /\ k \in Keys \ Profiles
  /\ LoadLimits
  /\ LookupRaises(k) \/ LookupHits(k)
  /\ request' = k
  /\ UNCHANGED <<session, main>>

AsksWind(k) ==
  /\ Arrives /\ k \in Keys \ Profiles
  /\ LoadLimits
  /\ LookupMisses(k)
  /\ request' = k
  /\ Session!CallGet(Main)
  /\ main' = "connecting"
  /\ UNCHANGED registered

\* ... but company_profile and dynamic_screen get the session first.
AsksForSession(k) ==
  /\ Arrives /\ k \in Profiles \cup Screens
  /\ request' = k
  /\ Session!CallGet(Main)
  /\ main' = "connecting"
  /\ UNCHANGED <<registered, kept, limits, metrics>>

-----------------------------------------------------------------------------
(* WindSession.get() on the main thread, for a tool or for the lifespan. *)

Register == registered' = TRUE

Connected(t) ==
  \/ Session!GetReady(t) /\ UNCHANGED registered
  \/ (Session!StartSucceeds(t) \/ Session!RestartSucceeds(t)) /\ Register

NotConnected(t) ==
  (Session!StartFails(t) \/ Session!ReconnectGivesUp(t)) /\ UNCHANGED registered

\* The steps in between, of either thread.
SessionGoesOn(t) ==
  /\ \/ Session!GetStarts(t) \/ Session!GetReconnects(t)
     \/ Session!StopReturns(t) \/ Session!RestartFails(t) \/ Session!WakesUp(t)
     \/ op[t] = "query" /\ Session!Invalidate(t)
     \/ Session!RecoverReconnects(t) \/ Session!ShutdownStops(t)
  /\ UNCHANGED <<registered, executor, main, call, cache, metrics, requests, history>>

\* The lifespan swallows the failure.
Warmed ==
  /\ main = "warming"
  /\ Connected(Main) \/ NotConnected(Main)
  /\ main' = "idle"
  /\ UNCHANGED <<executor, call, cache, metrics, requests, history>>

\* holders may still find that it does not know the kind it is asked for.
SessionReady ==
  /\ main = "connecting" /\ request \in Keys \ Profiles
  /\ Connected(Main)
  /\ \/ main' = "submitting" /\ UNCHANGED metrics
     \/ main' = "idle" /\ metrics' = Record(metrics, request, TRUE)
  /\ UNCHANGED <<executor, call, cache, requests, history>>

SessionReadyForProfile ==
  /\ main = "connecting" /\ request \in Profiles
  /\ Connected(Main)
  /\ LoadLimits
  /\ \/ (LookupRaises(request) \/ LookupHits(request)) /\ main' = "idle"
     \/ LookupMisses(request) /\ main' = "submitting"
  /\ UNCHANGED <<executor, call, layering, requests, history>>

\* handle_dynamic_screen has its session, and resolve_universe() gets its own.
SessionReadyForScreen ==
  /\ main = "connecting" /\ request \in Screens
  /\ Connected(Main)
  /\ main' = "screening"
  /\ UNCHANGED <<executor, call, cache, metrics, requests, history>>

ResolvesUniverse ==
  /\ main = "screening"
  /\ Session!CallGet(Main)
  /\ main' = "resolving"
  /\ UNCHANGED <<registered, executor, call, cache, metrics, requests, history>>

\* Then it asks for an index's or a sector's members (leg 1), or has the codes
\* already (leg 2), or none of them, or it does not know the universe's kind.
UniverseReady ==
  /\ main = "resolving"
  /\ Connected(Main)
  /\ \/ main' = "submitting" /\ leg' \in {1, 2} /\ UNCHANGED metrics
     \/ /\ main' = "idle" /\ UNCHANGED leg
        /\ \E error \in BOOLEAN : metrics' = Record(metrics, request, error)
  /\ UNCHANGED <<executor, request, result, cache, requests, history>>

SessionFails ==
  /\ main \in {"connecting", "resolving"}
  /\ NotConnected(Main)
  /\ metrics' = Record(metrics, request, TRUE)
  /\ main' = "idle"
  /\ UNCHANGED <<executor, call, cache, requests, history>>

-----------------------------------------------------------------------------
(* run_wind_sync and the worker. *)

\* Mutant: run_wind_sync does not wait for the result.
SubmitsOnly ==
  /\ main = "submitting"
  /\ \E e \in Executors : GetExecutor(e) /\ Submit(e, Worker)
  /\ main' = "idle"
  /\ UNCHANGED <<session, call, cache, metrics, requests, history>>

Submits ==
  /\ main = "submitting"
  /\ \E e \in Executors : GetExecutor(e) /\ Submit(e, Worker)
  /\ main' = "waiting"
  /\ UNCHANGED <<session, call, cache, metrics, requests, history>>

WorkerTakes ==
  /\ \E e \in Executors : Take(e)
  /\ Session!CallQuery(Worker)
  /\ UNCHANGED <<registered, globals, main, call, cache, metrics, requests, history>>

WorkerConnected ==
  /\ Connected(Worker)
  /\ UNCHANGED <<executor, main, call, cache, metrics, requests, history>>

QueryHitsTransportError ==
  /\ Session!QueryHitsTransportError(Worker)
  /\ UNCHANGED <<registered, executor, main, call, cache, metrics, requests, history>>

\* The future is resolved with data, or with what a parser or the handler raises on.
Resolves(outcome) ==
  /\ \E e \in Executors : Finish(e, Worker)
  /\ result' = outcome
  /\ UNCHANGED <<globals, main, request, leg, cache, metrics, requests, history>>

QueryReturns ==
  /\ Session!QueryReturns(Worker) /\ UNCHANGED registered
  /\ Resolves("data") \/ Resolves("error")

QueryImpossible == NotConnected(Worker) /\ Resolves("error")

RetryFails ==
  /\ op[Worker] = "retry"
  /\ Session!Invalidate(Worker) /\ UNCHANGED registered
  /\ Resolves("error")

-----------------------------------------------------------------------------
(* future.result() returns or raises. *)

Resumes ==
  /\ main = "waiting"
  /\ result # "none"
  /\ result' = "none"
  /\ UNCHANGED <<session, executor, request, limits, layering, requests, history>>

\* Mutant: one section more than there are.
NextSectionPastLast ==
  /\ Resumes
  /\ leg <= Legs(request)
  /\ result = "data" \/ request \in Profiles
  /\ leg' = leg + 1
  /\ main' = "submitting"
  /\ UNCHANGED <<kept, metrics>>

\* Each section of a profile may fail by itself; a screen needs its universe.
NextSection ==
  /\ Resumes
  /\ leg < Legs(request)
  /\ result = "data" \/ request \in Profiles
  /\ leg' = leg + 1
  /\ main' = "submitting"
  /\ UNCHANGED <<kept, metrics>>

Answers ==
  /\ Resumes
  /\ leg = Legs(request)
  /\ result = "data" \/ request \in Profiles
  /\ request \in Keys /\ Stores(request)
  /\ leg' = 1
  /\ main' = "idle"

\* A screen's answer is not kept; after leg 1 it is that nobody is a member.
ScreenAnswers ==
  /\ Resumes
  /\ result = "data" /\ request \in Screens
  /\ metrics' = Record(metrics, request, FALSE)
  /\ leg' = 1
  /\ main' = "idle"
  /\ UNCHANGED kept

CallFails ==
  /\ Resumes
  /\ result = "error" /\ request \notin Profiles
  /\ metrics' = Record(metrics, request, TRUE)
  /\ leg' = 1
  /\ main' = "idle"
  /\ UNCHANGED kept

-----------------------------------------------------------------------------
(* The end of the process. *)

\* The transport closes.
Leaves ==
  /\ main = "idle"
  /\ main' = "leaving"
  /\ UNCHANGED <<session, executor, call, cache, metrics, requests, history>>

\* A KeyboardInterrupt in the middle of WindSession.get(): `with` gives the lock
\* back, `except Exception` does not see it, so the flags stay as they are.
Unwinds ==
  /\ pc' = [pc EXCEPT ![Main] = "idle"]
  /\ lock' = IF lock = Main THEN NoThread ELSE lock
  /\ \/ sdk' = sdk
     \/ pc[Main] = "stopping" /\ sdk' = "stopped"
     \/ pc[Main] \in {"starting", "restarting"} /\ sdk' = "connected"
  /\ cutShort' = (cutShort \/ pc[Main] = "starting")
  /\ UNCHANGED <<started, needsReconnect, op, attempts, calls, poisoned, registered>>

\* ... or anywhere else in a tool's call, which _timed_call counts as no error.
Interrupted ==
  /\ main \in {"warming", "connecting", "screening", "resolving", "submitting", "waiting"}
  /\ Unwinds
  /\ IF main = "warming" THEN UNCHANGED <<metrics, lost>>
     ELSE metrics' = Record(metrics, request, FALSE) /\ lost' = lost + 1
  /\ main' = "leaving"
  /\ UNCHANGED <<executor, call, cache, requests, stopRaised, hurried>>

\* The interpreter joins the pool's worker before it runs the hooks ...
Joined ==
  /\ main = "leaving"
  /\ \A e \in Executors : Drained(e)
  /\ main' = "atexit"
  /\ UNCHANGED <<session, executor, call, cache, metrics, requests, history>>

\* ... unless it is interrupted in that, too.
JoinInterrupted ==
  /\ main = "leaving"
  /\ \E e \in Executors : ~Drained(e)
  /\ hurried' = TRUE
  /\ main' = "atexit"
  /\ UNCHANGED <<session, executor, call, cache, metrics, requests, cutShort, stopRaised, lost>>

\* The session's hook was registered last, if it was, and runs first.
SessionHook ==
  /\ main = "atexit"
  /\ IF registered
     THEN Session!CallShutdown(Main) /\ UNCHANGED registered /\ main' = "stopping"
     ELSE UNCHANGED session /\ main' = "cleanup"
  /\ UNCHANGED <<executor, call, cache, metrics, requests, history>>

\* _process_cleanup: the cache's statistics, then shutdown_executor() ...
Cleanup ==
  /\ main = "cleanup"
  /\ LoadLimits
  /\ Capture(current)
  /\ main' = "closing"
  /\ UNCHANGED <<session, call, kept, layering, metrics, requests, history>>

\* ... which waits for the worker, then _shutdown().
CleanupStops ==
  /\ main = "closing"
  /\ \/ current = None /\ UNCHANGED pools
     \/ current # None /\ Drained(current) /\ Close(current)
  /\ Session!CallShutdown(Main)
  /\ main' = "lastStop"
  /\ UNCHANGED <<registered, globals, call, cache, metrics, requests, history>>

ShutdownReturns ==
  /\ main \in {"stopping", "lastStop"}
  /\ \/ Session!ShutdownIdle(Main) /\ UNCHANGED stopRaised
     \/ Session!ShutdownDone(Main) /\ stopRaised' = (stopRaised \/ sdk' # "stopped")
  /\ main' = IF main = "stopping" THEN "cleanup" ELSE "gone"
  /\ UNCHANGED <<registered, executor, call, cache, metrics, requests, cutShort, hurried, lost>>

SdkDrops ==
  /\ main # "gone"
  /\ Session!SdkDrops
  /\ UNCHANGED <<registered, executor, main, call, cache, metrics, requests, history>>

-----------------------------------------------------------------------------
Request ==
  \/ ClientConnects \/ Observe
  \/ \E k \in ToolCalls :
       RefusesAtOnce(k) \/ AnswersFromCache(k) \/ AsksWind(k) \/ AsksForSession(k)

MainRuns ==
  \/ SessionGoesOn(Main)
  \/ Warmed \/ SessionReady \/ SessionReadyForProfile \/ SessionFails
  \/ SessionReadyForScreen \/ ResolvesUniverse \/ UniverseReady
  \/ Submits \/ NextSection \/ Answers \/ ScreenAnswers \/ CallFails
  \/ Joined \/ SessionHook \/ Cleanup \/ CleanupStops \/ ShutdownReturns

WorkerRuns ==
  \/ WorkerTakes \/ SessionGoesOn(Worker) \/ WorkerConnected
  \/ QueryReturns \/ QueryHitsTransportError \/ QueryImpossible \/ RetryFails

Next ==
  \/ Request \/ MainRuns \/ WorkerRuns
  \/ Leaves \/ Interrupted \/ JoinInterrupted \/ SdkDrops

Spec == Init /\ [][Next]_vars

(* Both threads run on, and Wind's calls return ("The executor waits for
   WindPy to return", README): run_wind_sync and the join at exit have no
   timeout. *)
FairSpec == Spec /\ WF_vars(MainRuns) /\ WF_vars(WorkerRuns)

-----------------------------------------------------------------------------
TypeOK ==
  /\ Session!TypeOK
  /\ ExecutorTypeOK
  /\ main \in {"idle", "warming", "connecting", "screening", "resolving", "submitting", "waiting",
               "leaving", "atexit", "stopping", "cleanup", "closing", "lastStop", "gone"}
  /\ request \in ToolCalls /\ leg \in 1..Legs(request) /\ result \in {"none", "data", "error"}
  /\ kept \subseteq Keys
  /\ kept # {} => limits # NoLimits
  /\ requests \in 0..MaxRequests /\ lost \in 0..1

InSdk(t) == pc[t] \in {"starting", "stopping", "restarting", "exiting", "querying"}

(* "All Wind API calls MUST go through this executor" (executor.py): they do
   not, since handlers, lifespan and exit start, restart and stop the SDK on
   the main thread; but the two threads are never in the SDK at once, unless
   the exit was interrupted while it joined the worker. *)
SdkUsedByOneThread == hurried \/ ~(InSdk(Main) /\ InSdk(Worker))

(* "Release process-global Wind resources at interpreter exit"
   (_process_cleanup): whatever the session's state when the process leaves,
   and though a worker that outlives an interrupted join may restart the SDK
   after the session's own hook has stopped it, the process does not end with
   the SDK started, unless w.stop() raised or the very first w.start() was
   interrupted, which leaves both flags down. *)
StoppedWhenGone == main = "gone" => sdk = "stopped" \/ stopRaised \/ cutShort

(* What wind_metrics reports adds up at any moment: a hit is a call without
   error; a look in the cache belongs to a call that is counted, or still in
   progress, and is no dynamic_screen, which never looks; and a call that is no
   dynamic_screen, did not fail and was not interrupted, has looked once. *)
MetricsAddUp ==
  LET looking == IF main \in {"connecting", "submitting", "waiting"} /\ request \in Keys THEN 1 ELSE 0
      looked  == metrics.hits + metrics.misses
      screens == metrics.perTool.dynamic_screen
  IN  /\ metrics.hits + metrics.errors + lost <= metrics.total
      /\ looked + screens <= metrics.total + looking
      /\ metrics.total <= looked + metrics.errors + lost + screens
      /\ metrics.total = metrics.perTool.company_profile + screens + metrics.perTool.others

(* "Load priority" (config.py): whoever is the first to want the cache, and
   whenever, its limits are what the environment says, else the file, else
   the default. *)
CacheObeysSettings ==
  limits # NoLimits =>
    /\ limits.maxsize = Chosen(layering.file, layering.env, MaxSizeName, Default[MaxSizeName])
    /\ limits.ttl = Chosen(layering.file, layering.env, TtlName, Default[TtlName])

(* "Override any value via environment variable: WIND_MCP_<SECTION>_<KEY>"
   (wind_mcp.toml), where [session] has "reconnect_retries": the number of
   attempts a lost connection gets is the number set there. *)
SettingsTakeEffect ==
  [][\A t \in {Main, Worker} :
       pc[t] = "wantGet" /\ pc'[t] = "stopping" =>
         Number(attempts'[t]) = Chosen(layering.file, layering.env,
                                       <<"session", "reconnect", "retries">>,
                                       Number(MaxRetries))]_vars

(* The main thread comes back from every request, and the process from its
   exit, whatever fails, drops or is interrupted on the way. *)
MainComesBack == main \notin {"idle", "gone"} ~> main \in {"idle", "gone"}
=============================================================================
