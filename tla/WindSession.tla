----------------------------- MODULE WindSession -----------------------------
(***************************************************************************)
(* The process-wide Wind session: WindSession (core/session.py) and the    *)
(* recovery around one SDK call, wind_call_with_resilience                 *)
(* (core/resilience.py).                                                   *)
(*                                                                         *)
(* Workers run queries: the executor's thread, and the threads of          *)
(* executors that were abandoned while wedged.  Callers are the threads    *)
(* that touch the session outside the executor: a handler or the server's  *)
(* lifespan calling WindSession.get(), _abandon_query calling              *)
(* invalidate(), the exit handler calling _shutdown().                     *)
(*                                                                         *)
(* Every SDK call that changes something (w.start, w.stop, the query) has  *)
(* a state of its own while it runs; what the SDK does is the last part    *)
(* of this module.                                                         *)
(***************************************************************************)
EXTENDS Naturals

CONSTANTS Workers, Callers,
          NoThread,
          MaxRetries,   \* reconnect's max_retries when called by get()
          MaxCalls      \* bound: operations begun in one behaviour

Threads == Workers \cup Callers

ASSUME NoThreadAssumption == NoThread \notin Threads
ASSUME RetriesAssumption == MaxRetries \in Nat \ {0}
ASSUME CallsAssumption == MaxCalls \in Nat

VARIABLES
  started,          \* WindSession._started
  needsReconnect,   \* WindSession._needs_reconnect
  lock,             \* owner of the reentrant WindSession._lock
  pc,               \* where each thread is
  op,               \* what it is doing it for
  attempts,         \* reconnect attempts it may still make
  sdk,              \* the connection behind w
  calls,            \* operations begun so far
  poisoned          \* history: blamed since the last w.start() was called

flags == <<started, needsReconnect>>
vars  == <<started, needsReconnect, lock, pc, op, attempts, sdk, calls, poisoned>>

(* What w.isconnected() tells apart.  A connected SDK may be stale all the
   same and fail queries with -40521010. *)
SdkStates == {"stopped", "connected", "dropped"}

\* Holding _lock, inside an SDK call or the sleep between two attempts.
InLifecycle == {"starting", "stopping", "restarting", "sleeping", "exiting"}
\* Blocked in `with cls._lock`.
Waiting == {"wantGet", "wantInvalidate", "wantReconnect", "wantShutdown"}

Ops == {"none", "get", "query", "retry", "abandon", "shutdown"}

Init ==
  /\ started = FALSE
  /\ needsReconnect = FALSE
  /\ lock = NoThread
  /\ pc = [t \in Threads |-> "idle"]
  /\ op = [t \in Threads |-> "none"]
  /\ attempts = [t \in Threads |-> 0]
  /\ sdk = "stopped"
  /\ calls = 0
  /\ poisoned = FALSE

Goto(t, label) == pc' = [pc EXCEPT ![t] = label]

-----------------------------------------------------------------------------
(* Where operations begin. *)

Begin(t, o, label) ==
  /\ pc[t] = "idle"
  /\ calls < MaxCalls
  /\ calls' = calls + 1
  /\ op' = [op EXCEPT ![t] = o]
  /\ Goto(t, label)
  /\ UNCHANGED <<started, needsReconnect, lock, attempts, sdk>>

\* WindSession.get() by a handler or the lifespan.
CallGet(t) == t \in Callers /\ Begin(t, "get", "wantGet") /\ UNCHANGED poisoned

\* wind_call_with_resilience on an executor thread.
CallQuery(t) == t \in Workers /\ Begin(t, "query", "wantGet") /\ UNCHANGED poisoned

\* _abandon_query has disowned a query: the session it runs on is suspect.
CallInvalidate(t) ==
  t \in Callers /\ Begin(t, "abandon", "wantInvalidate") /\ poisoned' = TRUE

CallShutdown(t) ==
  t \in Callers /\ Begin(t, "shutdown", "wantShutdown") /\ UNCHANGED poisoned

-----------------------------------------------------------------------------
(* get(): look at the flags under the lock. *)

IsConnected == started /\ ~needsReconnect /\ sdk = "connected"

\* The code after get() returned: the query, or nothing.
AfterGet(t) == IF op[t] = "get" THEN "idle" ELSE "querying"

\* reconnect() begins: the flags go down first, then w.stop() is called.
EnterReconnect(t, n) ==
  /\ lock' = t
  /\ started' = FALSE
  /\ needsReconnect' = TRUE
  /\ attempts' = [attempts EXCEPT ![t] = n]
  /\ Goto(t, "stopping")
  /\ UNCHANGED <<op, sdk, calls, poisoned>>

\* Mutant: the lock is kept for the query that follows.
GetReadyKeepsLock(t) ==
  /\ pc[t] = "wantGet" /\ lock = NoThread
  /\ IsConnected
  /\ lock' = IF op[t] = "query" THEN t ELSE NoThread
  /\ Goto(t, AfterGet(t))
  /\ UNCHANGED <<started, needsReconnect, op, attempts, sdk, calls, poisoned>>

GetReady(t) ==
  /\ pc[t] = "wantGet" /\ lock = NoThread
  /\ IsConnected
  /\ Goto(t, AfterGet(t))
  /\ UNCHANGED <<started, needsReconnect, lock, op, attempts, sdk, calls, poisoned>>

GetStarts(t) ==
  /\ pc[t] = "wantGet" /\ lock = NoThread
  /\ ~needsReconnect /\ ~started
  /\ lock' = t
  /\ poisoned' = FALSE
  /\ Goto(t, "starting")
  /\ UNCHANGED <<started, needsReconnect, op, attempts, sdk, calls>>

GetReconnects(t) ==
  /\ pc[t] = "wantGet" /\ lock = NoThread
  /\ needsReconnect \/ (started /\ ~IsConnected)
  /\ EnterReconnect(t, MaxRetries)

\* w.start() in _start() succeeded; the lock is released on the way out.
StartSucceeds(t) ==
  /\ pc[t] = "starting"
  /\ started' = TRUE
  /\ needsReconnect' = FALSE
  /\ lock' = NoThread
  /\ sdk' = "connected"
  /\ Goto(t, AfterGet(t))
  /\ UNCHANGED <<op, attempts, calls, poisoned>>

\* An error code or an exception; it leaves get() and what called it.
StartFails(t) ==
  /\ pc[t] = "starting"
  /\ started' = FALSE
  /\ lock' = NoThread
  /\ Goto(t, "idle")
  /\ UNCHANGED <<needsReconnect, op, attempts, sdk, calls, poisoned>>

-----------------------------------------------------------------------------
(* reconnect(): stop, start, sleep, again. *)

\* w.stop() returned, or raised (swallowed, the SDK as it was); w.start() is called.
StopReturns(t) ==
  /\ pc[t] = "stopping"
  /\ sdk' \in {"stopped", sdk}
  /\ poisoned' = FALSE
  /\ Goto(t, "restarting")
  /\ UNCHANGED <<started, needsReconnect, lock, op, attempts, calls>>

RestartSucceeds(t) ==
  /\ pc[t] = "restarting"
  /\ started' = TRUE
  /\ needsReconnect' = FALSE
  /\ lock' = NoThread
  /\ sdk' = "connected"
  /\ Goto(t, AfterGet(t))
  /\ UNCHANGED <<op, attempts, calls, poisoned>>

\* Mutant: the attempts are not bounded.
RestartFailsUnbounded(t) ==
  /\ pc[t] = "restarting"
  /\ attempts' = [attempts EXCEPT ![t] = attempts[t] - 1]
  /\ Goto(t, "sleeping")
  /\ UNCHANGED <<started, needsReconnect, lock, op, sdk, calls, poisoned>>

RestartFails(t) ==
  /\ pc[t] = "restarting"
  /\ attempts[t] > 1
  /\ attempts' = [attempts EXCEPT ![t] = attempts[t] - 1]
  /\ Goto(t, "sleeping")
  /\ UNCHANGED <<started, needsReconnect, lock, op, sdk, calls, poisoned>>

\* The backoff is slept with the lock held.
WakesUp(t) ==
  /\ pc[t] = "sleeping"
  /\ Goto(t, "stopping")
  /\ UNCHANGED <<started, needsReconnect, lock, op, attempts, sdk, calls, poisoned>>

\* The last attempt failed: ConnectionError, or the raw result of the query.
ReconnectGivesUp(t) ==
  /\ pc[t] = "restarting"
  /\ attempts[t] <= 1
  /\ started' = FALSE
  /\ needsReconnect' = TRUE
  /\ lock' = NoThread
  /\ Goto(t, "idle")
  /\ UNCHANGED <<op, attempts, sdk, calls, poisoned>>

-----------------------------------------------------------------------------
(* wind_call_with_resilience after get(): the query runs without the lock. *)

\* A result, an exception or an error that is not the transport error.
QueryReturns(t) ==
  /\ pc[t] = "querying"
  /\ Goto(t, "idle")
  /\ UNCHANGED <<started, needsReconnect, lock, op, attempts, sdk, calls, poisoned>>

\* Mutant: a failed retry does not invalidate the session again.
RetryErrorIgnored(t) ==
  /\ pc[t] = "querying"
  /\ poisoned' = TRUE
  /\ Goto(t, IF op[t] = "query" THEN "wantInvalidate" ELSE "idle")
  /\ UNCHANGED <<started, needsReconnect, lock, op, attempts, sdk, calls>>

QueryHitsTransportError(t) ==
  /\ pc[t] = "querying"
  /\ poisoned' = TRUE
  /\ Goto(t, "wantInvalidate")
  /\ UNCHANGED <<started, needsReconnect, lock, op, attempts, sdk, calls>>

\* Mutant: invalidate() does not take the lock.
InvalidateUnlocked(t) ==
  /\ pc[t] = "wantInvalidate"
  /\ needsReconnect' = TRUE
  /\ Goto(t, IF op[t] = "query" THEN "wantReconnect" ELSE "idle")
  /\ UNCHANGED <<started, lock, op, attempts, sdk, calls, poisoned>>

(* invalidate().  After the first transport error of a query a reconnect
   follows; after that of its retry, and for _abandon_query, nothing. *)
Invalidate(t) ==
  /\ pc[t] = "wantInvalidate" /\ lock = NoThread
  /\ needsReconnect' = TRUE
  /\ Goto(t, IF op[t] = "query" THEN "wantReconnect" ELSE "idle")
  /\ UNCHANGED <<started, lock, op, attempts, sdk, calls, poisoned>>

\* reconnect(max_retries=1), then the one retry.
RecoverReconnects(t) ==
  /\ pc[t] = "wantReconnect" /\ lock = NoThread
  /\ lock' = t
  /\ started' = FALSE
  /\ needsReconnect' = TRUE
  /\ attempts' = [attempts EXCEPT ![t] = 1]
  /\ op' = [op EXCEPT ![t] = "retry"]
  /\ Goto(t, "stopping")
  /\ UNCHANGED <<sdk, calls, poisoned>>

-----------------------------------------------------------------------------
(* _shutdown(). *)

ShutdownStops(t) ==
  /\ pc[t] = "wantShutdown" /\ lock = NoThread
  /\ started \/ needsReconnect
  /\ lock' = t
  /\ Goto(t, "exiting")
  /\ UNCHANGED <<started, needsReconnect, op, attempts, sdk, calls, poisoned>>

\* Mutant: only _started is looked at.
ShutdownIdleUnlessStarted(t) ==
  /\ pc[t] = "wantShutdown" /\ lock = NoThread
  /\ ~started
  /\ Goto(t, "idle")
  /\ UNCHANGED <<started, needsReconnect, lock, op, attempts, sdk, calls, poisoned>>

ShutdownIdle(t) ==
  /\ pc[t] = "wantShutdown" /\ lock = NoThread
  /\ ~started /\ ~needsReconnect
  /\ Goto(t, "idle")
  /\ UNCHANGED <<started, needsReconnect, lock, op, attempts, sdk, calls, poisoned>>

\* Mutant: _shutdown() forgets to lower _started.
ShutdownKeepsStarted(t) ==
  /\ pc[t] = "exiting"
  /\ sdk' \in {"stopped", sdk}
  /\ needsReconnect' = FALSE
  /\ lock' = NoThread
  /\ Goto(t, "idle")
  /\ UNCHANGED <<started, op, attempts, calls, poisoned>>

ShutdownDone(t) ==
  /\ pc[t] = "exiting"
  /\ sdk' \in {"stopped", sdk}
  /\ started' = FALSE
  /\ needsReconnect' = FALSE
  /\ lock' = NoThread
  /\ Goto(t, "idle")
  /\ UNCHANGED <<op, attempts, calls, poisoned>>

-----------------------------------------------------------------------------
(* The SDK on its own: the connection drops. *)
SdkDrops ==
  /\ sdk = "connected"
  /\ sdk' = "dropped"
  /\ UNCHANGED <<started, needsReconnect, lock, pc, op, attempts, calls, poisoned>>

Calls(t) == CallGet(t) \/ CallQuery(t) \/ CallInvalidate(t) \/ CallShutdown(t)

Lifecycle(t) ==
  \/ GetReady(t) \/ GetStarts(t) \/ GetReconnects(t)
  \/ StartSucceeds(t) \/ StartFails(t)
  \/ StopReturns(t) \/ RestartSucceeds(t) \/ RestartFails(t)
  \/ WakesUp(t) \/ ReconnectGivesUp(t)
  \/ Invalidate(t) \/ RecoverReconnects(t)
  \/ ShutdownStops(t) \/ ShutdownIdle(t) \/ ShutdownDone(t)

Query(t) == QueryReturns(t) \/ QueryHitsTransportError(t)

Next == SdkDrops \/ \E t \in Threads : Calls(t) \/ Lifecycle(t) \/ Query(t)

Spec == Init /\ [][Next]_vars

(* w.start and w.stop return and a free lock is given to somebody; a query
   may never return (executor.py: "Python cannot kill a thread stuck inside
   a Wind SDK (COM) call"), so no fairness is assumed of it. *)
FairSpec == Spec /\ \A t \in Threads : WF_vars(Lifecycle(t))

-----------------------------------------------------------------------------
TypeOK ==
  /\ started \in BOOLEAN
  /\ needsReconnect \in BOOLEAN
  /\ lock \in Threads \cup {NoThread}
  /\ pc \in [Threads -> {"idle", "querying"} \cup InLifecycle \cup Waiting]
  /\ op \in [Threads -> Ops]
  /\ attempts \in [Threads -> 0..MaxRetries]
  /\ sdk \in SdkStates
  /\ calls \in 0..MaxCalls
  /\ poisoned \in BOOLEAN

Usable == started /\ ~needsReconnect

(* invalidate(): "unusable until a real restart succeeds" (session.py).  A
   session that returned the transport error, or on which a query was
   abandoned, is passed by get() again only after a w.start() that was called
   later, or while the thread that saw the failure still waits to mark it:
   no reconnect in progress swallows the mark, and no path forgets to set it. *)
FailureNotForgotten ==
  Usable /\ poisoned => \E t \in Threads : pc[t] = "wantInvalidate"

(* Whoever takes the free lock and finds the session usable finds an SDK that
   nobody stopped: w.stop() and the flags change as one, though the code sets
   the flags before it in reconnect() and after it in _shutdown(). *)
FlagsMatchSdk == Usable /\ lock = NoThread => sdk # "stopped"

\* What the contract calls usable, fresh and owing.
Open == Usable /\ lock = NoThread
Restarting == \E t \in Threads : pc[t] \in {"starting", "restarting"}
Owing == {t \in Threads : pc[t] = "wantInvalidate"}

Contract == INSTANCE SessionContract WITH
  holder <- lock, usable <- Open, fresh <- Restarting, owing <- Owing

(* The session implements its contract (SessionContract): every step of the
   code is a step of the contract or leaves it alone. *)
ImplementsContract == Contract!SessionSpec

(* resilience.py: the callback runs outside the session lock because holding
   it "would let one wedged SDK call block reconnect on the same lock
   forever".  A thread that waits for the lock, or is in start, stop or
   reconnect, gets out of it whatever the queries of other threads do. *)
WedgedQueryBlocksNobody ==
  \A t \in Threads : pc[t] \in Waiting \cup InLifecycle ~> pc[t] \in {"idle", "querying"}
=============================================================================
