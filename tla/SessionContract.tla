--------------------------- MODULE SessionContract ---------------------------
(***************************************************************************)
(* What the shared Wind session (core/session.py, core/resilience.py)      *)
(* promises to the rest of the server, without its program counters:       *)
(*                                                                         *)
(*  - at most one thread at a time changes the session's lifecycle;        *)
(*  - a session somebody has blamed (a transport error, an abandoned       *)
(*    query) becomes usable again only through a restart that began after  *)
(*    the blame, or while the thread that blamed it has not yet come       *)
(*    round to marking it.                                                 *)
(*                                                                         *)
(* WindSession implements this specification; RunWind is built on it.      *)
(***************************************************************************)
CONSTANTS Threads,    \* the threads that touch the session
          NoThread    \* the holder of a free lock

VARIABLES holder,     \* who is changing the lifecycle, or NoThread
          usable,     \* may a thread that looks now go ahead with a query?
          fresh,      \* the holder's restart is under way
          poisoned,   \* blamed since the last restart began
          owing       \* the threads that have blamed it and not yet marked it

sessionVars == <<holder, usable, fresh, poisoned, owing>>

SessionInit ==
  /\ holder = NoThread
  /\ usable = FALSE
  /\ fresh = FALSE
  /\ poisoned = FALSE
  /\ owing = {}

\* WindSession._lock is taken to start, restart or stop the SDK; the first
\* start calls w.start() at once.
Acquire(t) ==
  /\ holder = NoThread
  /\ t \notin owing
  /\ holder' = t
  /\ usable' = FALSE
  /\ fresh' \in BOOLEAN
  /\ poisoned' = (poisoned /\ ~fresh')
  /\ UNCHANGED owing

\* The holder calls w.start().
Restart(t) ==
  /\ holder = t
  /\ ~fresh
  /\ fresh' = TRUE
  /\ poisoned' = FALSE
  /\ UNCHANGED <<holder, usable, owing>>

\* w.start() failed and the holder will try again.
RestartFails(t) ==
  /\ holder = t
  /\ fresh
  /\ fresh' = FALSE
  /\ UNCHANGED <<holder, usable, poisoned, owing>>

\* The lock is given back; only a restart makes the session usable.
Release(t) ==
  /\ holder = t
  /\ holder' = NoThread
  /\ usable' \in {FALSE, fresh}
  /\ fresh' = FALSE
  /\ UNCHANGED <<poisoned, owing>>

\* t has seen the session fail, or disowned a query running on it.
Blame(t) ==
  /\ holder # t
  /\ t \notin owing
  /\ poisoned' = TRUE
  /\ owing' = owing \cup {t}
  /\ UNCHANGED <<holder, usable, fresh>>

\* WindSession.invalidate(): waits for the lifecycle lock.
Invalidate(t) ==
  /\ t \in owing
  /\ holder = NoThread
  /\ usable' = FALSE
  /\ owing' = owing \ {t}
  /\ UNCHANGED <<holder, fresh, poisoned>>

SessionNext ==
  \E t \in Threads :
    \/ Acquire(t) \/ Restart(t) \/ RestartFails(t) \/ Release(t)
    \/ Blame(t)   \/ Invalidate(t)

SessionSpec == SessionInit /\ [][SessionNext]_sessionVars

-----------------------------------------------------------------------------
ContractTypeOK ==
  /\ holder \in Threads \cup {NoThread}
  /\ usable \in BOOLEAN
  /\ fresh \in BOOLEAN
  /\ poisoned \in BOOLEAN
  /\ owing \in SUBSET Threads

(* The promise: a session that was blamed is not handed out again, unless
   the thread that blamed it is still on its way to mark it. *)
BlameNotForgotten == usable /\ poisoned => owing # {}
=============================================================================
