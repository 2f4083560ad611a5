------------------------------- MODULE Serving -------------------------------
(***************************************************************************)
(* The query handlers (handlers/): look in the cache, get the session,     *)
(* query Wind through run_wind_sync, parse, store, reply.  The tools are   *)
(* plain functions that the server runs on the event loop's thread, so one *)
(* call at a time; the clock runs on during a query.                       *)
(*                                                                         *)
(* Profiles are the calls of company_profile, which gets the session       *)
(* before it looks in the cache, makes three queries and swallows the      *)
(* error of each.  All other handlers make one, whose error ends the call. *)
(***************************************************************************)
EXTENDS WindCache

CONSTANTS Profiles,   \* the keys of company_profile
          NoAnswer,
          MaxCalls    \* bound: calls

ASSUME ProfilesAssumption == Profiles \subseteq Keys
ASSUME CallsAssumption == MaxCalls \in Nat

VARIABLES
  phase,    \* of the call in progress
  key,      \* what it asks for
  leg,      \* the query it is at
  failed,   \* its parts that got an error in place of data
  reply,    \* what the last call returned
  calls,
  used      \* history: when each query was last answered, from the cache or by Wind

call == <<phase, key, leg, failed>>
vars == <<now, cache, call, reply, calls, used>>

Legs(k) == IF k \in Profiles THEN 3 ELSE 1

\* What matters of an answer: which of its parts are missing for an error.
ASSUME AnswersAssumption == Answers = SUBSET (1..3) /\ NoAnswer \notin Answers

\* None is no entry either.
ASSUME NoAnswerAssumption == NoAnswer \notin [data : Answers, since : 0..MaxTime]

Init ==
  /\ CacheInit
  /\ phase = "idle"
  /\ key \in Keys
  /\ leg = 1
  /\ failed = {}
  /\ reply = NoAnswer
  /\ calls = 0
  /\ used = [k \in Keys |-> 0]

Tick ==
  /\ now < MaxTime
  /\ now' = now + 1
  /\ UNCHANGED <<cache, call, reply, calls, used>>

Called(k) ==
  /\ phase = "idle"
  /\ calls < MaxCalls
  /\ calls' = calls + 1
  /\ key' = k
  /\ leg' = 1
  /\ failed' = {}
  /\ UNCHANGED now

\* A cache hit: the stored object is returned.
ServeCached(k) ==
  /\ k \notin Profiles /\ Called(k)
  /\ GetHit(k)
  /\ reply' = store[k].data
  /\ used' = [used EXCEPT ![k] = now]
  /\ UNCHANGED phase

MissCached(k) ==
  /\ k \notin Profiles /\ Called(k)
  /\ GetMiss(k)
  /\ phase' = "connecting"
  /\ UNCHANGED <<reply, used>>

CallProfile(k) ==
  /\ k \in Profiles /\ Called(k)
  /\ phase' = "connecting"
  /\ UNCHANGED <<cache, reply, used>>

\* WindSession.get() raises.
SessionFails ==
  /\ phase = "connecting"
  /\ phase' = "idle"
  /\ reply' = NoAnswer
  /\ UNCHANGED <<now, cache, key, leg, failed, calls, used>>

SessionReady ==
  /\ phase = "connecting" /\ key \notin Profiles
  /\ phase' = "querying"
  /\ UNCHANGED <<now, cache, key, leg, failed, reply, calls, used>>

ProfileCached ==
  /\ phase = "connecting" /\ key \in Profiles
  /\ GetHit(key)
  /\ phase' = "idle"
  /\ reply' = store[key].data
  /\ used' = [used EXCEPT ![key] = now]
  /\ UNCHANGED <<now, key, leg, failed, calls>>

ProfileMissing ==
  /\ phase = "connecting" /\ key \in Profiles
  /\ GetMiss(key)
  /\ phase' = "querying"
  /\ UNCHANGED <<now, key, leg, failed, reply, calls, used>>

\* Mutant: one query more than there are.
ProceedPastLast(missing) ==
  /\ failed' = missing
  /\ IF leg <= Legs(key)
     THEN leg' = leg + 1 /\ UNCHANGED <<cache, phase, reply, used>>
     ELSE /\ Set(key, missing)
          /\ reply' = missing
          /\ used' = [used EXCEPT ![key] = now]
          /\ phase' = "idle"
          /\ UNCHANGED leg
  /\ UNCHANGED <<now, key, calls>>

\* The next query, or cache.set() and return.
Proceed(missing) ==
  /\ failed' = missing
  /\ IF leg < Legs(key)
     THEN leg' = leg + 1 /\ UNCHANGED <<cache, phase, reply, used>>
     ELSE /\ Set(key, missing)
          /\ reply' = missing
          /\ used' = [used EXCEPT ![key] = now]
          /\ phase' = "idle"
          /\ UNCHANGED leg
  /\ UNCHANGED <<now, key, calls>>

QueryAnswers == phase = "querying" /\ Proceed(failed)

\* An exception of run_wind_sync or of the parser.
QueryFails ==
  /\ phase = "querying" /\ key \notin Profiles
  /\ phase' = "idle"
  /\ reply' = NoAnswer
  /\ UNCHANGED <<now, cache, key, leg, failed, calls, used>>

ProfileQueryFails ==
  phase = "querying" /\ key \in Profiles /\ Proceed(failed \cup {leg})

Next ==
  \/ Tick
  \/ \E k \in Keys : ServeCached(k) \/ MissCached(k) \/ CallProfile(k)
  \/ SessionFails \/ SessionReady \/ ProfileCached \/ ProfileMissing
  \/ QueryAnswers \/ QueryFails \/ ProfileQueryFails

Spec == Init /\ [][Next]_vars

-----------------------------------------------------------------------------
TypeOK ==
  /\ CacheTypeOK
  /\ phase \in {"idle", "connecting", "querying"}
  /\ key \in Keys
  /\ leg \in 1..3
  /\ failed \in Answers
  /\ reply \in Answers \cup {NoAnswer}
  /\ calls \in 0..MaxCalls

(* "maxsize: Max cached entries (LRU eviction)" (wind_mcp.toml): however gets,
   expiries and sets follow each other, never more. *)
SizeBounded == Cardinality(Cached) <= MaxSize

(* "LRU eviction": when a set makes room, no query that stays was last answered
   before one that goes, hits and sets alike counting as answers (to the
   resolution of the clock). *)
LeastRecentlyUsedGoes ==
  [][stats'.evictions > stats.evictions =>
       \A j \in Cached \ Cached', k \in Cached' : used[j] <= used'[k]]_vars

\* What the contract calls kept.
Kept == [k \in Keys |-> IF k \in Cached
                        THEN [data |-> store[k].data, since |-> store[k].timestamp]
                        ELSE NoAnswer]

Contract == INSTANCE CacheContract WITH kept <- Kept

(* The handlers implement the contract: a reply is fresh, or was kept no longer
   than its time to live, a partial profile no longer than a whole one; an
   answer just obtained survives the eviction it causes. *)
ImplementsCacheContract == Contract!ContractSpec
=============================================================================
