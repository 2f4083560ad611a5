------------------------------ MODULE WindCache ------------------------------
(***************************************************************************)
(* WindCache (core/cache.py): answers with a time to live, at most MaxSize *)
(* of them, of which the least recently used go first.  Serving has the    *)
(* handlers that use it; they run one at a time.                           *)
(*                                                                         *)
(* A key stands for a function name with its arguments and fixes the       *)
(* category, so Ttl is a function of the key.                              *)
(***************************************************************************)
EXTENDS Integers, FiniteSets, SequencesExt

CONSTANTS Keys,
          Ttl,       \* CACHE_TTL of each key's category
          MaxSize,   \* maxsize
          Answers,
          MaxTime    \* bound: the clock

ASSUME TtlAssumption == Ttl \in [Keys -> Nat]
ASSUME SizeAssumption == MaxSize \in Nat \ {0}
ASSUME TimeAssumption == MaxTime \in Nat

VARIABLES
  now,     \* time.time()
  store,   \* _store, without the order of its keys
  order,   \* the keys of _store as a dict keeps them
  stats    \* _hits, _misses, _evictions

cache == <<store, order, stats>>

Entries == [data : Answers, timestamp : 0..MaxTime, lastAccess : 0..MaxTime]

CacheInit ==
  /\ now = 0
  /\ store = [k \in {} |-> {}]
  /\ order = <<>>
  /\ stats = [hits |-> 0, misses |-> 0, evictions |-> 0]

Cached == DOMAIN store

\* Mutant: the age is counted from the last access.
ExpiredSinceAccess(k) == now - store[k].lastAccess > Ttl[k]

Expired(k) == now - store[k].timestamp > Ttl[k]

\* Mutant: an access is not recorded.
GetHitUnrecorded(k) ==
  /\ k \in Cached /\ ~Expired(k)
  /\ stats' = [stats EXCEPT !.hits = @ + 1]
  /\ UNCHANGED <<store, order>>

\* get() finds an entry that is still alive.
GetHit(k) ==
  /\ k \in Cached /\ ~Expired(k)
  /\ store' = [store EXCEPT ![k].lastAccess = now]
  /\ stats' = [stats EXCEPT !.hits = @ + 1]
  /\ UNCHANGED order

\* What a dict's keys are like when only these are left: those that stay do not move.
Staying(keys, left) ==
  {s \in [1..Cardinality(left) -> left] :
     /\ ToSet(s) = left
     /\ \A m, n \in DOMAIN s : m < n =>
          \E i, j \in DOMAIN keys : i < j /\ keys[i] = s[m] /\ keys[j] = s[n]}

\* get() finds nothing, or an expired entry, which it deletes.
GetMiss(k) ==
  /\ k \in Cached => Expired(k)
  /\ store' = [j \in Cached \ {k} |-> store[j]]
  /\ order' \in Staying(order, Cached \ {k})
  /\ stats' = [stats EXCEPT !.misses = @ + 1]

\* What sorted() by last access puts first; it is stable.
Older(entries, keys, j, k) ==
  \/ entries[j].lastAccess < entries[k].lastAccess
  \/ entries[j].lastAccess = entries[k].lastAccess
     /\ \E m, n \in DOMAIN keys : keys[m] = j /\ keys[n] = k /\ m < n

\* Mutant: nothing goes until the cache is one over.
SurvivesLate(entries, keys, left) ==
  LET n == Cardinality(DOMAIN entries)
      goes == IF n <= MaxSize + 1 THEN 0 ELSE IF n \div 5 > 1 THEN n \div 5 ELSE 1
  IN  /\ left \subseteq DOMAIN entries
      /\ Cardinality(left) = n - goes
      /\ \A j \in DOMAIN entries \ left, k \in left : Older(entries, keys, j, k)

\* _evict_if_needed() on these entries leaves these.
Survives(entries, keys, left) ==
  LET n == Cardinality(DOMAIN entries)
      goes == IF n <= MaxSize THEN 0 ELSE IF n \div 5 > 1 THEN n \div 5 ELSE 1
  IN  /\ left \subseteq DOMAIN entries
      /\ Cardinality(left) = n - goes
      /\ \A j \in DOMAIN entries \ left, k \in left : Older(entries, keys, j, k)

\* set()
Set(k, a) ==
  LET entry   == [data |-> a, timestamp |-> now, lastAccess |-> now]
      entries == [j \in Cached \cup {k} |-> IF j = k THEN entry ELSE store[j]]
      keys    == IF k \in Cached THEN order ELSE Append(order, k)
  IN  \E left \in SUBSET (Cached \cup {k}) :
        /\ Survives(entries, keys, left)
        /\ store' = [j \in left |-> entries[j]]
        /\ order' \in Staying(keys, left)
        /\ stats' = [stats EXCEPT !.evictions =
                                  @ + Cardinality(DOMAIN entries) - Cardinality(left)]

CacheTypeOK ==
  /\ now \in 0..MaxTime
  /\ Cached \in SUBSET Keys
  /\ \A k \in Cached : store[k] \in Entries
  /\ order \in Seq(Keys) /\ IsInjective(order) /\ ToSet(order) = Cached
  /\ stats \in [hits : Nat, misses : Nat, evictions : Nat]
=============================================================================
