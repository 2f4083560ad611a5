---------------------------- MODULE Serving_proofs ----------------------------
(***************************************************************************)
(* Proofs about Serving: the cache keeps its bound and throws the right    *)
(* entries out, and the handlers with it implement CacheContract, for any  *)
(* keys, times to live, sizes, and numbers of calls and ticks.             *)
(***************************************************************************)
EXTENDS Serving, FiniteSetTheorems, TLAPS

\* An entry was last accessed when its query was last answered.
AccessInv ==
  \A k \in Cached : store[k].lastAccess = used[k] /\ used[k] <= now

CacheInv ==
  /\ CacheTypeOK
  /\ IsFiniteSet(Cached) /\ SizeBounded
  /\ used \in [Keys -> 0..MaxTime]
  /\ AccessInv

IInv == TypeOK /\ CacheInv

-----------------------------------------------------------------------------
(* The dict's order of those keys that stay is an order of them, once each. *)
LEMMA StayingOrder ==
  ASSUME NEW keys \in Seq(Keys), IsInjective(keys),
         NEW left \in SUBSET ToSet(keys), IsFiniteSet(left),
         NEW s \in Staying(keys, left)
  PROVE  s \in Seq(Keys) /\ IsInjective(s) /\ ToSet(s) = left
<1>1. Cardinality(left) \in Nat /\ left \subseteq Keys
  <2>1. ToSet(keys) \subseteq Keys
    BY DEF ToSet
  <2> QED
    BY <2>1, FS_CardinalityType
<1>2. s \in [1..Cardinality(left) -> Keys] /\ ToSet(s) = left
  BY <1>1 DEF Staying
<1>3. s \in Seq(Keys) /\ DOMAIN s \subseteq Nat
  BY <1>1, <1>2
<1>4. ASSUME NEW m \in DOMAIN s, NEW n \in DOMAIN s, m < n
      PROVE  s[m] # s[n]
  <2>1. PICK i, j \in DOMAIN keys : i < j /\ keys[i] = s[m] /\ keys[j] = s[n]
    BY <1>4 DEF Staying
  <2>2. i \in Nat /\ j \in Nat /\ i # j
    BY <2>1
  <2> QED
    BY <2>1, <2>2 DEF IsInjective
<1>5. IsInjective(s)
  <2> SUFFICES ASSUME NEW m \in DOMAIN s, NEW n \in DOMAIN s, s[m] = s[n]
               PROVE  m = n
    BY DEF IsInjective
  <2>1. m \in Nat /\ n \in Nat
    BY <1>3
  <2> QED
    BY <1>4, <2>1
<1> QED
  BY <1>2, <1>3, <1>5

(* A new key goes behind the others. *)
LEMMA AppendedOrder ==
  ASSUME NEW s \in Seq(Keys), IsInjective(s), NEW k \in Keys, k \notin ToSet(s)
  PROVE  /\ Append(s, k) \in Seq(Keys) /\ IsInjective(Append(s, k))
         /\ ToSet(Append(s, k)) = ToSet(s) \cup {k}
         /\ \A m, n \in DOMAIN Append(s, k) : Append(s, k)[m] = k => n <= m
<1> DEFINE t == Append(s, k)
<1>1. /\ t \in Seq(Keys) /\ DOMAIN t = 1..(Len(s) + 1) /\ Len(s) \in Nat
      /\ t[Len(s) + 1] = k /\ \A i \in 1..Len(s) : t[i] = s[i] /\ s[i] # k
  BY DEF ToSet
<1> HIDE DEF t
<1>2. ToSet(t) = ToSet(s) \cup {k}
  BY <1>1 DEF ToSet
<1>3. IsInjective(t)
  <2> SUFFICES ASSUME NEW m \in 1..(Len(s) + 1), NEW n \in 1..(Len(s) + 1), t[m] = t[n]
               PROVE  m = n
    BY <1>1 DEF IsInjective
  <2>1. CASE m \in 1..Len(s) /\ n \in 1..Len(s)
    BY <1>1, <2>1 DEF IsInjective
  <2>2. CASE m = Len(s) + 1 \/ n = Len(s) + 1
    BY <1>1, <2>2
  <2> QED
    BY <1>1, <2>1, <2>2
<1>4. \A m, n \in DOMAIN t : t[m] = k => n <= m
  BY <1>1
<1> QED
  BY <1>1, <1>2, <1>3, <1>4 DEF t

\* What set() stores, before it evicts.
Stored(k, a) ==
  [j \in Cached \cup {k} |-> IF j = k THEN [data |-> a, timestamp |-> now, lastAccess |-> now]
                             ELSE store[j]]

(* set() leaves the new entry with some of the others, in their order, no more
   than the cache may hold; what goes was accessed no later than what stays. *)
LEMMA SetResult ==
  ASSUME CacheInv, NEW k \in Keys, NEW a \in Answers, Set(k, a)
  PROVE  \E left \in SUBSET (Cached \cup {k}) :
           /\ k \in left /\ Cardinality(left) <= MaxSize
           /\ store' = [j \in left |-> Stored(k, a)[j]]
           /\ order' \in Seq(Keys) /\ IsInjective(order') /\ ToSet(order') = left
           /\ stats' \in [hits : Nat, misses : Nat, evictions : Nat]
           /\ \A j \in (Cached \cup {k}) \ left, i \in left :
                Stored(k, a)[j].lastAccess <= Stored(k, a)[i].lastAccess
<1> DEFINE all == Cached \cup {k}
           n == Cardinality(all)
           keys == IF k \in Cached THEN order ELSE Append(order, k)
           goes == IF n <= MaxSize THEN 0 ELSE IF n \div 5 > 1 THEN n \div 5 ELSE 1
<1>1. PICK left \in SUBSET all :
         /\ Survives(Stored(k, a), keys, left)
         /\ store' = [j \in left |-> Stored(k, a)[j]]
         /\ order' \in Staying(keys, left)
         /\ stats' = [stats EXCEPT !.evictions = @ + n - Cardinality(left)]
  BY DEF Set, Stored
<1>2. /\ IsFiniteSet(all) /\ n \in Nat
      /\ n = IF k \in Cached THEN Cardinality(Cached) ELSE Cardinality(Cached) + 1
  BY FS_AddElement, FS_CardinalityType DEF CacheInv
<1>3. IsFiniteSet(left) /\ Cardinality(left) \in Nat /\ Cardinality(left) <= n
  BY <1>2, FS_Subset, FS_CardinalityType
<1>4. Cardinality(left) = n - goes
  BY <1>1 DEF Survives, Stored
<1>5. n >= 1 /\ MaxSize \in Nat /\ MaxSize >= 1
      /\ Cardinality(Cached) \in Nat /\ Cardinality(Cached) <= MaxSize
  <2>1. n # 0
    BY <1>2, FS_EmptySet
  <2> QED
    BY <1>2, <2>1, SizeAssumption, FS_CardinalityType DEF CacheInv, SizeBounded
<1>6. Cardinality(left) <= MaxSize /\ Cardinality(left) >= 1
  <2> HIDE DEF n, all
  <2>1. n <= MaxSize + 1
    BY <1>2, <1>5
  <2>2. CASE n <= MaxSize
    BY <1>2, <1>4, <1>5, <2>2
  <2>3. CASE n > MaxSize
    <3>1. n \div 5 \in Nat /\ n \div 5 < n
      BY <1>2, <1>5
    <3> QED
      BY <1>2, <1>4, <1>5, <2>1, <2>3, <3>1
  <2> QED
    BY <1>2, <1>5, <2>2, <2>3
<1>7. /\ keys \in Seq(Keys) /\ IsInjective(keys) /\ ToSet(keys) = all
      /\ k \notin Cached => \A i, j \in DOMAIN keys : keys[i] = k => j <= i
  <2>1. order \in Seq(Keys) /\ IsInjective(order) /\ ToSet(order) = Cached
    BY DEF CacheInv, CacheTypeOK
  <2> QED
    BY <2>1, AppendedOrder
<1>8. order' \in Seq(Keys) /\ IsInjective(order') /\ ToSet(order') = left
  <2> HIDE DEF keys
  <2> QED
    BY <1>1, <1>3, <1>7, StayingOrder
<1>9. \A j \in all : /\ Stored(k, a)[j].lastAccess \in Nat
                     /\ Stored(k, a)[j].lastAccess <= now
  BY DEF Stored, CacheInv, AccessInv, CacheTypeOK, Entries
<1>10. \A j \in all \ left, i \in left : Older(Stored(k, a), keys, j, i)
  BY <1>1 DEF Survives, Stored
<1>11. k \in left
  <2> SUFFICES ASSUME k \notin left PROVE FALSE
    OBVIOUS
  <2>1. PICK i \in left : TRUE
    BY <1>6, FS_EmptySet
  <2>2. Stored(k, a)[k].lastAccess = now /\ now \in Nat
    BY DEF Stored, CacheInv, CacheTypeOK
  <2>3. \E m, l \in DOMAIN keys : keys[m] = k /\ keys[l] = i /\ m < l
    <3>1. Older(Stored(k, a), keys, k, i)
      BY <1>10, <2>1
    <3> HIDE DEF keys
    <3> QED
      BY <1>9, <2>1, <2>2, <3>1 DEF Older
  <2>4. k \in Cached
    <3> HIDE DEF keys
    <3>1. DOMAIN keys \subseteq Nat
      BY <1>7
    <3> QED
      BY <1>7, <2>3, <3>1
  <2>5. Cardinality(left) = n
    BY <1>2, <1>4, <1>5, <2>4
  <2> QED
    BY <1>2, <2>5, FS_Subset
<1>12. \A j \in all \ left, i \in left :
          Stored(k, a)[j].lastAccess <= Stored(k, a)[i].lastAccess
  <2> HIDE DEF keys
  <2> QED
    BY <1>9, <1>10 DEF Older
<1>13. stats' \in [hits : Nat, misses : Nat, evictions : Nat]
  <2>1. stats \in [hits : Nat, misses : Nat, evictions : Nat]
    BY DEF CacheInv, CacheTypeOK
  <2>2. n - Cardinality(left) \in Nat
    BY <1>2, <1>3
  <2> HIDE DEF n
  <2> QED
    BY <1>1, <1>2, <1>3, <2>1, <2>2
<1> QED
  BY <1>1, <1>6, <1>8, <1>11, <1>12, <1>13

-----------------------------------------------------------------------------
(* What each operation on the cache keeps. *)

LEMMA HitKeeps ==
  ASSUME CacheInv, NEW k \in Keys, GetHit(k), UNCHANGED now,
         used' = [used EXCEPT ![k] = now]
  PROVE  CacheInv'
<1>1. Cached' = Cached /\ \A j \in Cached : j # k => store'[j] = store[j]
  BY DEF GetHit, Cached
<1>2. /\ k \in Cached /\ store[k] \in Entries
      /\ store'[k] = [store[k] EXCEPT !.lastAccess = now]
  BY DEF GetHit, Cached, CacheInv, CacheTypeOK
<1>3. store'[k] \in Entries /\ store'[k].lastAccess = now
  BY <1>2 DEF CacheInv, CacheTypeOK, Entries
<1>4. stats' \in [hits : Nat, misses : Nat, evictions : Nat]
  <2>1. stats \in [hits : Nat, misses : Nat, evictions : Nat]
    BY DEF CacheInv, CacheTypeOK
  <2> QED
    BY <2>1 DEF GetHit
<1> QED
  BY <1>1, <1>2, <1>3, <1>4 DEF CacheInv, CacheTypeOK, AccessInv, SizeBounded, GetHit

LEMMA MissKeeps ==
  ASSUME CacheInv, NEW k \in Keys, GetMiss(k), UNCHANGED <<now, used>>
  PROVE  CacheInv'
<1>1. /\ Cached' = Cached \ {k}
      /\ \A j \in Cached \ {k} : store'[j] = store[j]
  BY DEF GetMiss, Cached
<1>2. IsFiniteSet(Cached') /\ Cardinality(Cached)' <= Cardinality(Cached)
  BY <1>1, FS_RemoveElement, FS_Subset DEF CacheInv
<1>3. Cardinality(Cached) \in Nat /\ Cardinality(Cached)' \in Nat
  BY <1>2, FS_CardinalityType DEF CacheInv
<1>4. order' \in Seq(Keys) /\ IsInjective(order') /\ ToSet(order') = Cached'
  BY <1>1, <1>2, StayingOrder DEF GetMiss, CacheInv, CacheTypeOK
<1>5. stats' \in [hits : Nat, misses : Nat, evictions : Nat]
  BY DEF GetMiss, CacheInv, CacheTypeOK
<1>6. SizeBounded'
  BY <1>2, <1>3, SizeAssumption DEF CacheInv, SizeBounded
<1> QED
  BY <1>1, <1>2, <1>4, <1>5, <1>6 DEF CacheInv, CacheTypeOK, AccessInv

LEMMA SetKeeps ==
  ASSUME CacheInv, NEW k \in Keys, NEW a \in Answers, Set(k, a), UNCHANGED now,
         used' = [used EXCEPT ![k] = now]
  PROVE  CacheInv'
<1>1. PICK left \in SUBSET (Cached \cup {k}) :
         /\ k \in left /\ Cardinality(left) <= MaxSize
         /\ store' = [j \in left |-> Stored(k, a)[j]]
         /\ order' \in Seq(Keys) /\ IsInjective(order') /\ ToSet(order') = left
         /\ stats' \in [hits : Nat, misses : Nat, evictions : Nat]
  BY SetResult
<1>2. IsFiniteSet(left)
  BY FS_AddElement, FS_Subset DEF CacheInv
<1>3. Cached' = left /\ \A j \in left : store'[j] = Stored(k, a)[j]
  BY <1>1 DEF Cached
<1>4. ASSUME NEW j \in left
      PROVE  store'[j] \in Entries /\ store'[j].lastAccess = used'[j] /\ used'[j] <= now
  <2>1. now \in 0..MaxTime /\ used \in [Keys -> 0..MaxTime]
    BY DEF CacheInv, CacheTypeOK
  <2>2. CASE j = k
    <3>1. store'[j] = [data |-> a, timestamp |-> now, lastAccess |-> now]
      BY <1>3, <2>2 DEF Stored
    <3>2. used'[j] = now
      BY <2>1, <2>2
    <3> QED
      BY <2>1, <3>1, <3>2 DEF Entries
  <2>3. CASE j # k
    <3>1. j \in Cached /\ j \in Keys /\ store'[j] = store[j]
      BY <1>3, <2>3 DEF Stored, CacheInv, CacheTypeOK
    <3>2. used'[j] = used[j]
      BY <2>1, <2>3, <3>1
    <3> QED
      BY <3>1, <3>2 DEF CacheInv, CacheTypeOK, AccessInv
  <2> QED
    BY <2>2, <2>3
<1> QED
  BY <1>1, <1>2, <1>3, <1>4 DEF CacheInv, CacheTypeOK, AccessInv, SizeBounded

(* Every step keeps the cache in order. *)
LEMMA CacheStep ==
  ASSUME IInv, [Next]_vars
  PROVE  CacheInv'
<1> USE DEF IInv
<1>1. ASSUME UNCHANGED <<cache, used>>, now' \in 0..MaxTime, now <= now'
      PROVE  CacheInv'
  BY <1>1 DEF cache, CacheInv, CacheTypeOK, SizeBounded, AccessInv, Cached
<1>2. now \in 0..MaxTime /\ MaxTime \in Nat /\ key \in Keys
  BY TimeAssumption DEF TypeOK, CacheTypeOK
<1>3. ASSUME NEW missing \in Answers, Proceed(missing)
      PROVE  CacheInv'
  <2>1. CASE leg < Legs(key)
    BY <1>1, <1>2, <1>3, <2>1 DEF Proceed
  <2>2. CASE ~(leg < Legs(key))
    BY <1>2, <1>3, <2>2, SetKeeps DEF Proceed
  <2> QED
    BY <2>1, <2>2
<1>4. CASE UNCHANGED vars
  BY <1>1, <1>2, <1>4 DEF vars
<1>5. CASE Tick
  BY <1>1, <1>2, <1>5 DEF Tick
<1>6. ASSUME NEW k \in Keys, ServeCached(k)
      PROVE  CacheInv'
  BY <1>6, HitKeeps DEF ServeCached, Called
<1>7. ASSUME NEW k \in Keys, MissCached(k)
      PROVE  CacheInv'
  BY <1>7, MissKeeps DEF MissCached, Called
<1>8. ASSUME NEW k \in Keys, CallProfile(k)
      PROVE  CacheInv'
  BY <1>1, <1>2, <1>8 DEF CallProfile, Called
<1>9. CASE SessionFails \/ SessionReady \/ QueryFails
  BY <1>1, <1>2, <1>9 DEF SessionFails, SessionReady, QueryFails
<1>10. CASE ProfileCached
  BY <1>2, <1>10, HitKeeps DEF ProfileCached
<1>11. CASE ProfileMissing
  BY <1>2, <1>11, MissKeeps DEF ProfileMissing
<1>12. CASE QueryAnswers
  BY <1>3, <1>12 DEF QueryAnswers, TypeOK
<1>13. CASE ProfileQueryFails
  <2>1. failed \cup {leg} \in Answers
    BY AnswersAssumption DEF TypeOK
  <2> QED
    BY <1>3, <1>13, <2>1 DEF ProfileQueryFails
<1> QED
  BY <1>4, <1>5, <1>6, <1>7, <1>8, <1>9, <1>10, <1>11, <1>12, <1>13 DEF Next

(* Every step keeps the call in progress within its queries. *)
LEMMA TypeStep ==
  ASSUME IInv, [Next]_vars, CacheInv'
  PROVE  TypeOK'
<1> USE AnswersAssumption, CallsAssumption DEF IInv, TypeOK, call
<1>1. CacheTypeOK'
  BY DEF CacheInv
<1>2. ASSUME NEW missing \in Answers, Proceed(missing)
      PROVE  TypeOK'
  <2>1. CASE leg < Legs(key)
    <3>1. leg + 1 \in 1..3
      BY <2>1 DEF Legs
    <3>2. leg' = leg + 1 /\ failed' = missing /\ UNCHANGED <<phase, key, reply, calls>>
      BY <1>2, <2>1 DEF Proceed
    <3> QED
      BY <1>1, <3>1, <3>2
  <2>2. CASE ~(leg < Legs(key))
    BY <1>1, <1>2, <2>2 DEF Proceed
  <2> QED
    BY <2>1, <2>2
<1>3. CASE UNCHANGED vars
  BY <1>1, <1>3 DEF vars
<1>4. CASE Tick
  BY <1>1, <1>4 DEF Tick
<1>5. ASSUME NEW k \in Keys, Called(k)
      PROVE  calls' \in 0..MaxCalls /\ key' \in Keys /\ leg' \in 1..3 /\ failed' \in Answers
  BY <1>5 DEF Called
<1>6. ASSUME NEW k \in Keys, GetHit(k)
      PROVE  store[k].data \in Answers
  BY <1>6 DEF GetHit, CacheInv, CacheTypeOK, Entries
<1>7. ASSUME NEW k \in Keys, ServeCached(k)
      PROVE  TypeOK'
  BY <1>1, <1>5, <1>6, <1>7 DEF ServeCached
<1>8. ASSUME NEW k \in Keys, MissCached(k) \/ CallProfile(k)
      PROVE  TypeOK'
  BY <1>1, <1>5, <1>8 DEF MissCached, CallProfile
<1>9. CASE SessionFails \/ SessionReady \/ QueryFails \/ ProfileMissing
  BY <1>1, <1>9 DEF SessionFails, SessionReady, QueryFails, ProfileMissing
<1>10. CASE ProfileCached
  BY <1>1, <1>6, <1>10 DEF ProfileCached
<1>11. CASE QueryAnswers
  BY <1>2, <1>11 DEF QueryAnswers
<1>12. CASE ProfileQueryFails
  BY <1>2, <1>12 DEF ProfileQueryFails
<1> QED
  BY <1>3, <1>4, <1>7, <1>8, <1>9, <1>10, <1>11, <1>12 DEF Next

(* The inductive invariant holds in every state. *)
LEMMA Inductive == Spec => []IInv
<1>1. Init => IInv
  <2> SUFFICES ASSUME Init PROVE IInv
    OBVIOUS
  <2>1. Cached = {}
    BY DEF Init, CacheInit, Cached
  <2>2. CacheTypeOK
    BY <2>1, TimeAssumption DEF Init, CacheInit, CacheTypeOK, ToSet, IsInjective
  <2>3. IsFiniteSet(Cached) /\ SizeBounded
    BY <2>1, FS_EmptySet, SizeAssumption DEF SizeBounded
  <2>4. used \in [Keys -> 0..MaxTime] /\ AccessInv
    BY <2>1, TimeAssumption DEF Init, AccessInv
  <2>5. TypeOK
    BY <2>2, AnswersAssumption, CallsAssumption DEF Init, TypeOK
  <2> QED
    BY <2>2, <2>3, <2>4, <2>5 DEF IInv, CacheInv
<1>2. IInv /\ [Next]_vars => IInv'
  BY CacheStep, TypeStep DEF IInv
<1> QED
  BY <1>1, <1>2, PTL DEF Spec

(* The types hold in every state; in particular no call makes more queries than
   it has, and the dict's order is an order of what is stored. *)
THEOREM TypeCorrect == Spec => []TypeOK
<1>1. IInv => TypeOK
  BY DEF IInv
<1> QED
  BY <1>1, Inductive, PTL

(* The cache never holds more than maxsize, whatever the size and the calls. *)
THEOREM NeverTooMany == Spec => []SizeBounded
<1>1. IInv => SizeBounded
  BY DEF IInv, CacheInv
<1> QED
  BY <1>1, Inductive, PTL

-----------------------------------------------------------------------------
(* Only a set evicts: the one that ends a call. *)
LEMMA OnlySetEvicts ==
  ASSUME IInv, [Next]_vars, stats'.evictions > stats.evictions
  PROVE  /\ \E missing \in Answers : Set(key, missing)
         /\ used' = [used EXCEPT ![key] = now]
<1>1. stats \in [hits : Nat, misses : Nat, evictions : Nat]
  BY DEF IInv, CacheInv, CacheTypeOK
<1>2. ~UNCHANGED stats
  <2> SUFFICES ASSUME UNCHANGED stats PROVE FALSE
    OBVIOUS
  <2>1. stats.evictions \in Nat
    BY <1>1
  <2> QED
    BY <2>1
<1>3. ASSUME NEW k \in Keys, GetHit(k) \/ GetMiss(k)
      PROVE  FALSE
  <2>1. stats'.evictions = stats.evictions /\ stats.evictions \in Nat
    BY <1>1, <1>3 DEF GetHit, GetMiss
  <2> QED
    BY <2>1
<1>4. ASSUME NEW missing \in Answers, Proceed(missing)
      PROVE  Set(key, missing) /\ used' = [used EXCEPT ![key] = now]
  BY <1>2, <1>4 DEF Proceed, cache
<1>5. ~UNCHANGED vars /\ ~Tick /\ ~SessionFails /\ ~SessionReady /\ ~QueryFails
      /\ \A k \in Keys : ~CallProfile(k)
  BY <1>2 DEF vars, cache, Tick, SessionFails, SessionReady, QueryFails, CallProfile
<1>6. /\ ~ProfileCached /\ ~ProfileMissing
      /\ \A k \in Keys : ~ServeCached(k) /\ ~MissCached(k)
  BY <1>3 DEF ProfileCached, ProfileMissing, ServeCached, MissCached, IInv, TypeOK
<1>7. failed \in Answers /\ failed \cup {leg} \in Answers
  BY AnswersAssumption DEF IInv, TypeOK
<1> QED
  BY <1>4, <1>5, <1>6, <1>7 DEF Next, QueryAnswers, ProfileQueryFails

(* Whatever the size of the cache and however many entries go at once, none that
   stays was last answered before one that goes. *)
THEOREM EvictsLeastRecentlyUsed == Spec => LeastRecentlyUsedGoes
<1>1. ASSUME IInv, [Next]_vars, stats'.evictions > stats.evictions,
             NEW j \in Cached \ Cached', NEW k \in Cached'
      PROVE  used[j] <= used'[k]
  <2>1. PICK missing \in Answers : Set(key, missing)
    BY <1>1, OnlySetEvicts
  <2>2. used' = [used EXCEPT ![key] = now] /\ key \in Keys
    BY <1>1, OnlySetEvicts DEF IInv, TypeOK
  <2>3. PICK left \in SUBSET (Cached \cup {key}) :
           /\ store' = [i \in left |-> Stored(key, missing)[i]]
           /\ \A g \in (Cached \cup {key}) \ left, i \in left :
                Stored(key, missing)[g].lastAccess <= Stored(key, missing)[i].lastAccess
    BY <1>1, <2>1, <2>2, SetResult DEF IInv
  <2>4. Cached' = left
    BY <2>3 DEF Cached
  <2>5. Stored(key, missing)[j].lastAccess <= Stored(key, missing)[k].lastAccess
    BY <2>3, <2>4
  <2>6. /\ used[j] \in Int /\ used[j] <= now /\ now \in Int
        /\ used[j] <= Stored(key, missing)[j].lastAccess
        /\ Stored(key, missing)[j].lastAccess \in Int
    BY <1>1 DEF Stored, IInv, CacheInv, CacheTypeOK, AccessInv
  <2>7. used'[k] = Stored(key, missing)[k].lastAccess /\ used'[k] \in Int
    <3>1. CASE k = key
      BY <1>1, <2>2, <2>6, <3>1 DEF Stored, IInv, CacheInv
    <3>2. CASE k # key
      BY <1>1, <2>2, <2>4, <3>2 DEF Stored, IInv, CacheInv, CacheTypeOK, AccessInv
    <3> QED
      BY <3>1, <3>2
  <2> QED
    BY <2>5, <2>6, <2>7
<1>2. IInv /\ [Next]_vars =>
        [stats'.evictions > stats.evictions =>
           \A j \in Cached \ Cached', k \in Cached' : used[j] <= used'[k]]_vars
  BY <1>1
<1> QED
  BY <1>2, Inductive, PTL DEF Spec, LeastRecentlyUsedGoes

-----------------------------------------------------------------------------
(* The operations on the cache as the contract sees them. *)

LEMMA HitRepeats ==
  ASSUME CacheInv, NEW k \in Keys, GetHit(k), UNCHANGED now, reply' = store[k].data
  PROVE  Contract!Repeat(k)
<1>1. /\ k \in Cached /\ now - store[k].timestamp <= Ttl[k]
      /\ store[k] \in [data : Answers, timestamp : 0..MaxTime, lastAccess : 0..MaxTime]
  <2>1. k \in Cached /\ ~Expired(k) /\ store[k] \in Entries
    BY DEF GetHit, CacheInv, CacheTypeOK
  <2>2. Ttl[k] \in Nat /\ now \in Nat /\ store[k].timestamp \in Nat
    BY <2>1, TtlAssumption, TimeAssumption DEF CacheInv, CacheTypeOK, Entries
  <2> QED
    BY <2>1, <2>2 DEF Expired, Entries
<1>2. Kept[k] = [data |-> store[k].data, since |-> store[k].timestamp] /\ Kept[k] # NoAnswer
  <2>1. Kept[k] = [data |-> store[k].data, since |-> store[k].timestamp]
    BY <1>1 DEF Kept
  <2>2. Kept[k] \in [data : Answers, since : 0..MaxTime]
    BY <1>1, <2>1
  <2> QED
    BY <2>1, <2>2, NoAnswerAssumption
<1>3. /\ Cached' = Cached
      /\ \A j \in Cached : store'[j].data = store[j].data /\ store'[j].timestamp = store[j].timestamp
  <2>1. Cached' = Cached /\ \A j \in Cached : j # k => store'[j] = store[j]
    BY DEF GetHit, Cached
  <2>2. store'[k] = [store[k] EXCEPT !.lastAccess = now]
    BY <1>1 DEF GetHit, Cached
  <2>3. store'[k].data = store[k].data /\ store'[k].timestamp = store[k].timestamp
    BY <1>1, <2>2
  <2> QED
    BY <2>1, <2>3
<1>4. Kept' = Kept
  BY <1>3 DEF Kept
<1> QED
  BY <1>1, <1>2, <1>4 DEF Contract!Repeat

LEMMA MissForgets ==
  ASSUME NEW k \in Keys, GetMiss(k), UNCHANGED <<now, reply>>
  PROVE  Contract!Forget(k)
<1>1. Cached' = Cached \ {k} /\ \A j \in Cached \ {k} : store'[j] = store[j]
  BY DEF GetMiss, Cached
<1>2. Kept' = [Kept EXCEPT ![k] = NoAnswer]
  BY <1>1 DEF Kept
<1> QED
  BY <1>2 DEF Contract!Forget

LEMMA SetAnswers ==
  ASSUME CacheInv, NEW k \in Keys, NEW a \in Answers, Set(k, a), UNCHANGED now, reply' = a
  PROVE  Contract!Answer(k, a)
<1>1. PICK left \in SUBSET (Cached \cup {k}) :
         k \in left /\ store' = [j \in left |-> Stored(k, a)[j]]
  BY SetResult
<1>2. Cached' = left /\ \A j \in left : store'[j] = Stored(k, a)[j]
  BY <1>1 DEF Cached
<1>3. /\ Stored(k, a)[k].data = a /\ Stored(k, a)[k].timestamp = now
      /\ \A j \in left : j # k => j \in Cached /\ Stored(k, a)[j] = store[j]
  BY <1>1 DEF Stored
<1>4. Kept' = [j \in Keys |-> IF j = k THEN [data |-> a, since |-> now]
                              ELSE IF j \in Keys \ left THEN NoAnswer ELSE Kept[j]]
  BY <1>1, <1>2, <1>3 DEF Kept
<1> QED
  BY <1>4 DEF Contract!Answer

(* Every step of the handlers is one the contract allows, or changes nothing of
   what the contract speaks of. *)
LEMMA ContractStep ==
  ASSUME IInv, [Next]_vars
  PROVE  [Contract!ContractNext]_(Contract!contractVars)
<1> USE DEF IInv
<1> DEFINE Same == UNCHANGED Contract!contractVars
<1>1. ASSUME UNCHANGED cache
      PROVE  Kept' = Kept
  BY <1>1 DEF cache, Kept, Cached
<1>2. key \in Keys
  BY DEF TypeOK
<1>3. ASSUME NEW missing \in Answers, Proceed(missing)
      PROVE  Same \/ Contract!Answer(key, missing)
  <2>1. CASE leg < Legs(key)
    BY <1>1, <1>3, <2>1 DEF Proceed, Contract!contractVars
  <2>2. CASE ~(leg < Legs(key))
    BY <1>2, <1>3, <2>2, SetAnswers DEF Proceed
  <2> QED
    BY <2>1, <2>2
<1>4. ASSUME UNCHANGED vars
      PROVE  Same
  BY <1>1, <1>4 DEF vars, Contract!contractVars
<1>5. ASSUME Tick
      PROVE  Contract!Tick
  BY <1>1, <1>5 DEF Tick, Contract!Tick, TypeOK, CacheTypeOK
<1>6. ASSUME NEW k \in Keys, ServeCached(k)
      PROVE  Contract!Repeat(k)
  BY <1>6, HitRepeats DEF ServeCached, Called
<1>7. ASSUME NEW k \in Keys, MissCached(k)
      PROVE  Contract!Forget(k)
  BY <1>7, MissForgets DEF MissCached, Called
<1>8. ASSUME NEW k \in Keys, CallProfile(k)
      PROVE  Same
  BY <1>1, <1>8 DEF CallProfile, Called, Contract!contractVars
<1>9. ASSUME SessionFails \/ QueryFails
      PROVE  Contract!Decline
  BY <1>1, <1>9 DEF SessionFails, QueryFails, Contract!Decline
<1>10. ASSUME SessionReady
       PROVE  Same
  BY <1>1, <1>10 DEF SessionReady, Contract!contractVars
<1>11. ASSUME ProfileCached
       PROVE  Contract!Repeat(key)
  BY <1>2, <1>11, HitRepeats DEF ProfileCached
<1>12. ASSUME ProfileMissing
       PROVE  Contract!Forget(key)
  BY <1>2, <1>12, MissForgets DEF ProfileMissing
<1>13. failed \in Answers /\ failed \cup {leg} \in Answers
  BY AnswersAssumption DEF TypeOK
<1> HIDE DEF Same
<1>14. Same \/ Contract!ContractNext
  BY <1>2, <1>3, <1>4, <1>5, <1>6, <1>7, <1>8, <1>9, <1>10, <1>11, <1>12, <1>13
     DEF Next, QueryAnswers, ProfileQueryFails, Contract!ContractNext
<1> QED
  BY <1>14 DEF Same

(* The handlers and the cache implement CacheContract: nothing is served beyond
   its time to live, counted from Wind's answer, nothing to another query, and an
   answer just obtained survives the eviction it causes. *)
THEOREM Implementation == Spec => ImplementsCacheContract
<1>1. Init => Contract!ContractInit
  BY DEF Init, CacheInit, Contract!ContractInit, Kept, Cached
<1>2. IInv /\ [Next]_vars => [Contract!ContractNext]_(Contract!contractVars)
  BY ContractStep
<1> QED
  BY <1>1, <1>2, Inductive, PTL DEF Spec, ImplementsCacheContract, Contract!ContractSpec
=============================================================================
