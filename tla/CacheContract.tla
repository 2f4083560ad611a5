---------------------------- MODULE CacheContract ----------------------------
(***************************************************************************)
(* What a tool call may be answered with (core/cache.py and the handlers), *)
(* whatever the cache forgets: what Wind has just answered, or what it     *)
(* answered to the same query and was kept at most its time to live ago.   *)
(* Being asked for does not make an answer live longer.                    *)
(*                                                                         *)
(* Serving implements this specification.                                  *)
(***************************************************************************)
EXTENDS Integers

CONSTANTS Keys,       \* queries: function and arguments
          Ttl,        \* by query, the time to live of its category
          Answers,    \* what Wind can answer
          NoAnswer

VARIABLES now,        \* the clock
          kept,       \* the answer kept for each query, and since when
          reply       \* what the last call was given

contractVars == <<now, kept, reply>>

ContractInit ==
  /\ now = 0
  /\ kept = [k \in Keys |-> NoAnswer]
  /\ reply = NoAnswer

Tick ==
  /\ now' > now
  /\ UNCHANGED <<kept, reply>>

\* Wind's answer a to k is kept and given; others may be forgotten.
Answer(k, a) ==
  /\ kept' \in {[j \in Keys |-> IF j = k THEN [data |-> a, since |-> now]
                                ELSE IF j \in F THEN NoAnswer ELSE kept[j]] : F \in SUBSET Keys}
  /\ reply' = a
  /\ UNCHANGED now

Repeat(k) ==
  /\ kept[k] # NoAnswer
  /\ now - kept[k].since <= Ttl[k]
  /\ reply' = kept[k].data
  /\ UNCHANGED <<now, kept>>

Forget(k) ==
  /\ kept' = [kept EXCEPT ![k] = NoAnswer]
  /\ UNCHANGED <<now, reply>>

\* The call fails; nothing old is given in its place.
Decline ==
  /\ reply' = NoAnswer
  /\ UNCHANGED <<now, kept>>

ContractNext ==
  \/ Tick \/ Decline
  \/ \E k \in Keys : Repeat(k) \/ Forget(k) \/ \E a \in Answers : Answer(k, a)

ContractSpec == ContractInit /\ [][ContractNext]_contractVars
=============================================================================
