------------------------------ MODULE MCServing ------------------------------
(* A small instance of Serving: two plain queries and a profile. *)
EXTENDS Serving

CONSTANTS a, b, p

MCKeys == {a, b, p}
MCProfiles == {p}
MCTtl == [k \in Keys |-> IF k = a THEN 1 ELSE 2]
MCAnswers == {missing : missing \in SUBSET (1..3)}
=============================================================================
