------------------------------ MODULE MCRunWind ------------------------------
(* Small instances of RunWind: callers of distinct queries, and callers that
   share one. *)
EXTENDS RunWind

CONSTANTS c1, c2, c3, k1, k2

MCCallers == {c1, c2, c3}
MCTwoCallers == {c1, c2}
MCKeys == {k1, k2}

\* c1 and c2 ask for the same data; c3 too, when there is one key only.
MCMixed == [c \in Callers |-> IF c = c3 THEN k2 ELSE k1]
MCDistinct == [c \in Callers |-> IF c = c1 THEN k1 ELSE k2]
MCShared == [c \in Callers |-> k1]
=============================================================================
