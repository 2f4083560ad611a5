---------------------------- MODULE MCWindSession ----------------------------
(* Small instances of WindSession: two executor threads (one may be the
   abandoned one) and one thread outside the executor. *)
EXTENDS WindSession

CONSTANTS w1, w2, c1

MCWorkers == {w1, w2}
MCCallers == {c1}
=============================================================================
