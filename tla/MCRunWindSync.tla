---------------------------- MODULE MCRunWindSync ----------------------------
(* Small instances of RunWindSync. *)
EXTENDS RunWindSync

CONSTANTS c1, c2, x1, x2

MCCallers == {c1, c2}
MCTerminators == {x1, x2}
=============================================================================
