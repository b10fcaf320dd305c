---------------------------- MODULE MCSpendReadback ----------------------------
(***************************************************************************)
(* Two calls of the run and one of another run; a sleep of two units of    *)
(* time, a request of three at most, and a timeout that no sum of them     *)
(* hits.                                                                   *)
(***************************************************************************)
EXTENDS SpendReadback
=============================================================================
