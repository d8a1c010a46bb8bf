----------------------------- MODULE MCTransfer ------------------------------
(* A small instance of Transfer: a short message between two that are cut   *)
(* into two fragments.                                                      *)
EXTENDS Transfer

Messages3 == 1 .. 3
Cut3 == <<2, 1, 2>>
=============================================================================
