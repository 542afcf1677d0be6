------------------------------ MODULE MCRollback ------------------------------
(***************************************************************************)
(* A device of up to three generations, of as many systems, and any number *)
(* of calls.                                                               *)
(***************************************************************************)
EXTENDS Rollback

CONSTANTS p1, p2, p3
==============================================================================
