--------------------------- MODULE MCDeclarations ---------------------------
EXTENDS Declarations

CONSTANTS planned, rollback

(* As "boot.rollback" would be found in "boot.rollback.planned".            *)
MCWithin == {<<planned, planned>>, <<rollback, rollback>>, <<rollback, planned>>}
==============================================================================
