---------------------------- MODULE MCCrudServices ----------------------------
(* A small instance of CrudServices for TLC. *)
EXTENDS CrudServices

MCCaseFold == [code \in Codes |-> IF code = "CASH" THEN "cash" ELSE code]
=============================================================================
