------------------------------ MODULE MCAccess ------------------------------
(***************************************************************************)
(* Instances of Access.                                                    *)
(***************************************************************************)
EXTENDS Access

CONSTANTS ann

OneUser == [s \in Session |-> ann]
=============================================================================
