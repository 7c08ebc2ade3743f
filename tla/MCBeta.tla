------------------------------- MODULE MCBeta -------------------------------
(***************************************************************************)
(* Instances of Beta.                                                      *)
(***************************************************************************)
EXTENDS Beta

CONSTANTS ann, sam
=============================================================================
