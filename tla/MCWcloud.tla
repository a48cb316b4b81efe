------------------------------- MODULE MCWcloud -------------------------------
(***************************************************************************)
(* Module Wcloud for TLC: users differ in nothing but their names.         *)
(***************************************************************************)
EXTENDS Wcloud, TLC

Symmetry == Permutations(Users)
===============================================================================
