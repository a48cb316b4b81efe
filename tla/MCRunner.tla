------------------------------- MODULE MCRunner -------------------------------
(***************************************************************************)
(* Instances of Runner for TLC.                                            *)
(***************************************************************************)
EXTENDS Runner, TLC

CONSTANTS big, pair, other, plain

\* One test for three hosts, two for two and one without a number.
MCTests == {big, pair, other, plain}

MCSuffix == (big :> 3) @@ (pair :> 2) @@ (other :> 2) @@ (plain :> NoNumber)
===============================================================================
