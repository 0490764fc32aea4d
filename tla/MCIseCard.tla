----------------------------- MODULE MCIseCard ------------------------------
(***************************************************************************)
(* TLC instances of IseCard: a hard step and two soft ones, the first of   *)
(* which can be reactivated.  Launches behave alike.                       *)
(***************************************************************************)
EXTENDS IseCard, TLC

MCSymmetry == Permutations(Launches)
=============================================================================
