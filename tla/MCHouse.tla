------------------------------ MODULE MCHouse ------------------------------
(* House on small instances: the configurations give every constant a      *)
(* value; houses and addresses are model values.                           *)
EXTENDS House
=============================================================================
