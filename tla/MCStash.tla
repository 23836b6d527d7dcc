------------------------------ MODULE MCStash ------------------------------
(* Stash with pages of a few bytes; see the configuration.                  *)
EXTENDS Stash
=============================================================================
