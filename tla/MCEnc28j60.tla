---------------------------- MODULE MCEnc28j60 -----------------------------
(* Enc28j60 with a ring of a few frames; see the configurations.            *)
EXTENDS Enc28j60
=============================================================================
