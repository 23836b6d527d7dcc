----------------------------- MODULE MCNextHop -----------------------------
(* NextHop with a router, a DNS server and the phone on the LAN.            *)
EXTENDS NextHop
=============================================================================
