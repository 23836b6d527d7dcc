---------------------------- MODULE MCDhcpClient ----------------------------
(* DhcpClient with two addresses and short times; see the configurations.   *)
EXTENDS DhcpClient
=============================================================================
