---------------------------- MODULE MCTcpClient ----------------------------
(* TcpClient on a small number of requests; see the configurations.         *)
EXTENDS TcpClient
=============================================================================
